# A TLA+ model of ironic's conductors

Ironic manages bare metal servers ("nodes"). A node is a row of a database; its
life is a state machine (`provision_state`); the work is done by *conductors*,
processes that share the database and a message bus and nothing else. Nearly
everything that can go wrong comes from three facts:

* several conductors, and several threads of each, may want the same node;
* most of the work goes on without a conductor: in an agent (a ramdisk booted on
  the node) that sends heartbeats, or in the BMC, which a driver polls;
* a conductor may die, or look dead, at any point, and what it left in the
  database is all that its successor has.

These modules model that protocol. Paths of the source below are relative to
`src/ironic/`.

## The system

| Component | State | Operations | Interacts with |
|---|---|---|---|
| Node reservation (`conductor/task_manager.py`, `db/sqlalchemy/api.py`) | `nodes.reservation`, one `TaskManager` per request or worker | acquire (shared, exclusive, patient), upgrade, downgrade, hand over to a worker, release | everything that touches a node |
| Conductor life cycle (`conductor/base_manager.py`, `rpc_service.py`) | `conductors` rows with `updated_at`, keepalive thread, worker pools, periodic tasks | `prepare_host`, `init_host`, `touch_conductor`, drain, stop, `_correct_stuck_states` | the reservation of its nodes |
| Recovery (`conductor/manager.py`) | none of its own | `_check_orphan_nodes`, `_cleanup_stale_conductors`, `_fail_if_in_state`, `_sync_hash_ring` | breaks locks and fails nodes of other conductors |
| Provisioning state machine (`common/state_machine.py`, `fsm.py`) | `provision_state`, `target_provision_state` | `process_event` | every flow below |
| Cleaning (`conductor/cleaning.py`, `steps.py`) | `clean_step`, and in `driver_internal_info` the steps, the index and the flags | start, next step, continue, abort, finish, error handler | heartbeats, polling, timeouts, recovery |
| Deployment (`conductor/deployments.py`) | the same for `deploy_step` | the same, with tear down | the same |
| Servicing (`conductor/servicing.py`) | the same for `service_step` | the same; unhold spawns a worker | the same |
| Rescue, inspection, verification, adoption | `provision_state` | a start, a continuation, an abort, a timeout | heartbeats, callbacks |
| Agent heartbeats (`drivers/modules/agent_base.py`) | the agent's list of commands; tokens | continue the flow of a waiting node, or fail it | the agent |
| Polling drivers (`drivers/modules/redfish/raid.py`, ...) | jobs in `driver_internal_info` | find a job over, cast `continue_node_*` | the BMC, the RPC bus |
| Allocations (`conductor/allocations.py`) | `allocations` rows, `nodes.allocation_id`, `instance_uuid` | allocate with retries, backfill, resume, deallocate | reservation of candidate nodes |
| Power synchronization (`manager.py`) | `power_state`, `target_power_state`, `maintenance`, `fault`, a counter per node | synchronize, give up, recover | the lock, shared and upgraded |
| Hash ring (`common/hash_ring.py`) | a cached ring per process | map a node to a conductor, take over | `conductor_affinity` |
| Worker pool (`base_manager.py`) | two bounded executors | spawn or reject | every operation with a worker |
| Concurrency limit (`manager.py`) | none: counts rows | refuse a request | deployment, cleaning, servicing |
| REST API, RPC API | none | validate, translate | picks the conductor by the ring |
| Drivers, networking, PXE, images, storage, consoles | of external services | calls to them | steps of the flows |
| Upgrades and migrations | versions of objects | conversion | the database |

What is hard about it: two actors with the same lock name; a check made before
the lock is taken; a transition that is saved before the worker for it exists; a
heartbeat, a timeout, an abort and a late message that arrive in any order; flags
of one flow that are found by the next; a recovery that has half happened.

What makes each component correct:

* **Reservation**: one exclusive task at a time, unless a conductor was given up;
  nobody takes from its owner what it holds; no lock outlives its owner.
* **State machine**: the target that the operator asked for survives the flow.
* **Step flows** (cleaning, deployment, servicing): the steps run in order and one
  at a time, none is left out, an abort stops them, a failure is visible and
  quarantines the node, a state in `-ing` means that somebody works on the node,
  and the flow ends.
* **Allocations**: a node has one allocation and the reverse; a failed or a
  resumed one leaves no half.
* **Power**: a conductor never reverts what the operator did meanwhile.
* **Ring**: two conductors that both think that they own a node only cost time.
* **Pool, limit**: a rejected request leaves the node as it was.

## Modules

| Module | What it is |
|---|---|
| `NodeReservation` | the lock column, the tasks, the life of conductors and the tasks that break locks |
| `NodeLock` | what that promises: a lock with owners, that may be robbed under suspicion |
| `NodeReservationRefinement` | the mapping from the first to the second |
| `ProvisionStates` | the table of transitions of `common/state_machine.py`, the target rules of `common/fsm.py` and what `process_event` saves; no variables |
| `Cleaning` | the cleaning of one node, from the operator's request to the last state |
| `Deployment` | the deployment of one node, its tear down, and the claim of an instance |
| `Servicing` | the servicing of a node with an instance |
| `RamdiskFlows` | rescue and unrescue, in-band inspection, verification, adoption, take-over of an active node |
| `PowerSync` | power requests, power synchronization and the recovery from a power failure |
| `Allocations` | rows of allocations, the threads that match them with nodes, and who takes the links away |
| `Matching` | what allocations promise: a request is granted one free node, or fails, and keeps it |
| `MC...` | small instances: plans of steps, names, symmetry, the mutated definitions |
| `NodeReservationProofs`, `NodeLockProofs`, `CleaningProofs`, `DeploymentProofs`, `ServicingProofs`, `RamdiskFlowsProofs`, `PowerSyncProofs`, `AllocationsProofs` | theorems |

`Cleaning`, `Deployment`, `Servicing` and `RamdiskFlows` extend `ProvisionStates`: every event they fire goes
through the table, so a transition that the table lacks leaves an action disabled or in its error path. Their
lock is the abstract one of `NodeLock`: free, held, or left by a dead conductor. Each models one node; nodes meet
in `Allocations` and in `NodeReservation` only.

### NodeReservation

A reservation is the *name of a host*, not of a task: two tasks of a conductor write
the same value, and whoever knows the name can erase it. So the variables are the
column (`reservation`), the life of the conductors (`record`: the row and whether its
`updated_at` is older than `heartbeat_timeout`; `phase`, `keepalive`), what a running
periodic task still has to do with the rows it has read (`scan`, `doomed`), and per
task its control state, `shared`, `bound` (the node object is loaded) and `spawned`.
`evicted`, `lapsed` and `stranded` are history variables.

One action is one transaction or one step between two. `reserve_node` is two actions
because it reads and then updates (`ReserveRead`, `PlaceLock`). The answer of the UPDATE is a second transaction, which
reads the node: it is part of `PlaceLock`, since nobody else can tell the two apart, and so is its failure (`AnswerLost`): the lock is
placed, the task has no node and ends without releasing it. `release_node` checks
the tag, and may fail as well (`ReleaseFails`). `DatabaseFails` is the constant that allows both, and `stranded`
has the nodes whose lock was left so. `LockFailed` is the way of a task that does not get the lock: retry, keep
the shared lock, or `release_resources`. A conductor that is restarted runs
`PrepareHost` before it serves and `InitHost` after; `Stop` and `Terminate` are the
two ends of draining.

Names are constants: `ConfHost` is the tag that tasks write (`CONF.host`), `SelfHost` the
name a conductor registers and clears under, `ILike` what the SQL comparison matches.
In the default deployment the first two are equal and injective and a name matches
itself only; the theorems call that `PlainNames`.

### Cleaning

The row of the node is a record with the fields that the code reads: state, target,
maintenance, `fault`, `clean_step` (`step`, with its `abort_after`), the index, whether the
list of steps is there, and the flags skip, polling and reboot. The lock is the
abstract one: free, held, or left by a dead conductor. `pc` and `at` are where the
holder is. `agent` is the ramdisk with its last command, `job` the BMC job that the driver
has written down, `casts` the `continue_node_clean` messages under way, and `recover`
a recovery that has removed the reservation and has not yet failed the node.
`flow`, `executed` and `aborted` are history: what was asked, which steps are *really*
over, whether an abort was accepted.

The handlers of RPC calls, periodic tasks and heartbeats that save and return are one
action (`Briefly`: they take the lock and give it back). A worker is several actions,
between which the conductor may die: start, continue, save the step, execute it, park
the node or advance, finish. A step is of one of seven kinds, by who carries it out;
that is all that the flow tells apart. The kinds are in the constant `Plan`, and
`Trouble` names the kinds of adversity of an instance, so that each run says what it
assumes.

A conductor that starts fails the nodes in CLEANING (`CorrectStuckStates`, from `_fail_if_in_state`), but it may not come to this one. It looks
once, at the nodes that the ring maps to it (`base_manager.py:552`), stops after `periodic_max_workers` nodes of each state
(688-690), and an exception that it does not know ends it. The trouble "passed over" stands for all of these (`PassedOver`), here and in
`Deployment`, `Servicing` and `RamdiskFlows`.

`Manage`, `Unhold`, `DoAbort`, `UpdateMaintenance`, `DoNodeClean` and `Provide` are the
requests. A request whose worker cannot be spawned puts the states back
(`provisioning_error_handler`) and is a stuttering step. `continue_node_clean` and the
timeout are not like that, and have a disjunct for a full pool.

### Deployment

The row has the state, `maintenance`, the instance, the deploy step with its list and index, and the flags. The
list of steps is made twice (`set_node_deployment_steps` before the agent is up, and again with the agent's steps
in the first heartbeat after it), so `Late` names the steps that only the second list has and `Asked` those that
the request adds. `boot` and `down` are the steps that start and end the ramdisk (`deploy.deploy`,
`deploy.tear_down_agent`); between them an agent is needed. `Claim` is the scheduler that sets `instance_uuid`; `DoNodeDeploy`,
`DoNodeTearDown`, `DoAbort` and `Unhold` are the requests; `CheckDeployTimeouts` is the periodic task. `TearDown` forgets
the instance and goes on to a cleaning, which is one action here (`CleaningEnds`; the module `Cleaning` has the rest). It has two ways
to go wrong: an error of the driver, and one behind the save (`manager.py:1211-1222`, 1292-1326), which ends the worker with the node
in DELETING ("tear down breaks off"). `over` and
`tenants` are history: the steps that are really over, and the instances whose data the disk has had since it was cleaned.

### Servicing

Servicing borrows the machine of an instance. Next to the row and the flow the model keeps what the machine runs
(`agent`, and `away`: it is out of the hands of its instance), because what a user notices is that it comes back. The list of steps is the request's,
so `Plans` is a sequence of lists. The abort is modelled in its two halves: SERVICEFAIL and ACTIVE by the request (`AbortNow`, `AbortFailed`),
and the worker that cleans up afterwards (`AbortService`); unhold spawns a worker from SERVICEWAIT, where the other flows wait.

### RamdiskFlows

The flows without steps. What must fit is spread over the row, the boot configuration (`boots`), the networks
(`nets`) and the machine (`machine`): each driver call of `AgentRescue`, `AgentInspect` and the managers is a
change of one of these, may fail, and leaves a prefix of the changes behind. Requests carry the password of
their rescue and inspections the number of their data, so that a late callback is told from a current one.
`initial` is the state that a tear down has found; `orphan` is history: the node was taken over in a state that nobody fails, or a
start has passed it over. `RefuseRescue` takes the password back, except after a "network error" of the validation, which
`do_node_rescue` does not catch.

### PowerSync

Three threads: `node_power_action` under the exclusive lock (`action`), the power sync (`sync`), which looks under a
shared lock, upgrades, and looks again, and `_power_failure_recovery` (`recovery`), which does the same for nodes in a
power failure. Each read of the database, each answer of the BMC and each save is an action, because the shared lock
excludes nobody and the record may change in between. `count` is the process's counter of attempts, lost with it.
`wanted` is history: an operator wants maintenance.

### Allocations and Matching

Each conductor has one thread per kind of work: requests, rows it resumes after a restart, rows it takes over from
the dead. A start has two halves: `Start` brings the RPC server up and registers the conductor, and fails nodes in DELETING, those it gets to;
`ListResume` is the worker that `init_host` spawns last, which lists the rows to resume. `starting` has the conductors between the two, and the trouble "early" is
that they allocate (`Allocates`). A thread lists candidates, locks one, re-reads, links in one transaction (`update_allocation` writes both
tables, or neither), releases, and may retry. Deletion comes from the API with the row as it was read before
(`requests`), from a tear down in three steps (`tearing`), from the removal of `instance_uuid` and from the removal
of a node. A tear down that fails leaves the node in ERROR with its instance (the driver raised) or without (the VIFs could not be
detached, and the event saves the row). `Suitable` stands for all that a request may ask for. The refinement mapping to `Matching` is at the end of the module:
`status` is read from the rows of allocations, `owner` from the rows of nodes, so that a link that is set on one side only is a
step that `Matching` does not have.

## Runs

All runs pass. `PROJECT.json` names a mutant of the code for each property, with which it fails.

| Run | Question | Instance |
|---|---|---|
| `reservation_safety` | is the lock a lock, under death, lapse, draining, restart, eviction, a failing database? | 2 conductors, 1 node, 3 tasks (two threads of one conductor), everything enabled; the two threads are symmetric |
| `reservation_recovery` | does it implement `NodeLock`; is every lock given up? | the same, one conductor may die for good, without deletion of stale conductors |
| `cleaning_reclean` | does AVAILABLE mean cleaned, does manual mean manageable, is a failed step quarantined? | 3 cleanings, 3 steps, all failures, maintenance, one version mismatch |
| `cleaning_recovery` | do steps run one by one, is CLEANING worked on, does a cleaning end? | 1 cleaning, 4 steps of all ordinary kinds, one death with restart or take-over, one mismatch |
| `cleaning_adversity` | is an accepted abort final? | 2 cleanings, 7 steps of all kinds, everything at once but a mismatch; 118,620 states |
| `deployment_safety` | does ACTIVE mean deployed, in order, without anything of the last instance; is DEPLOYING worked on? | 3 deployments, 2 instances, maintenance, two deaths with restart; 62,876 states |
| `deployment_recovery` | is an abort final, does a deployment end? | 2 deployments, all kinds of steps, two deaths with restart or take-over, one mismatch, tear downs that fail or break off, jobs that outrun the agent; 61,544 states |
| `servicing_flow` | was done what is reported as done, does the instance come back, does a servicing end? | 3 servicings of mixed plans, two deaths with restart |
| `rescue_inspection` | do row, boot, networks and machine fit after every flow, and does each end? | 2 rescues, 2 inspections, adoption, verification, tear downs between them, one death, a start that may pass the node over; 166,760 states |
| `power_sync` | does the record heal, is the operator's maintenance kept? | 2 requests, 3 changes of the machine or the BMC, one death with restart or take-over; deadlock checked |
| `allocations_matching` | do the tables agree, has a row one thread, is a node in use kept; is it `Matching`? | 2 conductors, 2 nodes, 2 requests, one death or intervention; symmetric; 1,250,934 states |
| `allocations_recovery` | does a request get its answer? | 2 conductors, 1 node, 1 request, all trouble but a full pool; 87,572 states |

### More instances

What follows are instances of the same modules in which a property fails, some of them because of a divergence between the
code and its comments or documents, quoted where there is one. They delimit what the runs above show, and the assumptions of the theorems come from them.
Some have a configuration of their own (`tlc -config <file> MC<module>.tla`):

| Configuration | Violates | What happens |
|---|---|---|
| `NodeReservation_drain.cfg` | `DrainingStaysFresh` | `del_host` stops the keepalive thread before it waits for its workers, although the comment above says that it goes on: after `heartbeat_timeout` another conductor may break the locks of the workers that are still waited for |
| `NodeReservation_port.cfg` | `NoLeakedLock` | with JSON-RPC on a port of its own, `prepare_host` clears `host:port`, while tasks reserve as `host` |
| `NodeReservation_wildcard.cfg` | `EvictionNeedsLapse` | the underscore of a host name is a wildcard of `ilike`: the start of one conductor breaks the locks of another that never lapsed |
| `NodeReservation_back.cfg` | `FreshKeepTheirLocks` | a conductor that was read as stale registers again, and is deleted with its locks (`manager.py:1984-1986` says "very rare") |
| `Cleaning_wait.cfg` | `ManualCleanReturns` | `hold` and `wait` steps fire their event without the target of the flow: a manual cleaning ends as if it were automated |
| `Cleaning_orphan.cfg` | `CleaningIsWorkedOn` | `_check_orphan_nodes` removes the reservation by which it finds a node before it has the lock for failing it |
| `Cleaning_passedover.cfg` | `CleaningIsWorkedOn` | the start of a conductor does not come to a node that it left in CLEANING |
| `Cleaning_restart.cfg` | `AvailableMeansCleaned` | a node that was interrupted in a step and failed by `_correct_stuck_states` keeps `clean_step` without an index; the next cleaning concludes that no step is left |
| `Cleaning_mismatch.cfg` | `AbortIsFinal` | `set_node_cleaning_steps` empties `clean_step`, which holds `abort_after` |
| `Cleaning_sleep.cfg` | `CleaningIsWorkedOn` | a `wait` step with `seconds` resumes the node to CLEANING and returns: nobody goes on (`doc/source/admin/troubleshooting.rst:457`) |
| `Cleaning_nospawn.cfg` | `CleaningIsWorkedOn` | no worker is free for `continue_node_clean`, after CLEANING was saved |
| `Cleaning_stuck.cfg` | `FailedStepIsQuarantined` | `_correct_stuck_states` fails a node in a step without maintenance (`doc/source/admin/cleaning.rst:644`) |
| `Cleaning_hold.cfg` | `CleaningEnds` | after `unhold` the heartbeat waits for a command that `hold` has never sent, and postpones the timeout each time (`doc/source/admin/steps.rst:99`) |
| `Cleaning_token.cfg` | `AvailableMeansCleaned` | an agent without commands is taken for one that was rebooted on purpose |
| `Cleaning_job.cfg` | `AvailableMeansCleaned` | a failed RAID task counts as completed (`doc/source/admin/cleaning.rst:643`) |
| `Deployment_breaksoff.cfg` | `DeploymentIsWorkedOn` | an exception behind the `node.save` of a tear down leaves DELETING with the lock free |
| `RamdiskFlows_network.cfg` | `ActiveIsTheInstances` | a `NetworkError` of the validation of a rescue leaves `rescue_password` on an ACTIVE node |
| `Allocations_early.cfg` | `OneThreadPerAllocation` | the RPC server is up before the rows to resume are listed (`common/rpc_service.py:123-126`, `base_manager.py:313-316`, 749-753): a request served between the two has its row listed, too |
| `Allocations_restart.cfg` | `OneThreadPerAllocation` | a conductor comes back between the list of orphans and their take-over |

The others are made by adding one kind of trouble to the constant `Trouble` of a run:

* `deployment_*`: "no worker", "lock taken", "passed over" and "takeover" violate `DeploymentIsWorkedOn`, for the reasons of the same instances of
  `Cleaning`; "passed over" `DeploymentEnds`, too. "agent restarts", "fast track" and a version mismatch violate `ActiveMeansDeployed` and `OneStepAfterTheOther`;
  "leftovers" (a message or a job of the previous deployment) those and `DeploymentEnds`. "tear down fails", "tear down
  breaks off" and "abort on hold" violate `NoLeftovers`. `DeploymentEnds` also needs: workers, locks that are free in a recovery, no maintenance, and
  no step that the agent brings along before it is booted. `AbortIsFinal` holds with all kinds of trouble together
  (465,819 states for two deployments).
* `servicing_flow`: "no worker" and "passed over" violate `ServicingIsWorkedOn` and `ServicingEnds`; "agent restarts" and "leftovers" `DoneMeansServiced`
  and `ServicingEnds`; "mismatch" and "bad steps" `DoneMeansServiced`; "abort fails" `InstanceIsBack`; a take-over
  `ServicingIsWorkedOn` and `ServicingEnds`. `disable_ramdisk` in some of the requests, a plan with steps that only the agent knows, and some plans with reserved
  steps (`HoldPlan`, `HoldFirstPlan`, `WaitPlan` of `MCServicing`) violate one of these as well.
* `rescue_inspection`: "no worker" violates `FlowsEnd` twice: `spawn_rescue_error_handler` does not take the arguments it is called with, so
  the node stays in RESCUING, and an INSPECTWAIT that was put back has lost `inspection_started_at` and never times out.
  "dies in request" and "network error" violate `ActiveIsTheInstances` and `RescueMeansReady`; "clean up fails", "dies in delete" and "adopts
  blindly" `ActiveIsTheInstances`; "late callback" `InspectedMeansDone`. Without a managed boot and without power off after inspection all hold.
  A take-over fails no node in RESCUING, UNRESCUING, INSPECTING, VERIFYING or ADOPTING, as `_correct_stuck_states` would:
  `FlowsEnd` excepts it (`orphan`), until a later start comes to the node; the same goes for a start that passes the node over, which the run has.
* `power_sync`: "repeated" and "toggled" violate `MaintenanceIsKept`: an operator who asks for maintenance in a power failure keeps
  the fault, and one who does it while the recovery waits for its lock is overruled. "kept orphan", "lock taken", and a
  take-over after a second crash violate `RecordHeals`. A full pool, `force_power_state_during_sync` off, and more retries and events change nothing.
* `allocations_*`: "lapse", "restart" and "early" violate `LinksAgree`, `InUseIsKept` and the refinement: two threads work on one row, the one that
  comes second sets it to error, and the node keeps its link; a tear down of that node unlinks a row that has another by then.
  "stale" and "rebuild" violate `InUseIsKept` only. "workers" violates `AllocationsEnd`: the row waits in allocating until its conductor is
  restarted.

`DrainingStaysFresh` and `FreshKeepTheirLocks` of `NodeReservation` and `OutcomeIsFinal` of `Allocations` are stated for such instances; no run above
has them. `FailedLockIsHarmless` of `NodeReservation` holds in the instance of `reservation_safety`; `LockHeld` says most of it.

### Bounds

`NodeReservation`: two conductors are enough for every race between an owner and somebody who breaks its
lock: a third one could only be another breaker. Two tasks of one conductor are
needed because they have the same tag; one task of the other competes with them.
Nodes do not interact except through statements by host name, which have no
per-node state; the theorems cover any number of all three.

`Cleaning`, `Deployment`, `Servicing`: one node. The plans hold one step of each ordinary kind, and each pair
of neighbours has a different way of going on. The bound on flows is at least 2 where
something of one may be found by the next, and 3 in the safety runs, so that what the second finds may in turn harm a third;
in `cleaning_recovery` it is 1 because a `continue_node_clean` message that outlives its cleaning
continues the next one, a hazard listed in `PROJECT.json`. `MaxCrashes` is 2 for deployment and servicing, so that a
conductor may die while it recovers; for cleaning it is 1: a second death
in the middle of a recovery strands the node exactly like `Cleaning_orphan.cfg` does.
`MaxMismatches` is 1, as the agent is updated once.

`RamdiskFlows`: two requests of each kind, as what is left of one must be met by another; one crash, at any point of
either. `PowerSync`: one retry, three events (lose, answer, change by hand) and two requests: every order of
a look, a change and a save occurs; more of each were tried and show nothing new. `Allocations`: two requests compete for two nodes; events, which
are crashes and interventions together, are 1 in the run with both, and more in smaller
instances, which hold too: 3 with one node and two requests (4,145,733 states), 2 with two nodes and one request (279,913 states).

Deadlock is checked for the reservation and for the power states. The others set
`CHECK_DEADLOCK FALSE`: when the bound on requests is used up the node rests and nothing is left to do, which is
the intended end.

### Fairness

* `NodeReservation`: a running thread takes its next step; time passes for the record of a conductor without a keepalive
  thread (one that died or drains), and only for that: a conductor that beats may lapse, but need not, so that no lock of a live conductor
  is freed by an assumption. The periodic tasks of a conductor that stays alive go on
  (`periodics` restarts them at a fixed spacing). No fairness for new requests, deaths
  and restarts. What a failing database leaves to a conductor that lives (`stranded`) nobody removes before that conductor dies, and `LocksFreed` excepts it.
* `Cleaning`, `Deployment`, `Servicing`: weak fairness for the worker threads, for heartbeats (the agent repeats
  them), for RPC delivery and polling, for recoveries, for the agent and the BMC, which end
  what they have begun, in success or not. In the runs with `*IsWorkedOn` or `*Ends` a start comes to the node; that is an assumption,
  the constant `Trouble` without "passed over", and the code does not promise it. The callback timeout is fair only when no
  agent heartbeats, since `touch_provisioning` postpones it. No fairness for the
  operator, failures and deaths. In maintenance a node waits for its operator by design, so in the liveness instances it is
  off (`Cleaning`, `Deployment`) or excepted by the property (`Servicing`, `RamdiskFlows`).
* `RamdiskFlows`: worker threads, recoveries and the periodic timeouts, which no heartbeat postpones in these states.
* `PowerSync`: the three threads, and the return of a conductor. Nothing is assumed of
  operators, and the BMC need not answer: `RecordHeals` says that again and again record and machine agree, or the BMC is silent, the
  operator wants maintenance, or the node is in a state that the sync leaves alone.
* `Allocations`: each thread, the listing of rows after a restart (`ListResume`), restarts' and orphans' lists of a running conductor, the lapse of a dead one, and the removal of its locks.
  Neither requests nor restarts are promised.

## What is proved

All proofs hold for every value of the constants allowed by the named assumptions.

* `NodeReservationProofs!TypeCorrect`: `Spec => []TypeOK`.
* `NodeReservationProofs!Locking`: `Spec => [](LockHeld /\ MutualExclusion)`. No assumption on
  names. `LockHeld` is inductive with the discipline of the tasks (`TaskDiscipline`: an exclusive
  task is not in the middle of locking, a spawned task is running, an idle one has
  nothing). `MutualExclusion` follows from the `WHERE reservation IS NULL` of `PlaceLock`: a
  task that takes the lock finds it free, so a task that believed to hold it was evicted. `OneHolder` is its second half alone.
* `NodeReservationProofs!LocksHaveOwners`: `OwnNames /\ Spec => []NoLeakedLock`. `OwnNames` says that hosts register and
  reserve under one name, each under its own; `ilike` may match what it likes (`NodeReservation_port.cfg` shows what two names do). The database may fail
  in any transaction. `NoLeakedLock` is inductive with the types: a
  reservation appears only in `PlaceLock`, for the task that is its owner from then on or, if the answer is lost, as a stranded one; every way in which a task stops to hold
  it releases it, strands it, or happens with the death of its conductor; and a stranded lock stays so until it is erased.
* `NodeReservationProofs!OnlyLapsedAreRobbed`: `PlainNames /\ Spec => []EvictionNeedsLapse` (`NodeReservation_wildcard.cfg` breaks it with other names).
  The inductive invariant `RobberyInv` is needed because names are erased long after
  they were read: `StaleKnown` says that a name in a list of `_check_orphan_nodes` or
  `_cleanup_stale_conductors` belongs to a conductor that has lapsed, and
  `EvictedBelieve` that only tasks that still believe are counted as evicted.
* `NodeLockProofs!NodeReservationIsALock`: `PlainNames /\ Spec => ImplementsNodeLock`. Every action maps
  to a step of `NodeLock` or a stutter. The invariant above shows that there is at most one owner,
  so that the `CHOOSE` of the mapping is determined.
* `CleaningProofs!TypeCorrect`: `Spec => []TypeOK`, for any list of steps, any kinds of trouble and
  any bounds. The inductive invariant is `Inv`: types and `Discipline`, which ties the place of the
  worker to the lock and to the state of the node (whoever is about to run a step holds the lock,
  the node is in CLEANING, and the step is in the list). Lemmas on `ProvisionStates` compute what an
  event of the flow does to a row, one lemma per action says which rows it leads to
  (`OperatorRows`, `ContinueRows`, ...), and the later proofs build on these.
* `CleaningProofs!ManualCleaningReturnsNode`: `NoReservedSteps /\ Spec => ManualCleanReturns`. Without
  hold and wait steps (`Cleaning_wait.cfg` shows what they do) the target stays MANAGEABLE as long as
  a manual cleaning goes on (`TargetKept`), and `done`, the only way to AVAILABLE, is fired for other targets.
* `CleaningProofs!AbortEndsCleaning`: `NoMismatch /\ Spec => AbortIsFinal`. Without a version mismatch
  (`Cleaning_mismatch.cfg`) the flag stays on the clean step until `continue_node_clean` reads
  it, and until then nobody works on the node (`AbortKept`). No assumption on steps, crashes and
  other trouble.
* `CleaningProofs!CleaningIsNeverLeft`: `Recoverable /\ Spec => []CleaningIsWorkedOn`. `Recoverable` names
  what does leave a node in CLEANING: a wait step with seconds, no worker for a
  continuation, a lock that is taken during the recovery, a recovery that passes the node over, a take-over of a node in
  maintenance, a second crash; configurations above show the first four. The proof
  strengthens the property with `InService` (a node that is cleaned is not in
  maintenance where a take-over may happen), `OneCrash` (a recovery follows a crash, so that nothing
  interrupts it) and `NeverAsleep`.
* `CleaningProofs!StepsInTheirOrder` and `AvailableHasBeenCleaned`: `Undisturbed /\ Spec => OneStepAfterTheOther` and
  `=> AvailableMeansCleaned`, for every plan, reserved and polled steps included, with crashes, version mismatches, aborts,
  holds and lost agents. `Undisturbed` excludes what does break them: an agent that comes back without its
  commands (`Cleaning_token.cfg`), a job that fails unnoticed (`Cleaning_job.cfg`) and, where one cleaning may follow
  another, what the first leaves behind: a job of a polled step, and the `clean_step` of a node that failed without an error
  handler (`Cleaning_restart.cfg`). The inductive invariant `Progress` says which steps are over at each place of the
  flow. While the cleaning waits or goes on, the index is that of the clean step and all steps before it are over (`OnTrack`);
  while it waits, a busy agent runs this step, a fresh one has been rebooted after it unless the step is to be
  repeated (`Asked`), and there is at most one of a job and a `continue_node_clean` message, for this step (`Polled`); while a worker goes
  on, neither agent nor job is at work (`GoesOn`). `Tidy` says that a cleaning begins with nothing left of an earlier one.
* `CleaningProofs!FailedStepMeansMaintenance`: `Undisturbed /\ Handled /\ Spec => FailedStepIsQuarantined`. `Handled` excludes
  a failure without a worker for it: no worker for the callback timeout, and the recoveries (`Cleaning_stuck.cfg`).
  `Progress` is needed because the end of a cleaning clears the step without maintenance if the tear down
  fails: the agent is not busy by then; `FaultMeansMaintenance` because an abort tears nothing down once a step has failed.
* `DeploymentProofs!TypeCorrect`: `Spec => []TypeOK`, for every plan of steps, whatever is `Late` or `Asked`. As in `Cleaning` the inductive
  invariant adds which state the holder of the lock finds, and that an index of a step is one of the list.
* `DeploymentProofs!InstancesAreKeptApart`: `CleanTearDown /\ Spec => []NoLeftovers`. A node that is given to an instance keeps it as
  long as it is occupied, and the disk has had no other; only a tear down that has forgotten the instance goes on to the
  cleaning. `CleanTearDown` excludes a tear down that fails or breaks off after the instance was removed, and an abort in DEPLOYHOLD, which
  leaves DEPLOYFAIL without a tear down; each breaks it.
* `DeploymentProofs!NobodyIsForgotten`: `Recovers /\ Spec => []DeploymentIsWorkedOn`, for any number of crashes. `Recovers` excludes a full
  pool, a lock that is taken during the recovery, a start that passes the node over, the take-over by another conductor, and a tear down that breaks off.
* `DeploymentProofs!NoStepAfterAbort`: `Spec => AbortIsFinal`, without an assumption, version mismatches included. `AbortHeeded`: after an accepted abort a
  node that waits or deploys has `abort_after`, and nobody is on the way to a step but `continue_node_deploy`, which reads it.
* `ServicingProofs!TypeCorrect`: `Spec => []` of its types, for every set of plans.
* `ServicingProofs!NobodyIsForgotten`: `Recovers /\ Spec => []ServicingIsWorkedOn`: workers, restarts in place of take-overs, which come to the node, and with
  `disable_ramdisk` only plans that the first worker can carry out.
* `ServicingProofs!TheMachineIsReturned`: `~May("abort fails") /\ Spec => InstanceIsBack`. The invariant (`Borrowed`) says that a node whose clean up
  failed is in maintenance, and that a servicing that does not boot the ramdisk, or has not begun, finds the machine away only if
  an earlier one has left it so.
* `RamdiskFlowsProofs!TypeCorrect`: `Spec => []` of its types. The inductive invariant `Kernel` adds `Placed` (which state the node is in
  at each place of a worker) and `Connected` (somebody will take the node off the inspection network). The other theorems of the module rest on it.
* `RamdiskFlowsProofs!TheInstanceGetsItsMachine`: `CleanRescue /\ ~May("adopts blindly") /\ Spec => []ActiveIsTheInstances`. A node comes
  back to ACTIVE by an unrescue, an adoption or a new deployment, and what an earlier rescue has left must not get there: `Freed` says that a password
  and the rescue's network exist only while a flow goes on that will remove them, `Owned` that boot and machine are in place before the last step. `CleanRescue` excludes what leaves nobody to do it: a death or a network error between the save
  of the password and the event, a death before the clean up of a tear down, and a clean up that fails.
* `RamdiskFlowsProofs!TheLastPasswordIsLetIn`: `AllOrNothing /\ Spec => RescueMeansReady`, without a death and a network error in a request (`Ready`: the row has the
  password of the last request until the machine has it, and the network of the rescue is gone before that of the tenant is back).
* `RamdiskFlowsProofs!TheLastInspectionCounts`: `~May("late callback") /\ Spec => InspectedMeansDone`. `Managed`: only a boot that ironic manages leaves
  something to clean up, and the row says so (`manages`). `Reported`: only the ramdisk of the last inspection can report, and the node
  is still in INSPECTING after the clean up only if all of it was done.
* `PowerSyncProofs!TypeCorrect`: `Spec => []TypeOK`, for any number of retries.
* `PowerSyncProofs!OperatorIsObeyed`: `PatientOperator /\ Spec => []MaintenanceIsKept`. The invariant says why: a maintenance that
  the operator wants has no fault, and no recovery has begun to clear it. `PatientOperator` excludes "repeated" and "toggled", which break the one
  and the other half.
* `AllocationsProofs!TypeCorrect` and `NodesAreNotGivenAway` (`Spec => NeverGivenAway`): without any assumption on trouble. The transaction that links
  a node checks its instance, so no node is linked under the instance it has.
* `AllocationsProofs!TheLinksAgree`, `RowsHaveOneThread`, `AllocationsImplementMatching`: under `Orderly`, which excludes a live conductor that looks
  offline, one that comes back while its rows are taken over, one that allocates before it has listed what to resume, and a node that is deployed again with what an interrupted tear
  down has left. One inductive invariant serves all, `Typed /\ Discipline`, and has three parts: who works on which
  row (`WorkDiscipline`: a thread that is busy belongs to a live conductor, the one of its row; what is in a list has no
  thread, and a conductor that has not listed its rows yet has none at work: `StartsIdle`), who holds which lock (`LockDiscipline`: a thread that has a candidate, and a tear down, hold its lock; a tear
  down knows the allocation of its node), and the links themselves (`LinkDiscipline`: the tables agree, a linked
  row is active, and the instance of a node in use is its allocation). The links need the locks, since a tear down
  takes away what it read before; the locks need the work, since a dead conductor's locks are removed. There is one
  lemma per action and part, and frame lemmas for the actions that touch one row or one thread.
  For the refinement each step is mapped to `Request`, `Grant`, `Fail`, `Release` or a stutter; `LinksAgree` is what makes `owner` a function of the rows.
* `AllocationsProofs!NodesInUseAreKept`: `InUseIsKept`, if moreover no request acts on a row it read before it changed ("stale").

The bounds of the models (`MaxCleans`, `MaxCrashes`, `MaxEvents`, ...) are constants without a value in
the theorems, except where an assumption names one.

Model-checked only: all liveness properties (fairness is outside of what is proved
here and stays with TLC), and of the safety properties those about the progress of deploy and service steps: in `Deployment`
`OneStepAfterTheOther` and `ActiveMeansDeployed`, in `Servicing` `DoneMeansServiced`. They need an invariant like `Progress` of
`CleaningProofs`. Every other safety property of the runs has a theorem.

## What is not modelled

* In `NodeReservation`: reserving several nodes in one task; tenacity's waiting times (a
  retry may come at any time, or not at all); the reservation of a node that is
  being deleted.
* In `Cleaning`: the entry from DELETING after an undeploy (`Deployment` has it, with the cleaning as one action); fast track (an agent that is
  already up); `disable_ramdisk` and the early validation of steps; runbooks; retired
  nodes; `execute_on_child_nodes`; the reserved power steps (they return like a step out
  of band); `poweroff_in_cleanfail`; two identical steps in one plan; the age of
  `provision_updated_at` (the timeout may come at any time without a heartbeat between);
  RPC messages that are lost.
* In `Deployment`: the `wait` step; deploy interfaces that boot no ramdisk (ramdisk, anaconda, boot from volume); undeploy to a
  target other than AVAILABLE; what is written to the disk. `start_deploy` of a rebuild without a known image type reads a variable that
  was not assigned (`conductor/deployments.py:174`); the model has no image types.
* In `Servicing`: steps on child nodes, the reserved power steps, `wait` with seconds, the power operations of an abort,
  `poweroff_in_servicefail`.
* In `RamdiskFlows`: rescue with a boot that is not ironic's or with Smart NICs; inspection out of band; discovery of unknown
  nodes; the contents of inspection hooks and rules.
* In `PowerSync`: soft power actions, child and parent nodes, `disable_power_off`, the firmware update that suspends the sync.
* In `Allocations`: what makes a node suitable (a constant); the order of candidates; policies of the API.
* The concurrency limit and the sizes of the worker pools: both need many nodes whose flows are one step each, and what they can
  break, a refused or delayed request, is an input of the modules above.
* The hash ring: a library computes it; two conductors that differ about it meet at the lock, as any two do.
* The REST API, policies, object versions, migrations: validation, authorization and conversion. They keep no state
  between requests, and make up most of the lines that are not mapped.
* Drivers, networking, images, storage, consoles: what they answer is an input of the flows.

## Plan

1. *Done*: `NodeReservation` with its abstraction and proofs; `ProvisionStates`; `Cleaning` and its proofs; `Deployment`; `Servicing`;
   `RamdiskFlows`; `PowerSync`; `Allocations` with `Matching`; proofs about each of them.
2. `ConcurrencyLimit` and `WorkerPool`: counting before locking (`manager.py:1371`), the reserved pool.
3. `update_node`, which judges a row of the request before it has the lock (`manager.py:164`), with the flows it may disturb.
4. One abstract module `StepFlow` (steps run in order, an abort is final, a flow ends or rests) that
   `Cleaning`, `Deployment` and `Servicing` implement.
5. The age of `provision_updated_at`, for the timeout that comes when a long maintenance ends (`manager.py:2174`).
6. `Cleaning` composed with `NodeReservation` in place of its abstract lock, or a proof that
   the abstract lock of the flows is an instance of `NodeLock`.
7. Hash rings of two processes that change at different times, with `_do_takeover`.
8. Theorems: the progress of deploy and service steps for any plan (`OneStepAfterTheOther` and `ActiveMeansDeployed` of
   `Deployment`, `DoneMeansServiced` of `Servicing`), along the lines of `Progress` in `CleaningProofs`.

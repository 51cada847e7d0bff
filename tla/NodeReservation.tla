-------------------------- MODULE NodeReservation --------------------------
(***************************************************************************)
(* The exclusive lock on a bare metal node.                                *)
(*                                                                         *)
(* A conductor that works on a node runs a TaskManager.  The lock is the   *)
(* nodes.reservation column, and what is written there is the name of the  *)
(* HOST of the task (CONF.host), not the task: two tasks of one conductor  *)
(* write the same value, and anybody who knows the name can erase it.      *)
(* Around that column run                                                  *)
(*   - the tasks: acquire, upgrade, downgrade, hand over to a worker       *)
(*     thread, release (conductor/task_manager.py);                        *)
(*   - the life of the conductor processes: start, heartbeat, graceful     *)
(*     stop, crash (conductor/base_manager.py, conductor/rpc_service.py);  *)
(*   - the periodic tasks that break the locks of a conductor believed to  *)
(*     be dead (_check_orphan_nodes, cleanup_stale_conductors).            *)
(*                                                                         *)
(* Every action is one database transaction (db/sqlalchemy/api.py) or one  *)
(* step of a process between two of them.                                  *)
(***************************************************************************)
EXTENDS Naturals

CONSTANTS
    Conductors,       \* conductor processes (one per host)
    Nodes,            \* bare metal nodes
    Tasks,            \* TaskManager slots: a slot is reused when it is idle
    Names,            \* strings that can name a host in the database
    None,             \* reservation IS NULL
    Host,             \* [Tasks -> Conductors] the process a task runs in
    NodeOf,           \* [Tasks -> Nodes] the node a task is about
    ConfHost,         \* [Conductors -> Names] CONF.host, the reservation tag
    SelfHost,         \* [Conductors -> Names] manager.host, the registered name
    ILike,            \* [Names -> SUBSET Names] what "reservation ILIKE name" matches
    Crashable,        \* conductors that may crash or be stopped
    TimelyKeepalive,  \* a running keepalive thread always beats heartbeat_timeout
    CleanupEnabled,   \* [conductor]conductor_cleanup_interval > 0
    DatabaseFails     \* a transaction of a task may fail, and raise

ASSUME ConstantsAssumption ==
    /\ Host \in [Tasks -> Conductors]
    /\ NodeOf \in [Tasks -> Nodes]
    /\ ConfHost \in [Conductors -> Names]
    /\ SelfHost \in [Conductors -> Names]
    /\ ILike \in [Names -> SUBSET Names]
    /\ Crashable \subseteq Conductors
    /\ TimelyKeepalive \in BOOLEAN
    /\ CleanupEnabled \in BOOLEAN
    /\ DatabaseFails \in BOOLEAN
    /\ None \notin Names
    /\ None \notin Tasks

VARIABLES
    reservation,  \* nodes.reservation
    record,       \* the conductors row: absent, or its updated_at is fresh or stale
    phase,        \* where a conductor process is between start and exit
    keepalive,    \* its heartbeat thread is running
    scan,         \* (node, reservation) rows a _check_orphan_nodes still walks
    doomed,       \* names a _cleanup_stale_conductors still has to delete
    pc,           \* control state of a task
    shared,       \* TaskManager.shared
    bound,        \* TaskManager.node is not None
    spawned,      \* the task has been handed over to a worker thread
    evicted,      \* history: exclusive tasks whose lock somebody else erased
    stranded,     \* history: nodes whose lock a task could not take note of, or erase
    lapsed        \* history: conductors whose row has once been found stale

lockVars == <<reservation, evicted, stranded>>
hostVars == <<record, phase, keepalive, scan, doomed, lapsed>>
taskVars == <<pc, shared, bound, spawned>>
vars == <<lockVars, hostVars, taskVars>>

TagOfTask(t) == t                       \* faulty: the tag names the task
Tag(t) == ConfHost[Host[t]]

\* The task believes it has the node to itself.
Exclusive(t) == pc[t] = "running" /\ bound[t] /\ ~shared[t]

TypeOK ==
    /\ reservation \in [Nodes -> Names \cup {None}]
    /\ record \in [Conductors -> {"absent", "fresh", "stale"}]
    /\ phase \in [Conductors -> {"down", "prepared", "up", "draining"}]
    /\ keepalive \in [Conductors -> BOOLEAN]
    /\ scan \in [Conductors -> SUBSET (Nodes \X Names)]
    /\ doomed \in [Conductors -> SUBSET Names]
    /\ pc \in [Tasks -> {"idle", "locking", "placing", "running"}]
    /\ shared \in [Tasks -> BOOLEAN]
    /\ bound \in [Tasks -> BOOLEAN]
    /\ spawned \in [Tasks -> BOOLEAN]
    /\ evicted \subseteq Tasks
    /\ stranded \subseteq Nodes
    /\ lapsed \subseteq Conductors

Init ==
    /\ reservation = [n \in Nodes |-> None]
    /\ record = [c \in Conductors |-> "absent"]
    /\ phase = [c \in Conductors |-> "down"]
    /\ keepalive = [c \in Conductors |-> FALSE]
    /\ scan = [c \in Conductors |-> {}]
    /\ doomed = [c \in Conductors |-> {}]
    /\ pc = [t \in Tasks |-> "idle"]
    /\ shared = [t \in Tasks |-> FALSE]
    /\ bound = [t \in Tasks |-> FALSE]
    /\ spawned = [t \in Tasks |-> FALSE]
    /\ evicted = {}
    /\ stranded = {}
    /\ lapsed = {}

----------------------------------------------------------------------------
(* Database operations *)

\* UPDATE nodes SET reservation = NULL for the rows in N.  "by" is the task
\* that gives its lock up, or None when the eraser is not a holder.
Erase(N, by) ==
    /\ reservation' = [n \in Nodes |-> IF n \in N THEN None ELSE reservation[n]]
    /\ evicted' = (evicted \cup {u \in Tasks : Exclusive(u) /\ NodeOf[u] \in N})
                    \ {by}
    /\ stranded' = stranded \ N

\* release_node: the row goes only if it still carries the tag.  A row that
\* does not makes the call raise; either way the column is not t's any more.
ReleaseNode(t) ==
    Erase({n \in {NodeOf[t]} : reservation[n] = Tag(t)}, t)

\* Faulty: no WHERE clause.
ClearAllReservations(name) == Erase(Nodes, None)

\* clear_node_reservations_for_conductor: every row the pattern matches.
ClearReservations(name) ==
    Erase({n \in Nodes : reservation[n] \in ILike[name]}, None)

\* Faulty: shared tasks unlock too.
ReleaseWhenShared(t) == IF bound[t] THEN ReleaseNode(t) ELSE UNCHANGED lockVars

\* Faulty: unlocks a node that was never loaded.
ReleaseUnloaded(t) == IF shared[t] THEN UNCHANGED lockVars ELSE ReleaseNode(t)

\* release_resources: a shared task has nothing to unlock, and neither has one
\* whose node was never loaded or has already been released.
ReleaseResources(t) ==
    IF ~shared[t] /\ bound[t]
    THEN ReleaseNode(t)
    ELSE UNCHANGED lockVars

\* release_node fails: the task goes, its lock stays.
ReleaseFails(t) ==
    /\ DatabaseFails
    /\ Exclusive(t)
    /\ reservation[NodeOf[t]] = Tag(t)
    /\ stranded' = stranded \cup {NodeOf[t]}
    /\ evicted' = evicted \ {t}
    /\ UNCHANGED reservation

----------------------------------------------------------------------------
(* Tasks *)

Finish(t) ==
    /\ pc' = [pc EXCEPT ![t] = "idle"]
    /\ shared' = [shared EXCEPT ![t] = FALSE]
    /\ bound' = [bound EXCEPT ![t] = FALSE]
    /\ spawned' = [spawned EXCEPT ![t] = FALSE]

\* The RPC server answers as soon as prepare_host is over and until the end of a
\* graceful stop; requests find a conductor through its row, so a process that
\* has never registered gets none before init_host.
Serving(c) ==
    /\ phase[c] # "down"
    /\ phase[c] = "prepared" => record[c] # "absent"

\* task_manager.acquire.
BeginShared(t) ==
    /\ pc[t] = "idle"
    /\ Serving(Host[t])
    /\ pc' = [pc EXCEPT ![t] = "running"]
    /\ shared' = [shared EXCEPT ![t] = TRUE]
    /\ bound' = [bound EXCEPT ![t] = TRUE]
    /\ UNCHANGED <<lockVars, hostVars, spawned>>

BeginExclusive(t) ==
    /\ pc[t] = "idle"
    /\ Serving(Host[t])
    /\ pc' = [pc EXCEPT ![t] = "locking"]
    /\ UNCHANGED <<lockVars, hostVars, shared, bound, spawned>>

\* upgrade_lock: "shared" is only reset once the lock is there.
UpgradeLock(t) ==
    /\ pc[t] = "running" /\ shared[t] /\ bound[t]
    /\ pc' = [pc EXCEPT ![t] = "locking"]
    /\ UNCHANGED <<lockVars, hostVars, shared, bound, spawned>>

\* NodeLocked: tenacity tries again (for ever when the task is patient), or the
\* exception gets out -- of upgrade_lock, whose caller keeps its shared task,
\* or of the constructor, which releases what it has.
LockFailed(t) ==
    \/ /\ pc' = [pc EXCEPT ![t] = "locking"]
       /\ UNCHANGED <<lockVars, shared, bound, spawned>>
    \/ /\ shared[t]
       /\ pc' = [pc EXCEPT ![t] = "running"]
       /\ UNCHANGED <<lockVars, shared, bound, spawned>>
    \/ /\ ~shared[t]
       /\ ReleaseResources(t)
       /\ Finish(t)

\* reserve_node, first half: read the reservation and fail fast.
ReserveRead(t) ==
    /\ pc[t] = "locking"
    /\ \/ /\ reservation[NodeOf[t]] = None
          /\ pc' = [pc EXCEPT ![t] = "placing"]
          /\ UNCHANGED <<lockVars, shared, bound, spawned>>
       \/ /\ reservation[NodeOf[t]] # None \/ DatabaseFails
          /\ LockFailed(t)
    /\ UNCHANGED hostVars

\* Faulty: no "reservation IS NULL" in the UPDATE.
PlaceLockBlindly(t) ==
    /\ pc[t] = "placing"
    /\ reservation' = [reservation EXCEPT ![NodeOf[t]] = Tag(t)]
    /\ pc' = [pc EXCEPT ![t] = "running"]
    /\ bound' = [bound EXCEPT ![t] = TRUE]
    /\ shared' = [shared EXCEPT ![t] = FALSE]
    /\ UNCHANGED <<evicted, stranded, spawned, hostVars>>

\* get_node_by_id gives the locked row to the task.
Acquired(t) ==
    /\ pc' = [pc EXCEPT ![t] = "running"]
    /\ bound' = [bound EXCEPT ![t] = TRUE]
    /\ shared' = [shared EXCEPT ![t] = FALSE]
    /\ UNCHANGED <<evicted, stranded, spawned>>

\* get_node_by_id fails after the UPDATE was committed.  reserve_node begins again
\* (after a deadlock, and finds its own lock), or a failed upgrade keeps its shared
\* task, or a constructor ends, whose release_resources has no node to release.
AnswerLost(t) ==
    /\ DatabaseFails
    /\ stranded' = stranded \cup {NodeOf[t]}
    /\ UNCHANGED evicted
    /\ \/ /\ pc' = [pc EXCEPT ![t] = "locking"]
          /\ UNCHANGED <<shared, bound, spawned>>
       \/ /\ shared[t]
          /\ pc' = [pc EXCEPT ![t] = "running"]
          /\ UNCHANGED <<shared, bound, spawned>>
       \/ /\ ~shared[t]
          /\ Finish(t)

\* reserve_node, second half: UPDATE ... WHERE reservation IS NULL in a transaction
\* of its own, and the read of the row in another.
PlaceLock(t) ==
    /\ pc[t] = "placing"
    /\ \/ /\ reservation[NodeOf[t]] = None
          /\ reservation' = [reservation EXCEPT ![NodeOf[t]] = Tag(t)]
          /\ Acquired(t) \/ AnswerLost(t)
       \/ /\ reservation[NodeOf[t]] # None \/ DatabaseFails
          /\ LockFailed(t)
    /\ UNCHANGED hostVars

\* downgrade_lock.  When release_node raises, the task stays exclusive and is
\* left through Exit.
DowngradeLock(t) ==
    /\ Exclusive(t)
    /\ reservation[NodeOf[t]] = Tag(t)
    /\ ReleaseNode(t)
    /\ shared' = [shared EXCEPT ![t] = TRUE]
    /\ UNCHANGED <<hostVars, pc, bound, spawned>>

\* Faulty: the RPC thread releases what the worker has inherited.
SpawnAndRelease(t) ==
    /\ pc[t] = "running" /\ bound[t] /\ ~spawned[t]
    /\ ReleaseResources(t)
    /\ spawned' = [spawned EXCEPT ![t] = TRUE]
    /\ UNCHANGED <<hostVars, pc, shared, bound>>

\* __exit__ with a spawn method: the worker inherits the lock and the RPC
\* thread returns without releasing it.  The pools take no work while stopping.
Spawn(t) ==
    /\ pc[t] = "running" /\ bound[t] /\ ~spawned[t]
    /\ phase[Host[t]] # "draining"
    /\ spawned' = [spawned EXCEPT ![t] = TRUE]
    /\ UNCHANGED <<lockVars, hostVars, pc, shared, bound>>

\* notify_conductor_resume_operation: a worker gives the lock up so that the
\* continue_node_* call it is about to cast can take it, and goes on.
ReleaseAndNotify(t) ==
    /\ Exclusive(t)
    /\ reservation[NodeOf[t]] = Tag(t)
    /\ ReleaseResources(t)
    /\ bound' = [bound EXCEPT ![t] = FALSE]
    /\ UNCHANGED <<hostVars, pc, shared, spawned>>

\* The end of the with block, of a failed spawn, or of the worker thread
\* (_thread_release_resources).
Exit(t) ==
    /\ pc[t] = "running"
    /\ ReleaseResources(t) \/ ReleaseFails(t)
    /\ Finish(t)
    /\ UNCHANGED hostVars

----------------------------------------------------------------------------
(* Conductor processes *)

\* Every task of a process that is gone is gone.
Die(c) ==
    /\ phase' = [phase EXCEPT ![c] = "down"]
    /\ keepalive' = [keepalive EXCEPT ![c] = FALSE]
    /\ scan' = [scan EXCEPT ![c] = {}]
    /\ doomed' = [doomed EXCEPT ![c] = {}]
    /\ pc' = [t \in Tasks |-> IF Host[t] = c THEN "idle" ELSE pc[t]]
    /\ shared' = [t \in Tasks |-> Host[t] # c /\ shared[t]]
    /\ bound' = [t \in Tasks |-> Host[t] # c /\ bound[t]]
    /\ spawned' = [t \in Tasks |-> Host[t] # c /\ spawned[t]]
    /\ evicted' = {t \in evicted : Host[t] # c}
    /\ UNCHANGED <<reservation, stranded, record, lapsed>>

Crash(c) ==
    /\ c \in Crashable
    /\ phase[c] # "down"
    /\ Die(c)

\* Faulty: a restart keeps the reservations of the previous process.
PrepareHostOnly(c) ==
    /\ phase[c] = "down"
    /\ phase' = [phase EXCEPT ![c] = "prepared"]
    /\ UNCHANGED <<record, keepalive, scan, doomed, lapsed, lockVars, taskVars>>

\* prepare_host, after which the RPC server is started.
PrepareHost(c) ==
    /\ phase[c] = "down"
    /\ phase' = [phase EXCEPT ![c] = "prepared"]
    /\ ClearReservations(SelfHost[c])
    /\ UNCHANGED <<record, keepalive, scan, doomed, lapsed, taskVars>>

\* init_host: register (or update) the row and start the keepalive thread.
InitHost(c) ==
    /\ phase[c] = "prepared"
    /\ phase' = [phase EXCEPT ![c] = "up"]
    /\ record' = [record EXCEPT ![c] = "fresh"]
    /\ keepalive' = [keepalive EXCEPT ![c] = TRUE]
    /\ UNCHANGED <<scan, doomed, lapsed, lockVars, taskVars>>

\* One turn of the keepalive loop: touch_conductor updates a row, it does not
\* create one.
Touch(c) ==
    /\ keepalive[c]
    /\ record[c] = "stale"
    /\ record' = [record EXCEPT ![c] = "fresh"]
    /\ UNCHANGED <<phase, keepalive, scan, doomed, lapsed, lockVars, taskVars>>

\* heartbeat_timeout passes without a touch.
Expire(c) ==
    /\ record[c] = "fresh"
    /\ TimelyKeepalive => ~keepalive[c]
    /\ record' = [record EXCEPT ![c] = "stale"]
    /\ lapsed' = lapsed \cup {c}
    /\ UNCHANGED <<phase, keepalive, scan, doomed, lockVars, taskVars>>

\* RPCService.stop up to del_host(clear_node_reservations=False): the row is
\* marked offline, which refreshes it, when deregister_on_shutdown is set; periodic
\* tasks and the keepalive thread are stopped; then the workers are waited for.
Stop(c) ==
    /\ c \in Crashable
    /\ phase[c] = "up"
    /\ phase' = [phase EXCEPT ![c] = "draining"]
    /\ keepalive' = [keepalive EXCEPT ![c] = FALSE]
    /\ scan' = [scan EXCEPT ![c] = {}]
    /\ doomed' = [doomed EXCEPT ![c] = {}]
    /\ \/ /\ record[c] = "stale"
          /\ record' = [record EXCEPT ![c] = "fresh"]
       \/ UNCHANGED record
    /\ UNCHANGED <<lapsed, lockVars, taskVars>>

\* The rest of RPCService.stop: the executors are empty, and either no node is
\* reserved or the shutdown timeout is over.
Terminate(c) ==
    /\ phase[c] = "draining"
    /\ \A t \in Tasks : Host[t] = c => ~spawned[t]
    /\ Die(c)

\* _check_orphan_nodes reads the offline conductors and the nodes they have
\* reserved; the hash ring maps some of these nodes to d.
CheckOrphanNodes(d) ==
    LET offline == {SelfHost[c] : c \in {x \in Conductors : record[x] = "stale"}}
                     \ {SelfHost[d]}
        orphans == {n \in Nodes : reservation[n] \in offline}
    IN  /\ phase[d] = "up"
        /\ scan[d] = {}
        /\ \E N \in SUBSET orphans \ {{}} :
               scan' = [scan EXCEPT ![d] = {<<n, reservation[n]>> : n \in N}]
        /\ UNCHANGED <<record, phase, keepalive, doomed, lapsed, lockVars, taskVars>>

\* Faulty: released in the name of this host, not of the dead one.
ReleaseOrphanAsSelf(d, row) ==
    /\ row \in scan[d]
    /\ Erase({n \in Nodes : n = row[1] /\ reservation[n] = SelfHost[d]}, None)
    /\ scan' = [scan EXCEPT ![d] = @ \ {row}]
    /\ UNCHANGED <<record, phase, keepalive, doomed, lapsed, taskVars>>

\* One round of its first loop: release_node on behalf of the dead conductor.
ReleaseOrphan(d, row) ==
    /\ row \in scan[d]
    /\ Erase({n \in Nodes : n = row[1] /\ reservation[n] = row[2]}, None)
    /\ scan' = [scan EXCEPT ![d] = @ \ {row}]
    /\ UNCHANGED <<record, phase, keepalive, doomed, lapsed, taskVars>>

\* _cleanup_stale_conductors picks a batch of stale rows, its own one included.
PickStaleConductors(d) ==
    /\ CleanupEnabled
    /\ phase[d] = "up"
    /\ doomed[d] = {}
    /\ \E C \in SUBSET {c \in Conductors : record[c] = "stale"} \ {{}} :
           doomed' = [doomed EXCEPT ![d] = {SelfHost[c] : c \in C}]
    /\ UNCHANGED <<record, phase, keepalive, scan, lapsed, lockVars, taskVars>>

\* delete_conductor: one transaction, rolled back when the row is already gone.
DeleteConductor(d, name) ==
    /\ name \in doomed[d]
    /\ doomed' = [doomed EXCEPT ![d] = @ \ {name}]
    /\ IF \E c \in Conductors : SelfHost[c] = name /\ record[c] # "absent"
       THEN /\ ClearReservations(name)
            /\ record' = [c \in Conductors |->
                            IF SelfHost[c] = name THEN "absent" ELSE record[c]]
       ELSE UNCHANGED <<lockVars, record>>
    /\ UNCHANGED <<phase, keepalive, scan, lapsed, taskVars>>

----------------------------------------------------------------------------

TaskStep(t) ==
    \/ UpgradeLock(t) \/ ReserveRead(t) \/ PlaceLock(t)
    \/ DowngradeLock(t) \/ Spawn(t) \/ ReleaseAndNotify(t) \/ Exit(t)

HostStep(c) ==
    \/ Crash(c) \/ PrepareHost(c) \/ InitHost(c) \/ Touch(c) \/ Expire(c)
    \/ Stop(c) \/ Terminate(c)

PeriodicStep(d) ==
    \/ CheckOrphanNodes(d)
    \/ \E row \in scan[d] : ReleaseOrphan(d, row)
    \/ PickStaleConductors(d)
    \/ \E name \in doomed[d] : DeleteConductor(d, name)

Next ==
    \/ \E t \in Tasks : BeginShared(t) \/ BeginExclusive(t) \/ TaskStep(t)
    \/ \E c \in Conductors : HostStep(c) \/ PeriodicStep(c)

Spec == Init /\ [][Next]_vars

----------------------------------------------------------------------------
(* Properties *)

\* An exclusive task whose lock nobody has broken is named by the reservation
\* of its node: no path through upgrade, downgrade, hand-over or release loses
\* a lock that is in use (TaskManager.release_resources).
LockHeld ==
    \A t \in Tasks : Exclusive(t) /\ t \notin evicted
                       => reservation[NodeOf[t]] = Tag(t)

\* Two tasks believe they have the same node to themselves only when the lock
\* of one of them has been broken from outside ("Operations that change a node
\* hold an exclusive lock", TaskManager).
MutualExclusion ==
    \A t, u \in Tasks :
        t # u /\ NodeOf[t] = NodeOf[u] /\ Exclusive(t) /\ Exclusive(u)
            => t \in evicted \/ u \in evicted

\* A lock is broken only when the conductor it names has, at some time, let
\* heartbeat_timeout pass without a heartbeat: neither the late ReleaseOrphan of
\* a list read before a restart, nor a task that releases by host name what its
\* own eviction left to another one, reaches a conductor that never lapsed.
EvictionNeedsLapse == \A t \in evicted : Host[t] \in lapsed

\* A conductor that is alive keeps a lock no task of its own will ever release
\* (such a node could only be recovered by a restart) only where the database
\* failed between the UPDATE and the read of reserve_node, or in release_node: no
\* other way through acquire, upgrade, hand over, eviction, release and restart
\* loses the owner of a lock (TaskManager.release_resources, prepare_host).
NoLeakedLock ==
    \A c \in Conductors, n \in Nodes :
        phase[c] # "down" /\ reservation[n] = ConfHost[c]
            => \/ n \in stranded
               \/ \E t \in Tasks : Host[t] = c /\ NodeOf[t] = n /\ Exclusive(t)

\* A task that does not get the lock (NodeLocked from acquire or upgrade_lock)
\* leaves every reservation as it is, although it goes through the same
\* release_resources as a holder and carries the name of its host.
FailedLockIsHarmless ==
    [][\A t \in Tasks :
          pc[t] \in {"locking", "placing"} /\ pc'[t] # pc[t]
              => \A n \in Nodes : reservation[n] # None
                                    => reservation'[n] = reservation[n]]_vars

\* While a conductor stops, "the keepalive heartbeat thread will continue to
\* run, but will now be setting online=False" (base_manager.py:429-430): its row
\* does not go stale under the tasks it is still waiting for.
DrainingStaysFresh ==
    \A c \in Conductors : phase[c] = "draining" => record[c] # "stale"

\* No lock is broken while its conductor has a fresh record: what was read when the
\* record was stale may be carried out when the conductor is back ("Although very
\* rare, this may lead to a race condition", manager.py:1984-1986, and the deletion
\* of a conductor that has registered again).
FreshKeepTheirLocks ==
    [][\A t \in Tasks : t \in evicted' \ evicted => record[Host[t]] # "fresh"]_vars

----------------------------------------------------------------------------
(* Liveness *)

\* A running thread takes its next step, time passes for a conductor without a
\* keepalive thread, and the conductors that stay alive keep running their
\* periodic task.
Fairness ==
    /\ \A t \in Tasks : WF_vars(TaskStep(t))
    /\ \A c \in Conductors :
          /\ WF_vars(~keepalive[c] /\ Expire(c))
          /\ WF_vars(CheckOrphanNodes(c))
          /\ WF_vars(\E row \in scan[c] : ReleaseOrphan(c, row))
    /\ \A c \in Conductors \ Crashable : WF_vars(PrepareHost(c) \/ InitHost(c))

FairSpec == Spec /\ Fairness

\* Every lock is eventually given up, also that of a conductor that crashed and
\* is never started again, as long as some other conductor lives.  What a failure
\* of the database has stranded stays as long as its conductor lives, and no
\* longer (_check_orphan_nodes, prepare_host).
LocksFreed ==
    \A n \in Nodes :
        reservation[n] # None
          ~> \/ reservation[n] = None
             \/ /\ n \in stranded
                /\ \E c \in Conductors : /\ ConfHost[c] = reservation[n]
                                          /\ phase[c] # "down"

=============================================================================

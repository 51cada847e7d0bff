----------------------------- MODULE Allocations -----------------------------
(***************************************************************************)
(* Allocations: requests for any suitable node, which the conductors match *)
(* with available nodes in the background.                                 *)
(*                                                                         *)
(* A conductor that gets a request writes a row for it (state allocating,  *)
(* conductor_affinity = itself) and spawns a thread, which lists the       *)
(* candidates and tries them one by one under their locks.  A conductor    *)
(* that comes back resumes the rows that name it; the periodic task of the *)
(* others takes over those of a conductor that went offline.  The tear     *)
(* down of a node and several requests of the API take the link away.      *)
(*                                                                         *)
(* Suitable[a] stands for what a request asks for and what does not change *)
(* while it is processed: resource class, traits, candidate nodes, owner   *)
(* and a known power state.  A shuffled list of candidates is a set that   *)
(* is tried in any order.                                                  *)
(***************************************************************************)
EXTENDS Naturals, FiniteSets

CONSTANTS
    Conductors,
    Nodes,
    Allocs,
    Suitable,       \* [Allocs -> SUBSET Nodes]
    MaxAttempts,    \* node_locked_retry_attempts
    MaxEvents,      \* bounds the crashes and the interventions of operators
    Trouble,        \* what may go wrong beyond crashes, see TroubleKinds
    None,           \* NULL in the database
    Other           \* an instance_uuid that is no allocation's UUID

\* "lapse"    a live conductor misses its heartbeats and looks offline
\* "restart"  a conductor comes back while its rows are being taken over
\* "stale"    the row changes between the read of DELETE's handler and the RPC
\* "workers"  the pool has no thread for a new request
\* "rebuild"  a node is deployed again without a tear down
\* "early"    a conductor that has not read its list of rows to resume yet
\*            serves requests for allocations and takes over rows
TroubleKinds == {"lapse", "restart", "stale", "workers", "rebuild", "early"}

ASSUME AllocationAssumptions ==
    /\ Suitable \in [Allocs -> SUBSET Nodes]
    /\ MaxAttempts \in Nat \ {0}
    /\ MaxEvents \in Nat
    /\ Trouble \subseteq TroubleKinds
    /\ None \notin Conductors \cup Nodes \cup Allocs \cup {Other}
    /\ Other \notin Allocs

Roles == {"request", "resume", "orphans"}
Threads == Conductors \X Roles

VARIABLES
    alloc,      \* rows of allocations: state, node_id, conductor_affinity
    node,       \* rows of nodes
    up,         \* conductor processes that run
    online,     \* conductors that look online in the database
    starting,   \* conductors that run but have not listed what to resume
    thread,     \* what each thread works on
    queue,      \* rows listed by a restart and by the orphan check
    requests,   \* DELETE requests on their way, with the node_id they read
    tearing,    \* tear downs that run
    events      \* crashes and interventions so far

vars == <<alloc, node, up, online, starting, thread, queue, requests, tearing, events>>
-----------------------------------------------------------------------------
Exists(a) == alloc[a].state \in {"allocating", "active", "error"}

Event == events < MaxEvents /\ events' = events + 1

Idle == [pc |-> "idle", on |-> None, todo |-> {}, retry |-> {},
         attempt |-> 0, node |-> None, fill |-> FALSE]

\* do_allocate starts with the list of candidates.
Begin(a) == [Idle EXCEPT !.pc = "list", !.on = a]

\* The node is free and looks as the request wants it: the filters of
\* _candidate_nodes and the checks of _verify_node.
Suits(n, a) ==
    /\ n \in Suitable[a]
    /\ node[n].prov = "available"
    /\ node[n].instance = None
    /\ ~ node[n].maintenance

\* update_allocation without a node_id leaves the nodes alone.
FailedRow(a) ==
    IF Exists(a) THEN [alloc EXCEPT ![a].state = "error", ![a].node = None]
                 ELSE alloc

\* destroy_allocation: every node that names the row loses it.
DestroyedRow(a) == [alloc EXCEPT ![a].state = "gone", ![a].node = None]
\* Faulty: the foreign key is kept.
UnlinkedInstance(a) ==
    [n \in Nodes |-> IF node[n].allocation = a
                     THEN [node[n] EXCEPT !.instance = None] ELSE node[n]]

Unlinked(a) ==
    [n \in Nodes |-> IF node[n].allocation = a
                     THEN [node[n] EXCEPT !.allocation = None, !.instance = None]
                     ELSE node[n]]

Init ==
    /\ alloc = [a \in Allocs |->
                  [state |-> "new", node |-> None, affinity |-> None]]
    /\ node \in [Nodes -> [prov : {"available", "active"}, instance : {None},
                           allocation : {None}, maintenance : {FALSE},
                           lock : {None}]]
    /\ up = Conductors
    /\ online = Conductors
    /\ starting = {}
    /\ thread = [t \in Threads |-> Idle]
    /\ queue = [c \in Conductors |-> [resume |-> {}, orphans |-> {}]]
    /\ requests = {}
    /\ tearing = [n \in Nodes |-> [pc |-> "no", by |-> None, alloc |-> None]]
    /\ events = 0
-----------------------------------------------------------------------------
(* The request and the thread that processes it. *)

NewRow(c, a) ==
    [alloc EXCEPT ![a] = [state |-> "allocating", node |-> None, affinity |-> c]]

\* The RPC server is started before init_host, which registers the conductor,
\* starts the periodic tasks and only then has the rows to resume listed.
Allocates(c) == c \in up /\ (c \notin starting \/ "early" \in Trouble)

\* The row is written before the thread is spawned; NoFreeConductorWorker
\* leaves it behind.  One new request at a time is processed per conductor.
CreateAllocation(c, a) ==
    /\ Allocates(c)
    /\ alloc[a].state = "new"
    /\ thread[<<c, "request">>].pc = "idle"
    /\ alloc' = NewRow(c, a)
    /\ \/ thread' = [thread EXCEPT ![<<c, "request">>] = Begin(a)]
       \/ "workers" \in Trouble /\ UNCHANGED thread
    /\ UNCHANGED <<node, up, online, starting, queue, requests, tearing, events>>

\* The request names an active node: no search, and the caller waits.
CreateBackfill(c, a, n) ==
    /\ Allocates(c)
    /\ alloc[a].state = "new"
    /\ thread[<<c, "request">>].pc = "idle"
    /\ alloc' = NewRow(c, a)
    /\ thread' = [thread EXCEPT ![<<c, "request">>] =
                    [Idle EXCEPT !.pc = "backfill", !.on = a, !.node = n,
                                 !.fill = TRUE]]
    /\ UNCHANGED <<node, up, online, starting, queue, requests, tearing, events>>

\* _candidate_nodes
ListCandidates(t) ==
    LET found == {n \in Nodes : Suits(n, thread[t].on)}
    IN  /\ thread[t].pc = "list"
        /\ thread' = [thread EXCEPT
                        ![t].pc = IF found = {} THEN "failed" ELSE "try",
                        ![t].todo = found,
                        ![t].attempt = 1]
        /\ UNCHANGED <<alloc, node, up, online, starting, queue, requests, tearing, events>>

\* One round of the loop of _allocate_node up to _verify_node: a locked node
\* is kept for the next attempt, one that no longer suits is dropped, and a
\* node that is gone ends the whole search (NodeNotFound is not caught).
TryNode(t, n) ==
    LET w == thread[t]
    IN  /\ w.pc = "try"
        /\ n \in w.todo
        /\ \/ /\ node[n].prov = "gone"
              /\ thread' = [thread EXCEPT ![t].pc = "failed"]
              /\ UNCHANGED node
           \/ /\ node[n].prov # "gone" /\ node[n].lock # None
              /\ thread' = [thread EXCEPT ![t].todo = @ \ {n},
                                          ![t].retry = @ \cup {n}]
              /\ UNCHANGED node
           \/ /\ node[n].lock = None /\ node[n].prov # "gone" /\ ~ Suits(n, w.on)
              /\ thread' = [thread EXCEPT ![t].todo = @ \ {n}]
              /\ UNCHANGED node
           \/ /\ node[n].lock = None /\ Suits(n, w.on)
              /\ thread' = [thread EXCEPT ![t].pc = "locked", ![t].node = n]
              /\ node' = [node EXCEPT ![n].lock = t[1]]
        /\ UNCHANGED <<alloc, up, online, starting, queue, requests, tearing, events>>

\* Faulty: the attempts are not counted.
NextAttemptUncounted(t) ==
    /\ thread[t].pc = "try"
    /\ thread[t].todo = {}
    /\ thread' = [thread EXCEPT ![t].todo = thread[t].retry, ![t].retry = {}]
    /\ UNCHANGED <<alloc, node, up, online, starting, queue, requests, tearing, events>>

\* The end of the loop raises AllocationFailed, on which tenacity calls
\* _allocate_node again with the nodes that were locked.
NextAttempt(t) ==
    LET w == thread[t]
    IN  /\ w.pc = "try"
        /\ w.todo = {}
        /\ thread' = [thread EXCEPT ![t] =
                        IF w.attempt < MaxAttempts
                        THEN [w EXCEPT !.todo = w.retry, !.retry = {},
                                       !.attempt = w.attempt + 1]
                        ELSE [w EXCEPT !.pc = "failed"]]
        /\ UNCHANGED <<alloc, node, up, online, starting, queue, requests, tearing, events>>

\* _do_backfill_allocation up to the save; the lock may stay busy until the
\* retries of acquire are over.
TryBackfill(t) ==
    LET w == thread[t]
        takes == /\ node[w.node].prov = "active"
                 /\ w.node \in Suitable[w.on]
                 /\ node[w.node].lock = None
    IN  /\ w.pc = "backfill"
        /\ thread' = [thread EXCEPT ![t].pc = IF takes THEN "locked" ELSE "failed"]
        /\ node' = IF takes THEN [node EXCEPT ![w.node].lock = t[1]] ELSE node
        /\ UNCHANGED <<alloc, up, online, starting, queue, requests, tearing, events>>

\* Faulty: update_allocation does not look at the node's instance_uuid.
AssociatedNever(a, n) == FALSE

\* The outcomes of the transaction of update_allocation on the node.
Associated(a, n) == node[n].instance \notin {None, a}
Duplicate(a, n) == \E m \in Nodes \ {n} : node[m].instance = a
Links(a, n) == Exists(a) /\ ~ Associated(a, n) /\ ~ Duplicate(a, n)

LinkedNode(a, n) == [node[n] EXCEPT !.allocation = a, !.instance = a]

\* Releasing a lock that a check of another conductor took away raises: after
\* the node was linked, too.
AfterLink(t, n) ==
    CASE node[n].lock = t[1] -> Idle
      [] node[n].lock = None -> [thread[t] EXCEPT !.pc = "failed"]
      [] OTHER -> [thread[t] EXCEPT !.pc = "try", !.todo = @ \ {n},
                                    !.retry = @ \cup {n}, !.node = None]

\* allocation.save() and the end of the with block, which releases the lock.
SaveAllocation(t) ==
    LET w == thread[t]
        a == w.on
        n == w.node
        released(row) == IF row.lock = t[1] THEN [row EXCEPT !.lock = None] ELSE row
    IN  /\ w.pc = "locked"
        /\ \/ /\ Links(a, n)
              /\ alloc' = [alloc EXCEPT ![a].state = "active", ![a].node = n]
              /\ node' = [node EXCEPT ![n] = released(LinkedNode(a, n))]
              /\ thread' = [thread EXCEPT ![t] = AfterLink(t, n)]
           \/ /\ Exists(a) /\ Associated(a, n) /\ ~ w.fill
              /\ node' = [node EXCEPT ![n] = released(@)]
              /\ thread' = [thread EXCEPT ![t].pc = "try", ![t].todo = @ \ {n},
                                          ![t].node = None]
              /\ UNCHANGED alloc
           \/ /\ ~ Links(a, n)
              /\ ~ Exists(a) \/ ~ Associated(a, n) \/ w.fill
              /\ node' = [node EXCEPT ![n] = released(@)]
              /\ thread' = [thread EXCEPT ![t].pc = "failed"]
              /\ UNCHANGED alloc
        /\ UNCHANGED <<up, online, starting, queue, requests, tearing, events>>

\* _allocation_failed, for every exception that reaches do_allocate.
FailAllocation(t) ==
    /\ thread[t].pc = "failed"
    /\ alloc' = FailedRow(thread[t].on)
    /\ thread' = [thread EXCEPT ![t] = Idle]
    /\ UNCHANGED <<node, up, online, starting, queue, requests, tearing, events>>
-----------------------------------------------------------------------------
(* Removal of an allocation. *)

\* The API reads the row and sends what it read to a conductor.
RequestDestroy(a) ==
    /\ Event
    /\ Exists(a)
    /\ requests' = requests \cup {<<a, alloc[a].node>>}
    /\ UNCHANGED <<alloc, node, up, online, starting, thread, queue, tearing>>

\* Faulty: only the states in between are refused.
MayDeallocateActive(n) ==
    \/ node[n].maintenance
    \/ node[n].prov \notin {"deploying", "deleting", "cleaning"}

\* verify_node_for_deallocation
MayDeallocate(n) ==
    \/ node[n].maintenance
    \/ node[n].prov \notin {"deploying", "deleting", "cleaning", "active"}

\* destroy_allocation of the manager: only a request that names a node takes
\* its lock and looks at it.  An error of the request changes nothing.
HandleDestroy(c, r) ==
    LET a == r[1]
        n == r[2]
        destroys == /\ Exists(a)
                    /\ n # None => /\ node[n].prov # "gone"
                                   /\ node[n].lock = None
                                   /\ MayDeallocate(n)
    IN  /\ c \in up
        /\ r \in requests
        /\ "stale" \in Trouble \/ n = alloc[a].node
        /\ requests' = requests \ {r}
        /\ alloc' = IF destroys THEN DestroyedRow(a) ELSE alloc
        /\ node' = IF destroys THEN Unlinked(a) ELSE node
        /\ UNCHANGED <<up, online, starting, thread, queue, tearing, events>>

\* update_node with a new instance_uuid, which the database keeps unique.
SetInstance(n, i) ==
    /\ Event
    /\ node[n].prov # "gone" /\ node[n].lock = None
    /\ node[n].instance = None
    /\ \A m \in Nodes : node[m].instance # i
    /\ node' = [node EXCEPT ![n].instance = i]
    /\ UNCHANGED <<alloc, up, online, starting, thread, queue, requests, tearing>>

\* Faulty: the allocation is left behind.
RemoveInstanceOnly(n) ==
    /\ Event
    /\ node[n].prov # "gone" /\ node[n].lock = None
    /\ node[n].instance # None
    /\ node' = [node EXCEPT ![n].instance = None, ![n].allocation = None]
    /\ UNCHANGED <<alloc, up, online, starting, thread, queue, requests, tearing>>

\* update_node with instance_uuid removed: the allocation goes with it.
RemoveInstance(n) ==
    LET a == node[n].allocation
    IN  /\ Event
        /\ node[n].prov # "gone" /\ node[n].lock = None
        /\ node[n].instance # None
        /\ a # None => node[n].maintenance \/ node[n].prov = "available"
        /\ alloc' = IF a # None THEN DestroyedRow(a) ELSE alloc
        /\ node' = IF a # None THEN [Unlinked(a) EXCEPT ![n].instance = None]
                               ELSE [node EXCEPT ![n].instance = None]
        /\ UNCHANGED <<up, online, starting, thread, queue, requests, tearing>>

\* destroy_node: the rows that name the node are deleted with it.
DestroyNode(n) ==
    /\ Event
    /\ node[n].lock = None
    /\ \/ node[n].maintenance /\ node[n].prov # "gone"
       \/ node[n].instance = None /\ node[n].prov = "available"
    /\ node' = [node EXCEPT ![n] = [prov |-> "gone", instance |-> None,
                                    allocation |-> None, maintenance |-> FALSE,
                                    lock |-> None]]
    /\ alloc' = [a \in Allocs |-> IF alloc[a].node = n
                                  THEN DestroyedRow(a)[a] ELSE alloc[a]]
    /\ UNCHANGED <<up, online, starting, thread, queue, requests, tearing>>
-----------------------------------------------------------------------------
(* The life of the nodes, as far as it concerns allocations. *)

SetMaintenance(n) ==
    /\ Event
    /\ node[n].prov # "gone" /\ node[n].lock = None
    /\ node' = [node EXCEPT ![n].maintenance = ~ @]
    /\ UNCHANGED <<alloc, up, online, starting, thread, queue, requests, tearing>>

\* do_node_deploy; with rebuild from the states that have an instance
Deploy(n) ==
    /\ node[n].lock = None
    /\ ~ node[n].maintenance
    /\ \/ node[n].prov = "available"
       \/ "rebuild" \in Trouble /\ node[n].prov \in {"active", "deploy failed", "error"}
    /\ node' = [node EXCEPT ![n].prov = "deploying"]
    /\ UNCHANGED <<alloc, up, online, starting, thread, queue, requests, tearing, events>>

DeployEnds(n) ==
    /\ node[n].prov = "deploying" /\ node[n].lock = None
    /\ \E p \in {"active", "deploy failed"} : node' = [node EXCEPT ![n].prov = p]
    /\ UNCHANGED <<alloc, up, online, starting, thread, queue, requests, tearing, events>>

\* do_node_tear_down
TearDown(c, n) ==
    /\ c \in up
    /\ node[n].lock = None
    /\ node[n].prov \in {"active", "deploying", "deploy failed", "error"}
    /\ node' = [node EXCEPT ![n].prov = "deleting", ![n].lock = c]
    /\ tearing' = [tearing EXCEPT ![n] = [pc |-> "driver", by |-> c, alloc |-> None]]
    /\ UNCHANGED <<alloc, up, online, starting, thread, queue, requests, events>>

\* _do_node_tear_down as far as node.save(), which also reads the row back.
\* When the VIFs cannot be removed, process_event('fail') saves the row, with
\* no instance and with its allocation; not so after an error of the driver:
\* there is no 'fail' from ERROR, and nothing is saved.
DropInstance(n) ==
    /\ tearing[n].pc = "driver"
    /\ \/ \E p \in {"deleting", "error"} :
            /\ node' = [node EXCEPT ![n].prov = p, ![n].instance = None]
            /\ tearing' = [tearing EXCEPT ![n].pc = "saved",
                                          ![n].alloc = node[n].allocation]
       \/ /\ \E i \in {None, node[n].instance} :
               node' = [node EXCEPT ![n].prov = "error", ![n].instance = i,
                          ![n].lock = IF @ = tearing[n].by THEN None ELSE @]
          /\ tearing' = [tearing EXCEPT ![n].pc = "no", ![n].by = None]
    /\ UNCHANGED <<alloc, up, online, starting, thread, queue, requests, events>>

\* The rest: the allocation is looked up and destroyed, and cleaning begins.
\* AllocationNotFound leaves the node in DELETING.
FinishTearDown(n) ==
    LET a == tearing[n].alloc
        found == a # None /\ Exists(a)
        rows == IF found THEN Unlinked(a) ELSE node
    IN  /\ tearing[n].pc = "saved"
        /\ alloc' = IF found THEN DestroyedRow(a) ELSE alloc
        /\ node' = [rows EXCEPT
                      ![n].prov = IF @ = "deleting" /\ (a = None \/ found)
                                  THEN "cleaning" ELSE @,
                      ![n].lock = IF @ = tearing[n].by THEN None ELSE @]
        /\ tearing' = [tearing EXCEPT ![n] = [pc |-> "no", by |-> None, alloc |-> None]]
        /\ UNCHANGED <<up, online, starting, thread, queue, requests, events>>

CleaningEnds(n) ==
    /\ node[n].prov = "cleaning" /\ node[n].lock = None
    /\ node' = [node EXCEPT ![n].prov = "available"]
    /\ UNCHANGED <<alloc, up, online, starting, thread, queue, requests, tearing, events>>
-----------------------------------------------------------------------------
(* Crashes and recovery. *)

Crash(c) ==
    /\ c \in up
    /\ Event
    /\ up' = up \ {c}
    /\ starting' = starting \ {c}
    /\ thread' = [t \in Threads |-> IF t[1] = c THEN Idle ELSE thread[t]]
    /\ queue' = [queue EXCEPT ![c] = [resume |-> {}, orphans |-> {}]]
    /\ tearing' = [n \in Nodes |-> IF tearing[n].by = c
                     THEN [pc |-> "no", by |-> None, alloc |-> None]
                     ELSE tearing[n]]
    /\ UNCHANGED <<alloc, node, online, requests>>

\* The heartbeat timeout of the conductor passes.
GoOffline(c) ==
    /\ c \in online
    /\ \/ c \notin up /\ UNCHANGED events
       \/ c \in up /\ "lapse" \in Trouble /\ Event
    /\ online' = online \ {c}
    /\ UNCHANGED <<alloc, node, up, starting, thread, queue, requests, tearing>>

Beat(c) ==
    /\ c \in up \ online
    /\ online' = online \cup {c}
    /\ UNCHANGED <<alloc, node, up, starting, thread, queue, requests, tearing, events>>

\* prepare_host clears the locks, init_host makes nodes stuck in DELETING fail,
\* the nodes that it reaches; the rows to resume are not listed yet.
Start(c) ==
    /\ c \notin up
    /\ \/ "restart" \in Trouble
       \/ \A d \in Conductors, a \in Allocs : <<a, c>> \notin queue[d].orphans
    /\ up' = up \cup {c}
    /\ online' = online \cup {c}
    /\ starting' = starting \cup {c}
    /\ \E reached \in SUBSET Nodes :
         node' = [n \in Nodes |->
                    LET lock == IF node[n].lock = c THEN None ELSE node[n].lock
                    IN  [node[n] EXCEPT !.lock = lock,
                           !.prov = IF n \in reached /\ lock = None /\ @ = "deleting"
                                    THEN "error" ELSE @]]
    /\ UNCHANGED <<alloc, thread, queue, requests, tearing, events>>

\* The worker that init_host spawns last lists the rows of its conductor;
\* without a free thread they are not resumed.
ListResume(c) ==
    /\ c \in starting
    /\ starting' = starting \ {c}
    /\ \/ queue' = [queue EXCEPT ![c].resume =
                      {a \in Allocs : alloc[a].state = "allocating"
                                      /\ alloc[a].affinity = c}]
       \/ "workers" \in Trouble /\ UNCHANGED queue
    /\ UNCHANGED <<alloc, node, up, online, thread, requests, tearing, events>>

\* _resume_allocations
ResumeNext(c, a) ==
    /\ a \in queue[c].resume
    /\ thread[<<c, "resume">>].pc = "idle"
    /\ queue' = [queue EXCEPT ![c].resume = @ \ {a}]
    /\ thread' = [thread EXCEPT ![<<c, "resume">>] = Begin(a)]
    /\ UNCHANGED <<alloc, node, up, online, starting, requests, tearing, events>>

\* Faulty: the rows of all other conductors are listed.
ListOrphansOfAnyone(c) ==
    LET found == {r \in Allocs \X (Conductors \ {c}) :
                    /\ alloc[r[1]].state = "allocating"
                    /\ alloc[r[1]].affinity = r[2]}
    IN  /\ c \in up
        /\ thread[<<c, "orphans">>].pc = "idle"
        /\ queue[c].orphans = {}
        /\ found # {}
        /\ queue' = [queue EXCEPT ![c].orphans = found]
        /\ UNCHANGED <<alloc, node, up, online, starting, thread, requests, tearing, events>>

\* The list of _check_orphan_allocations.
ListOrphans(c) ==
    LET found == {r \in Allocs \X (Conductors \ (online \cup {c})) :
                    /\ alloc[r[1]].state = "allocating"
                    /\ alloc[r[1]].affinity = r[2]}
    IN  /\ c \in up
        /\ thread[<<c, "orphans">>].pc = "idle"
        /\ queue[c].orphans = {}
        /\ found # {}
        /\ queue' = [queue EXCEPT ![c].orphans = found]
        /\ UNCHANGED <<alloc, node, up, online, starting, thread, requests, tearing, events>>

\* take_over_allocation compares the conductor, not the state.
TakeOver(c, a, old) ==
    LET wins == Exists(a) /\ alloc[a].affinity = old
    IN  /\ <<a, old>> \in queue[c].orphans
        /\ Allocates(c)
        /\ thread[<<c, "orphans">>].pc = "idle"
        /\ queue' = [queue EXCEPT ![c].orphans = @ \ {<<a, old>>}]
        /\ alloc' = IF wins THEN [alloc EXCEPT ![a].affinity = c] ELSE alloc
        /\ thread' = IF wins THEN [thread EXCEPT ![<<c, "orphans">>] = Begin(a)] ELSE thread
        /\ UNCHANGED <<node, up, online, starting, requests, tearing, events>>

\* _check_orphan_nodes removes the locks of conductors that look offline.
RemoveLock(n) ==
    /\ node[n].lock \in Conductors \ online
    /\ \E c \in up : c # node[n].lock
    /\ node' = [node EXCEPT ![n].lock = None]
    /\ UNCHANGED <<alloc, up, online, starting, thread, queue, requests, tearing, events>>
-----------------------------------------------------------------------------
ThreadStep(t) ==
    \/ ListCandidates(t)
    \/ \E n \in Nodes : TryNode(t, n)
    \/ NextAttempt(t)
    \/ TryBackfill(t)
    \/ SaveAllocation(t)
    \/ FailAllocation(t)

Requests ==
    \/ \E c \in Conductors, a \in Allocs :
         \/ CreateAllocation(c, a)
         \/ \E n \in Nodes : CreateBackfill(c, a, n)
    \/ \E a \in Allocs : RequestDestroy(a)
    \/ \E c \in Conductors, r \in requests : HandleDestroy(c, r)

NodeStep(n) ==
    \/ \E i \in Allocs \cup {Other} : SetInstance(n, i)
    \/ RemoveInstance(n)
    \/ DestroyNode(n)
    \/ SetMaintenance(n)
    \/ Deploy(n)
    \/ DeployEnds(n)
    \/ \E c \in Conductors : TearDown(c, n)
    \/ DropInstance(n)
    \/ FinishTearDown(n)
    \/ CleaningEnds(n)
    \/ RemoveLock(n)

Recovery(c) ==
    \/ ListResume(c)
    \/ \E a \in Allocs : ResumeNext(c, a)
    \/ ListOrphans(c)
    \/ \E a \in Allocs, old \in Conductors : TakeOver(c, a, old)

ConductorStep(c) ==
    \/ Crash(c)
    \/ GoOffline(c)
    \/ Beat(c)
    \/ Start(c)
    \/ Recovery(c)

Next ==
    \/ \E t \in Threads : ThreadStep(t)
    \/ Requests
    \/ \E n \in Nodes : NodeStep(n)
    \/ \E c \in Conductors : ConductorStep(c)

\* Threads run, periodic tasks come round again, and a conductor that died is
\* seen to be offline.  Neither requests nor restarts are promised.
Fairness ==
    /\ \A t \in Threads : WF_vars(ThreadStep(t))
    /\ \A c \in Conductors : WF_vars(Recovery(c)) /\ WF_vars(GoOffline(c) /\ c \notin up)
    /\ \A n \in Nodes : WF_vars(RemoveLock(n))

Spec == Init /\ [][Next]_vars
FairSpec == Spec /\ Fairness
-----------------------------------------------------------------------------
(* Properties. *)

TypeOK ==
    /\ alloc \in [Allocs ->
         [state : {"new", "allocating", "active", "error", "gone"},
          node : Nodes \cup {None}, affinity : Conductors \cup {None}]]
    /\ node \in [Nodes ->
         [prov : {"available", "deploying", "deploy failed", "active",
                  "deleting", "error", "cleaning", "gone"},
          instance : Allocs \cup {None, Other},
          allocation : Allocs \cup {None},
          maintenance : BOOLEAN,
          lock : Conductors \cup {None}]]
    /\ up \subseteq Conductors /\ online \subseteq Conductors
    /\ starting \subseteq up
    /\ thread \in [Threads ->
         [pc : {"idle", "list", "try", "backfill", "locked", "failed"},
          on : Allocs \cup {None}, todo : SUBSET Nodes, retry : SUBSET Nodes,
          attempt : 0 .. MaxAttempts, node : Nodes \cup {None}, fill : BOOLEAN]]
    /\ queue \in [Conductors -> [resume : SUBSET Allocs,
                                 orphans : SUBSET (Allocs \X Conductors)]]
    /\ requests \subseteq Allocs \X (Nodes \cup {None})
    /\ tearing \in [Nodes -> [pc : {"no", "driver", "saved"},
                              by : Conductors \cup {None},
                              alloc : Allocs \cup {None}]]
    /\ events \in 0 .. MaxEvents

\* update_allocation writes the row and the node in one transaction, so that
\* they name each other: an active allocation is the one of its node, and a
\* node only names an allocation that is active and names the node.
LinksAgree ==
    \A a \in Allocs, n \in Nodes :
        node[n].allocation = a <=> alloc[a].state = "active" /\ alloc[a].node = n

\* A row is processed by one thread at a time, however it got there: with the
\* request, on the restart of its conductor, or taken over from it.
OneThreadPerAllocation ==
    \A s, t \in Threads :
        thread[s].pc # "idle" /\ thread[s].on = thread[t].on => s = t

\* No node is given away under the instance it has: its instance_uuid
\* never turns from one into another, whoever saves it.
NeverGivenAway ==
    [][\A n \in Nodes :
         node[n].instance # None => node'[n].instance \in {node[n].instance, None}]_vars

\* A node in use outside maintenance loses the instance of an allocation to a
\* tear down and to nothing else (verify_node_for_deallocation and the check
\* of update_node).
InUseIsKept ==
    [][\A n \in Nodes :
         /\ node[n].prov = "active" /\ ~ node[n].maintenance
         /\ node[n].allocation # None
         => node'[n].instance = node[n].instance
            /\ node'[n].allocation = node[n].allocation]_vars

\* The outcome of an allocation is final: a row in ERROR is never matched and
\* an active one never fails.
OutcomeIsFinal ==
    [][\A a \in Allocs :
         /\ alloc[a].state = "error" => alloc'[a].state \in {"error", "gone"}
         /\ alloc[a].state = "active" => alloc'[a].state \in {"active", "gone"}]_vars

\* Every allocation is processed in the end, though its conductor dies, as
\* long as some conductor is left.
AllocationsEnd ==
    <>[](up # {}) =>
        \A a \in Allocs : alloc[a].state = "allocating" ~> alloc[a].state # "allocating"
-----------------------------------------------------------------------------
(* Allocations as clients know them, see Matching. *)

Status(a) ==
    CASE alloc[a].state = "allocating" -> "requested"
      [] alloc[a].state = "active" -> "granted"
      [] alloc[a].state = "error" -> "failed"
      [] OTHER -> alloc[a].state

Abstract == INSTANCE Matching WITH
    status <- [a \in Allocs |-> Status(a)],
    owner <- [n \in Nodes |-> node[n].allocation]

\* The conductors together behave as one matchmaker that grants a free node
\* or fails, once, and takes a node back only with the allocation.
ImplementsMatching == Abstract!Spec
=============================================================================

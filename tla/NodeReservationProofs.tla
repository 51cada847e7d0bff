----------------------- MODULE NodeReservationProofs -----------------------
(***************************************************************************)
(* What NodeReservation guarantees for any number of conductors, nodes and *)
(* tasks, and for any host names.                                          *)
(***************************************************************************)
EXTENDS NodeReservation, TLAPS

\* No task starts to believe that it has its node to itself, and "by", which
\* gives its lock up in this step, does not believe it any more.
NoNewHolder(by) ==
    \A u \in Tasks : Exclusive(u)' => u # by /\ Exclusive(u)

\* A step that leaves reservations alone and makes no new holder.
LEMMA KeepLocks ==
    ASSUME LockHeld, MutualExclusion, UNCHANGED lockVars,
           \A u \in Tasks : Exclusive(u)' => Exclusive(u)
    PROVE  LockHeld' /\ MutualExclusion'
BY DEF LockHeld, MutualExclusion, lockVars, Tag

\* Erase counts every holder it robs as evicted.
LEMMA EraseLocks ==
    ASSUME TypeOK, LockHeld, MutualExclusion,
           NEW N, NEW by, Erase(N, by), NoNewHolder(by)
    PROVE  LockHeld' /\ MutualExclusion'
<1>1. \A u \in Tasks : Exclusive(u)' /\ u \notin evicted'
                         => Exclusive(u) /\ u \notin evicted /\ NodeOf[u] \notin N
  BY DEF Erase, NoNewHolder
<1>2. LockHeld'
  <2> SUFFICES ASSUME NEW u \in Tasks, Exclusive(u)', u \notin evicted'
               PROVE  reservation'[NodeOf[u]] = Tag(u)
    BY DEF LockHeld, Tag
  <2>1. NodeOf[u] \in Nodes /\ NodeOf[u] \notin N
    BY <1>1, ConstantsAssumption
  <2>2. reservation'[NodeOf[u]] = reservation[NodeOf[u]]
    BY <2>1 DEF Erase
  <2> QED
    BY <1>1, <2>2 DEF LockHeld
<1>3. MutualExclusion'
  BY <1>1 DEF MutualExclusion
<1> QED
  BY <1>2, <1>3

----------------------------------------------------------------------------
(* Types *)

LEMMA EraseType ==
    ASSUME TypeOK, NEW N, NEW by, Erase(N, by)
    PROVE  /\ reservation' \in [Nodes -> Names \cup {None}]
           /\ evicted' \subseteq Tasks
           /\ stranded' \subseteq Nodes
BY DEF TypeOK, Erase

LEMMA ReleaseType ==
    ASSUME TypeOK, NEW t \in Tasks, ReleaseResources(t)
    PROVE  /\ reservation' \in [Nodes -> Names \cup {None}]
           /\ evicted' \subseteq Tasks
           /\ stranded' \subseteq Nodes
<1>1. CASE ReleaseNode(t)
  BY <1>1, EraseType DEF ReleaseNode
<1>2. CASE UNCHANGED lockVars
  BY <1>2 DEF lockVars, TypeOK
<1> QED
  BY <1>1, <1>2 DEF ReleaseResources

LEMMA LockFailedType ==
    ASSUME TypeOK, NEW t \in Tasks, LockFailed(t), UNCHANGED hostVars
    PROVE  TypeOK'
<1>1. CASE ReleaseResources(t) /\ Finish(t)
  BY <1>1, ReleaseType DEF TypeOK, Finish, hostVars
<1>2. CASE UNCHANGED <<lockVars, shared, bound, spawned>>
  BY <1>2 DEF LockFailed, TypeOK, Finish, lockVars, hostVars
<1> QED
  BY <1>1, <1>2 DEF LockFailed

LEMMA TypeStep ==
    ASSUME TypeOK, [Next]_vars
    PROVE  TypeOK'
<1> USE ConstantsAssumption
<1>1. ASSUME NEW t \in Tasks, BeginShared(t) \/ BeginExclusive(t) \/ UpgradeLock(t)
      PROVE  TypeOK'
  BY <1>1 DEF TypeOK, BeginShared, BeginExclusive, UpgradeLock, lockVars, hostVars
<1>2. ASSUME NEW t \in Tasks, ReserveRead(t)
      PROVE  TypeOK'
  <2>1. CASE LockFailed(t)
    BY <1>2, <2>1, LockFailedType DEF ReserveRead
  <2>2. CASE ~LockFailed(t)
    BY <1>2, <2>2 DEF ReserveRead, TypeOK, lockVars, hostVars
  <2> QED
    BY <2>1, <2>2
<1>3. ASSUME NEW t \in Tasks, PlaceLock(t)
      PROVE  TypeOK'
  <2>1. CASE LockFailed(t)
    BY <1>3, <2>1, LockFailedType DEF PlaceLock
  <2>2. CASE ~LockFailed(t)
    <3>1. Tag(t) \in Names
      BY DEF Tag
    <3>2. reservation' \in [Nodes -> Names \cup {None}]
      BY <1>3, <2>2, <3>1 DEF PlaceLock, TypeOK
    <3>3. Acquired(t) \/ AnswerLost(t)
      BY <1>3, <2>2 DEF PlaceLock
    <3>4. /\ pc' \in [Tasks -> {"idle", "locking", "placing", "running"}]
          /\ bound' \in [Tasks -> BOOLEAN]
          /\ shared' \in [Tasks -> BOOLEAN]
          /\ spawned' \in [Tasks -> BOOLEAN]
      BY <3>3 DEF TypeOK, Acquired, AnswerLost, Finish
    <3>5. evicted' \subseteq Tasks /\ stranded' \subseteq Nodes
      BY <3>3 DEF TypeOK, Acquired, AnswerLost
    <3> QED
      BY <1>3, <3>2, <3>4, <3>5 DEF PlaceLock, TypeOK, hostVars
  <2> QED
    BY <2>1, <2>2
<1>4. ASSUME NEW t \in Tasks, DowngradeLock(t)
      PROVE  TypeOK'
  BY <1>4, EraseType DEF DowngradeLock, ReleaseNode, TypeOK, hostVars
<1>5. ASSUME NEW t \in Tasks, Spawn(t)
      PROVE  TypeOK'
  BY <1>5 DEF Spawn, TypeOK, hostVars, lockVars
<1>6. ASSUME NEW t \in Tasks, ReleaseAndNotify(t)
      PROVE  TypeOK'
  BY <1>6, ReleaseType DEF ReleaseAndNotify, TypeOK, hostVars
<1>7. ASSUME NEW t \in Tasks, Exit(t)
      PROVE  TypeOK'
  <2>1. /\ reservation' \in [Nodes -> Names \cup {None}]
        /\ evicted' \subseteq Tasks
        /\ stranded' \subseteq Nodes
    BY <1>7, ReleaseType DEF Exit, ReleaseFails, TypeOK
  <2> QED
    BY <1>7, <2>1 DEF Exit, Finish, TypeOK, hostVars
<1>8. ASSUME NEW c \in Conductors, Crash(c) \/ Terminate(c)
      PROVE  TypeOK'
  <2>1. Die(c)
    BY <1>8 DEF Crash, Terminate
  <2>2. /\ shared' \in [Tasks -> BOOLEAN]
        /\ bound' \in [Tasks -> BOOLEAN]
        /\ spawned' \in [Tasks -> BOOLEAN]
    BY <2>1, Zenon DEF Die
  <2>3. pc' \in [Tasks -> {"idle", "locking", "placing", "running"}]
    BY <2>1 DEF Die, TypeOK
  <2> QED
    BY <2>1, <2>2, <2>3 DEF Die, TypeOK
<1>9. ASSUME NEW c \in Conductors, PrepareHost(c)
      PROVE  TypeOK'
  BY <1>9, EraseType DEF PrepareHost, ClearReservations, TypeOK, taskVars
<1>10. ASSUME NEW c \in Conductors,
              InitHost(c) \/ Touch(c) \/ Expire(c) \/ Stop(c)
       PROVE  TypeOK'
  <2>1. CASE InitHost(c)
    BY <2>1 DEF InitHost, TypeOK, lockVars, taskVars
  <2>2. CASE Touch(c)
    BY <2>2 DEF Touch, TypeOK, lockVars, taskVars
  <2>3. CASE Expire(c)
    BY <2>3 DEF Expire, TypeOK, lockVars, taskVars
  <2>4. CASE Stop(c)
    BY <2>4 DEF Stop, TypeOK, lockVars, taskVars
  <2> QED
    BY <1>10, <2>1, <2>2, <2>3, <2>4
<1>11. ASSUME NEW d \in Conductors, CheckOrphanNodes(d)
       PROVE  TypeOK'
  <2>1. PICK N \in SUBSET Nodes :
            /\ \A n \in N : reservation[n] \in Names
            /\ scan' = [scan EXCEPT ![d] = {<<n, reservation[n]>> : n \in N}]
    <3> DEFINE offline ==
                 {SelfHost[c] : c \in {x \in Conductors : record[x] = "stale"}}
                   \ {SelfHost[d]}
    <3>1. offline \subseteq Names
      OBVIOUS
    <3> HIDE DEF offline
    <3>2. PICK N \in SUBSET {n \in Nodes : reservation[n] \in offline} :
             scan' = [scan EXCEPT ![d] = {<<n, reservation[n]>> : n \in N}]
      BY <1>11 DEF CheckOrphanNodes, offline
    <3> QED
      BY <3>1, <3>2
  <2>2. {<<n, reservation[n]>> : n \in N} \in SUBSET (Nodes \X Names)
    BY <2>1
  <2>3. scan' \in [Conductors -> SUBSET (Nodes \X Names)]
    BY <2>1, <2>2 DEF TypeOK
  <2> QED
    BY <1>11, <2>3 DEF CheckOrphanNodes, TypeOK, lockVars, taskVars
<1>12. ASSUME NEW d \in Conductors, NEW row \in scan[d], ReleaseOrphan(d, row)
       PROVE  TypeOK'
  BY <1>12, EraseType DEF ReleaseOrphan, TypeOK, taskVars
<1>13. ASSUME NEW d \in Conductors, PickStaleConductors(d)
       PROVE  TypeOK'
  <2>1. PICK C \in SUBSET Conductors :
            doomed' = [doomed EXCEPT ![d] = {SelfHost[c] : c \in C}]
    BY <1>13 DEF PickStaleConductors
  <2>2. {SelfHost[c] : c \in C} \in SUBSET Names
    BY <2>1
  <2>3. doomed' \in [Conductors -> SUBSET Names]
    BY <2>1, <2>2 DEF TypeOK
  <2> QED
    BY <1>13, <2>3 DEF PickStaleConductors, TypeOK, lockVars, taskVars
<1>14. ASSUME NEW d \in Conductors, NEW name \in doomed[d], DeleteConductor(d, name)
       PROVE  TypeOK'
  <2>1. CASE ClearReservations(name)
    BY <1>14, <2>1, EraseType DEF DeleteConductor, ClearReservations, TypeOK, taskVars
  <2>2. CASE ~ClearReservations(name)
    BY <1>14, <2>2 DEF DeleteConductor, TypeOK, lockVars, taskVars
  <2> QED
    BY <2>1, <2>2
<1>15. CASE UNCHANGED vars
  BY <1>15 DEF TypeOK, vars, lockVars, hostVars, taskVars
<1> QED
  BY <1>1, <1>2, <1>3, <1>4, <1>5, <1>6, <1>7, <1>8, <1>9, <1>10, <1>11,
     <1>12, <1>13, <1>14, <1>15
  DEF Next, TaskStep, HostStep, PeriodicStep

\* Every reachable state is well typed; the tag of a reservation is always the
\* name of a host (task_manager.TaskManager._lock).
THEOREM TypeCorrect == Spec => []TypeOK
<1>1. Init => TypeOK
  BY DEF Init, TypeOK
<1>2. TypeOK /\ [Next]_vars => TypeOK'
  BY TypeStep
<1> QED
  BY <1>1, <1>2, PTL DEF Spec

----------------------------------------------------------------------------
(* Mutual exclusion *)

LEMMA ReleaseLocks ==
    ASSUME TypeOK, LockHeld, MutualExclusion,
           NEW t \in Tasks, ReleaseResources(t), NoNewHolder(t)
    PROVE  LockHeld' /\ MutualExclusion'
<1>1. CASE ReleaseNode(t)
  BY <1>1, EraseLocks DEF ReleaseNode
<1>2. CASE UNCHANGED lockVars
  BY <1>2, KeepLocks DEF NoNewHolder
<1> QED
  BY <1>1, <1>2 DEF ReleaseResources

\* Whatever became of an attempt to lock, its task does not hold the node.
LEMMA LockFailedLocks ==
    ASSUME TypeOK, LockHeld, MutualExclusion,
           NEW t \in Tasks, pc[t] # "running", LockFailed(t)
    PROVE  LockHeld' /\ MutualExclusion'
<1>1. NoNewHolder(t)
  BY DEF NoNewHolder, LockFailed, Finish, Exclusive, TypeOK
<1>2. CASE ReleaseResources(t)
  BY <1>1, <1>2, ReleaseLocks
<1>3. CASE UNCHANGED lockVars
  BY <1>1, <1>3, KeepLocks DEF NoNewHolder
<1> QED
  BY <1>2, <1>3 DEF LockFailed

\* A lock that stays behind is not the lock of anybody.
LEMMA ReleaseFailsLocks ==
    ASSUME TypeOK, LockHeld, MutualExclusion,
           NEW t \in Tasks, ReleaseFails(t), NoNewHolder(t)
    PROVE  LockHeld' /\ MutualExclusion'
BY DEF ReleaseFails, NoNewHolder, LockHeld, MutualExclusion, Tag

LEMMA PlaceLockLocks ==
    ASSUME TypeOK, LockHeld, MutualExclusion, NEW t \in Tasks, PlaceLock(t)
    PROVE  LockHeld' /\ MutualExclusion'
<1> USE ConstantsAssumption
<1>1. CASE LockFailed(t)
  BY <1>1, LockFailedLocks DEF PlaceLock
<1>2. CASE ~LockFailed(t)
  <2>1. /\ reservation[NodeOf[t]] = None
        /\ reservation' = [reservation EXCEPT ![NodeOf[t]] = Tag(t)]
        /\ evicted' = evicted
        /\ Acquired(t) \/ AnswerLost(t)
    BY <1>2 DEF PlaceLock, Acquired, AnswerLost
  <2>2. \A u \in Tasks : Exclusive(u)' => u = t \/ Exclusive(u)
    BY <2>1 DEF Acquired, AnswerLost, Finish, Exclusive, TypeOK
  <2>3. \A u \in Tasks : Exclusive(u) /\ NodeOf[u] = NodeOf[t] => u \in evicted
    BY <2>1 DEF LockHeld, Tag
  <2>4. LockHeld'
    <3> SUFFICES ASSUME NEW u \in Tasks, Exclusive(u)', u \notin evicted
                 PROVE  reservation'[NodeOf[u]] = Tag(u)
      BY <2>1 DEF LockHeld, Tag
    <3>1. CASE u = t
      BY <2>1, <3>1 DEF TypeOK
    <3>2. CASE u # t
      BY <2>1, <2>2, <2>3, <3>2 DEF LockHeld, TypeOK
    <3> QED
      BY <3>1, <3>2
  <2>5. MutualExclusion'
    BY <2>1, <2>2, <2>3 DEF MutualExclusion
  <2> QED
    BY <2>4, <2>5
<1> QED
  BY <1>1, <1>2

LEMMA LockStep ==
    ASSUME TypeOK, LockHeld, MutualExclusion, [Next]_vars
    PROVE  LockHeld' /\ MutualExclusion'
<1>1. ASSUME NEW t \in Tasks,
             BeginShared(t) \/ BeginExclusive(t) \/ UpgradeLock(t) \/ Spawn(t)
      PROVE  LockHeld' /\ MutualExclusion'
  <2>1. UNCHANGED lockVars
    BY <1>1 DEF BeginShared, BeginExclusive, UpgradeLock, Spawn
  <2>2. \A u \in Tasks : Exclusive(u)' => Exclusive(u)
    BY <1>1 DEF BeginShared, BeginExclusive, UpgradeLock, Spawn, Exclusive, TypeOK
  <2> QED
    BY <2>1, <2>2, KeepLocks
<1>2. ASSUME NEW t \in Tasks, ReserveRead(t)
      PROVE  LockHeld' /\ MutualExclusion'
  <2>1. CASE LockFailed(t)
    BY <1>2, <2>1, LockFailedLocks DEF ReserveRead
  <2>2. CASE ~LockFailed(t)
    <3>1. UNCHANGED lockVars
      BY <1>2, <2>2 DEF ReserveRead
    <3>2. \A u \in Tasks : Exclusive(u)' => Exclusive(u)
      BY <1>2, <2>2 DEF ReserveRead, Exclusive, TypeOK
    <3> QED
      BY <3>1, <3>2, KeepLocks
  <2> QED
    BY <2>1, <2>2
<1>3. ASSUME NEW t \in Tasks, PlaceLock(t)
      PROVE  LockHeld' /\ MutualExclusion'
  BY <1>3, PlaceLockLocks
<1>4. ASSUME NEW t \in Tasks,
             DowngradeLock(t) \/ ReleaseAndNotify(t) \/ Exit(t)
      PROVE  LockHeld' /\ MutualExclusion'
  <2>1. NoNewHolder(t)
    BY <1>4 DEF DowngradeLock, ReleaseAndNotify, Exit, Finish, NoNewHolder,
                Exclusive, TypeOK
  <2>2. ReleaseNode(t) \/ ReleaseResources(t) \/ ReleaseFails(t)
    BY <1>4 DEF DowngradeLock, ReleaseAndNotify, Exit
  <2>3. CASE ReleaseNode(t)
    BY <2>1, <2>3, EraseLocks DEF ReleaseNode
  <2>4. CASE ReleaseResources(t)
    BY <2>1, <2>4, ReleaseLocks
  <2> QED
    BY <2>1, <2>2, <2>3, <2>4, ReleaseFailsLocks
<1>5. ASSUME NEW c \in Conductors, Crash(c) \/ Terminate(c)
      PROVE  LockHeld' /\ MutualExclusion'
  <2>1. /\ reservation' = reservation
        /\ evicted' = {t \in evicted : Host[t] # c}
    BY <1>5 DEF Crash, Terminate, Die
  <2>2. \A u \in Tasks : Exclusive(u)' => Exclusive(u) /\ Host[u] # c
    BY <1>5 DEF Crash, Terminate, Die, Exclusive, TypeOK
  <2> QED
    BY <2>1, <2>2 DEF LockHeld, MutualExclusion, Tag
<1>6. ASSUME NEW c \in Conductors, PrepareHost(c)
      PROVE  LockHeld' /\ MutualExclusion'
  <2>1. NoNewHolder(None)
    BY <1>6, ConstantsAssumption DEF PrepareHost, taskVars, NoNewHolder, Exclusive
  <2> QED
    BY <1>6, <2>1, EraseLocks DEF PrepareHost, ClearReservations
<1>7. ASSUME UNCHANGED <<lockVars, taskVars>>
      PROVE  LockHeld' /\ MutualExclusion'
  BY <1>7, KeepLocks DEF taskVars, Exclusive
<1>8. ASSUME NEW d \in Conductors, NEW row \in scan[d], ReleaseOrphan(d, row)
      PROVE  LockHeld' /\ MutualExclusion'
  <2>1. NoNewHolder(None)
    BY <1>8, ConstantsAssumption DEF ReleaseOrphan, taskVars, NoNewHolder, Exclusive
  <2> QED
    BY <1>8, <2>1, EraseLocks DEF ReleaseOrphan
<1>9. ASSUME NEW d \in Conductors, NEW name \in doomed[d], DeleteConductor(d, name)
      PROVE  LockHeld' /\ MutualExclusion'
  <2>1. NoNewHolder(None)
    BY <1>9, ConstantsAssumption DEF DeleteConductor, taskVars, NoNewHolder, Exclusive
  <2>2. CASE ClearReservations(name)
    BY <2>1, <2>2, EraseLocks DEF ClearReservations
  <2>3. CASE UNCHANGED lockVars
    BY <1>7, <1>9, <2>3 DEF DeleteConductor
  <2> QED
    BY <1>9, <2>2, <2>3 DEF DeleteConductor
<1>10. ASSUME NEW c \in Conductors,
              \/ InitHost(c) \/ Touch(c) \/ Expire(c) \/ Stop(c)
              \/ CheckOrphanNodes(c) \/ PickStaleConductors(c)
       PROVE  LockHeld' /\ MutualExclusion'
  <2>1. UNCHANGED <<lockVars, taskVars>>
    BY <1>10 DEF InitHost, Touch, Expire, Stop, CheckOrphanNodes, PickStaleConductors
  <2> QED
    BY <1>7, <2>1
<1>11. CASE UNCHANGED vars
  BY <1>7, <1>11 DEF vars
<1> QED
  BY <1>1, <1>2, <1>3, <1>4, <1>5, <1>6, <1>8, <1>9, <1>10, <1>11
  DEF Next, TaskStep, HostStep, PeriodicStep

\* However many threads, conductors, restarts and forced releases: a task whose
\* lock nobody has broken is the one its node's reservation stands for, and it
\* is the only one (TaskManager; dbapi.reserve_node and release_node).
THEOREM Locking == Spec => [](LockHeld /\ MutualExclusion)
<1>1. Init => LockHeld /\ MutualExclusion
  BY DEF Init, LockHeld, MutualExclusion, Exclusive
<1>2. TypeOK /\ LockHeld /\ MutualExclusion /\ [Next]_vars
        => LockHeld' /\ MutualExclusion'
  BY LockStep
<1> QED
  BY <1>1, <1>2, TypeCorrect, PTL DEF Spec

\* Two threads believe that they have a node to themselves only when the lock
\* of one of them has been broken from outside (dbapi.reserve_node).
THEOREM OneHolder == Spec => []MutualExclusion
BY Locking, PTL

----------------------------------------------------------------------------
(* Who can be robbed *)

\* The names of the hosts as they are deployed by default: json-rpc on its
\* standard port, names that differ, and that match only themselves.
PlainNames ==
    /\ ConfHost = SelfHost
    /\ \A c, d \in Conductors : ConfHost[c] = ConfHost[d] => c = d
    /\ \A x \in Names : ILike[x] = {x}

\* "name" is the name of a conductor that has lapsed.
LapsedName(name) == \E c \in lapsed : SelfHost[c] = name

\* What a periodic task has read and will still act on names a conductor that
\* lapsed.
StaleKnown ==
    /\ \A c \in Conductors : record[c] = "stale" => c \in lapsed
    /\ \A d \in Conductors :
          /\ \A row \in scan[d] : LapsedName(row[2])
          /\ \A name \in doomed[d] : LapsedName(name)

\* A process that is down has no tasks, and a task that still waits for its
\* first lock has nothing to release.
TaskDiscipline ==
    \A t \in Tasks :
       /\ phase[Host[t]] = "down" => pc[t] = "idle"
       /\ pc[t] = "idle" => ~shared[t] /\ ~bound[t]
       /\ pc[t] # "running" => shared[t] \/ ~bound[t]

EvictedBelieve == \A t \in evicted : Exclusive(t)

LEMMA StaleStep ==
    ASSUME TypeOK, StaleKnown, [Next]_vars
    PROVE  StaleKnown'
<1> USE ConstantsAssumption DEF StaleKnown, LapsedName
<1>1. ASSUME UNCHANGED hostVars
      PROVE  StaleKnown'
  BY <1>1 DEF hostVars
<1>2. ASSUME NEW t \in Tasks, BeginShared(t) \/ BeginExclusive(t) \/ TaskStep(t)
      PROVE  StaleKnown'
  <2>1. UNCHANGED hostVars
    BY <1>2 DEF BeginShared, BeginExclusive, TaskStep, UpgradeLock, ReserveRead,
       PlaceLock, DowngradeLock, Spawn, ReleaseAndNotify, Exit, hostVars
  <2> QED
    BY <1>1, <2>1
<1>3. ASSUME NEW c \in Conductors, Crash(c) \/ Terminate(c)
      PROVE  StaleKnown'
  <2>1. /\ scan' = [scan EXCEPT ![c] = {}]
        /\ doomed' = [doomed EXCEPT ![c] = {}]
        /\ UNCHANGED <<record, lapsed>>
    BY <1>3 DEF Crash, Terminate, Die
  <2> QED
    BY <2>1 DEF TypeOK
<1>4. ASSUME NEW c \in Conductors, PrepareHost(c)
      PROVE  StaleKnown'
  BY <1>4 DEF PrepareHost
<1>5. ASSUME NEW c \in Conductors, InitHost(c) \/ Touch(c)
      PROVE  StaleKnown'
  BY <1>5 DEF InitHost, Touch, TypeOK
<1>6. ASSUME NEW c \in Conductors, Expire(c)
      PROVE  StaleKnown'
  BY <1>6 DEF Expire, TypeOK
<1>7. ASSUME NEW c \in Conductors, Stop(c)
      PROVE  StaleKnown'
  BY <1>7 DEF Stop, TypeOK
<1>8. ASSUME NEW d \in Conductors, CheckOrphanNodes(d)
      PROVE  StaleKnown'
  <2> DEFINE offline ==
               {SelfHost[c] : c \in {x \in Conductors : record[x] = "stale"}}
                 \ {SelfHost[d]}
  <2>1. \A name \in offline : LapsedName(name)
    OBVIOUS
  <2> HIDE DEF offline
  <2>2. PICK N \in SUBSET {n \in Nodes : reservation[n] \in offline} :
           scan' = [scan EXCEPT ![d] = {<<n, reservation[n]>> : n \in N}]
    BY <1>8 DEF CheckOrphanNodes, offline
  <2>3. \A row \in scan'[d] : row[2] \in offline
    BY <2>2 DEF TypeOK
  <2>4. \A e \in Conductors : e # d => scan'[e] = scan[e]
    BY <2>2 DEF TypeOK
  <2>5. UNCHANGED <<record, doomed, lapsed>>
    BY <1>8 DEF CheckOrphanNodes
  <2> QED
    BY <2>1, <2>3, <2>4, <2>5
<1>9. ASSUME NEW d \in Conductors, NEW row \in scan[d], ReleaseOrphan(d, row)
      PROVE  StaleKnown'
  BY <1>9 DEF ReleaseOrphan, TypeOK
<1>10. ASSUME NEW d \in Conductors, PickStaleConductors(d)
       PROVE  StaleKnown'
  BY <1>10 DEF PickStaleConductors, TypeOK
<1>11. ASSUME NEW d \in Conductors, NEW name \in doomed[d], DeleteConductor(d, name)
       PROVE  StaleKnown'
  BY <1>11 DEF DeleteConductor, TypeOK
<1>12. CASE UNCHANGED vars
  BY <1>1, <1>12 DEF vars
<1> QED
  BY <1>2, <1>3, <1>4, <1>5, <1>6, <1>7, <1>8, <1>9, <1>10, <1>11, <1>12
  DEF Next, HostStep, PeriodicStep

LEMMA DisciplineStep ==
    ASSUME TypeOK, TaskDiscipline, [Next]_vars
    PROVE  TaskDiscipline'
<1> USE ConstantsAssumption DEF TaskDiscipline
<1>1. ASSUME NEW t \in Tasks, BeginShared(t) \/ BeginExclusive(t)
      PROVE  TaskDiscipline'
  BY <1>1 DEF BeginShared, BeginExclusive, Serving, TypeOK, hostVars
<1>2. ASSUME NEW t \in Tasks, LockFailed(t), UNCHANGED hostVars,
             pc[t] \in {"locking", "placing"}
      PROVE  TaskDiscipline'
  <2>1. CASE /\ pc' = [pc EXCEPT ![t] = "locking"]
             /\ UNCHANGED <<lockVars, shared, bound, spawned>>
    BY <1>2, <2>1 DEF TypeOK, hostVars
  <2>2. CASE /\ shared[t]
             /\ pc' = [pc EXCEPT ![t] = "running"]
             /\ UNCHANGED <<lockVars, shared, bound, spawned>>
    BY <1>2, <2>2 DEF TypeOK, hostVars
  <2>3. CASE Finish(t)
    BY <1>2, <2>3 DEF Finish, TypeOK, hostVars
  <2> QED
    BY <1>2, <2>1, <2>2, <2>3 DEF LockFailed
<1>3. ASSUME NEW t \in Tasks, ReserveRead(t) \/ PlaceLock(t)
      PROVE  TaskDiscipline'
  <2>1. CASE LockFailed(t)
    BY <1>2, <1>3, <2>1 DEF ReserveRead, PlaceLock
  <2>2. CASE ReserveRead(t) /\ ~LockFailed(t)
    BY <2>2 DEF ReserveRead, TypeOK, hostVars
  <2>3. CASE PlaceLock(t) /\ ~LockFailed(t)
    <3>1. (Acquired(t) \/ AnswerLost(t)) /\ pc[t] = "placing" /\ UNCHANGED hostVars
      BY <2>3 DEF PlaceLock
    <3>2. CASE Acquired(t)
      BY <3>1, <3>2 DEF Acquired, TypeOK, hostVars
    <3>3. CASE AnswerLost(t) /\ ~Finish(t)
      BY <3>1, <3>3 DEF AnswerLost, TypeOK, hostVars
    <3>4. CASE Finish(t)
      BY <3>1, <3>4 DEF Finish, TypeOK, hostVars
    <3> QED
      BY <3>1, <3>2, <3>3, <3>4
  <2> QED
    BY <1>3, <2>1, <2>2, <2>3
<1>4. ASSUME NEW t \in Tasks,
             \/ UpgradeLock(t) \/ DowngradeLock(t) \/ Spawn(t)
             \/ ReleaseAndNotify(t) \/ Exit(t)
      PROVE  TaskDiscipline'
  <2>1. CASE UpgradeLock(t) \/ Spawn(t)
    BY <2>1 DEF UpgradeLock, Spawn, TypeOK, hostVars
  <2>2. CASE DowngradeLock(t) \/ ReleaseAndNotify(t)
    BY <2>2 DEF DowngradeLock, ReleaseAndNotify, Exclusive, TypeOK, hostVars
  <2>3. CASE Exit(t)
    BY <2>3 DEF Exit, Finish, TypeOK, hostVars
  <2> QED
    BY <1>4, <2>1, <2>2, <2>3
<1>5. ASSUME NEW c \in Conductors, Crash(c) \/ Terminate(c)
      PROVE  TaskDiscipline'
  <2>1. Die(c)
    BY <1>5 DEF Crash, Terminate
  <2>2. \A t \in Tasks : Host[t] = c => pc'[t] = "idle" /\ ~shared'[t] /\ ~bound'[t]
    BY <2>1, Zenon DEF Die
  <2>3. \A t \in Tasks : Host[t] # c => /\ pc'[t] = pc[t]
                                        /\ shared'[t] <=> shared[t]
                                        /\ bound'[t] <=> bound[t]
    BY <2>1, Zenon DEF Die
  <2>4. \A t \in Tasks : Host[t] # c => phase'[Host[t]] = phase[Host[t]]
    BY <2>1 DEF Die, TypeOK
  <2> QED
    BY <2>2, <2>3, <2>4
<1>6. ASSUME UNCHANGED taskVars, \A c \in Conductors : phase'[c] = "down" => phase[c] = "down"
      PROVE  TaskDiscipline'
  BY <1>6 DEF taskVars
<1>7. ASSUME NEW c \in Conductors,
             \/ PrepareHost(c) \/ InitHost(c) \/ Touch(c) \/ Expire(c) \/ Stop(c)
             \/ PeriodicStep(c)
      PROVE  TaskDiscipline'
  <2>1. CASE PeriodicStep(c)
    <3>1. UNCHANGED <<phase, taskVars>>
      BY <2>1 DEF PeriodicStep, CheckOrphanNodes, ReleaseOrphan,
                  PickStaleConductors, DeleteConductor
    <3> QED
      BY <1>6, <3>1
  <2>2. CASE Touch(c) \/ Expire(c)
    BY <1>6, <2>2 DEF Touch, Expire
  <2>3. CASE PrepareHost(c) \/ InitHost(c) \/ Stop(c)
    <3>1. \A d \in Conductors : phase'[d] = "down" => phase[d] = "down"
      BY <2>3 DEF PrepareHost, InitHost, Stop, TypeOK
    <3>2. UNCHANGED taskVars
      BY <2>3 DEF PrepareHost, InitHost, Stop
    <3> QED
      BY <1>6, <3>1, <3>2
  <2> QED
    BY <1>7, <2>1, <2>2, <2>3
<1>8. CASE UNCHANGED vars
  BY <1>6, <1>8 DEF vars, hostVars
<1> QED
  BY <1>1, <1>3, <1>4, <1>5, <1>7, <1>8 DEF Next, TaskStep, HostStep

----------------------------------------------------------------------------

\* A lock in use that carries the name of a conductor is a lock of its own.
LEMMA HolderOfTag ==
    ASSUME LockHeld, PlainNames, NEW u \in Tasks, Exclusive(u), u \notin evicted,
           NEW c \in Conductors, reservation[NodeOf[u]] = ConfHost[c]
    PROVE  Host[u] = c
BY ConstantsAssumption DEF LockHeld, PlainNames, Tag

LEMMA KeepLapse ==
    ASSUME EvictionNeedsLapse, EvictedBelieve, evicted' = evicted,
           lapsed \subseteq lapsed', \A u \in evicted : Exclusive(u) => Exclusive(u)'
    PROVE  EvictionNeedsLapse' /\ EvictedBelieve'
BY DEF EvictionNeedsLapse, EvictedBelieve

LEMMA EraseLapse ==
    ASSUME EvictionNeedsLapse, EvictedBelieve, NEW N, NEW by, Erase(N, by),
           lapsed' = lapsed,
           \A u \in Tasks : Exclusive(u) /\ u # by => Exclusive(u)',
           \A u \in Tasks : Exclusive(u) /\ u # by /\ u \notin evicted /\ NodeOf[u] \in N
                              => Host[u] \in lapsed,
           TypeOK
    PROVE  EvictionNeedsLapse' /\ EvictedBelieve'
<1>1. evicted' \subseteq Tasks /\ by \notin evicted'
  BY DEF Erase, TypeOK
<1>2. \A u \in evicted' : u \in evicted \/ (Exclusive(u) /\ NodeOf[u] \in N)
  BY DEF Erase
<1> QED
  BY <1>1, <1>2 DEF EvictionNeedsLapse, EvictedBelieve

\* A task that lets go in the name of its host robs another one only after it
\* has itself been robbed.
LEMMA ReleaseLapse ==
    ASSUME TypeOK, LockHeld, MutualExclusion, PlainNames,
           EvictionNeedsLapse, EvictedBelieve,
           NEW t \in Tasks, Exclusive(t), ReleaseNode(t), lapsed' = lapsed,
           \A u \in Tasks : Exclusive(u) /\ u # t => Exclusive(u)'
    PROVE  EvictionNeedsLapse' /\ EvictedBelieve'
<1> DEFINE N == {n \in {NodeOf[t]} : reservation[n] = Tag(t)}
<1>1. ASSUME NEW u \in Tasks, Exclusive(u), u # t, u \notin evicted, NodeOf[u] \in N
      PROVE  Host[u] \in lapsed
  <2>1. NodeOf[u] = NodeOf[t] /\ reservation[NodeOf[u]] = ConfHost[Host[t]]
    BY <1>1 DEF Tag
  <2>2. Host[t] \in Conductors
    BY ConstantsAssumption
  <2>3. Host[u] = Host[t]
    BY <1>1, <2>1, <2>2, HolderOfTag
  <2>4. t \in evicted
    BY <1>1, <2>1 DEF MutualExclusion
  <2> QED
    BY <2>3, <2>4 DEF EvictionNeedsLapse
<1>2. Erase(N, t)
  BY DEF ReleaseNode
<1> HIDE DEF N
<1> QED
  BY <1>1, <1>2, EraseLapse

LEMMA ClearLapse ==
    ASSUME TypeOK, LockHeld, PlainNames, EvictionNeedsLapse, EvictedBelieve,
           NEW c \in Conductors, ClearReservations(SelfHost[c]),
           c \in lapsed \/ (\A t \in Tasks : Host[t] = c => ~Exclusive(t)),
           UNCHANGED <<taskVars, lapsed>>
    PROVE  EvictionNeedsLapse' /\ EvictedBelieve'
<1> DEFINE N == {n \in Nodes : reservation[n] \in ILike[SelfHost[c]]}
<1>1. ASSUME NEW u \in Tasks, Exclusive(u), u \notin evicted, NodeOf[u] \in N
      PROVE  Host[u] \in lapsed
  <2>1. reservation[NodeOf[u]] = ConfHost[c]
    BY <1>1, ConstantsAssumption DEF PlainNames
  <2> QED
    BY <1>1, <2>1, HolderOfTag
<1>2. Erase(N, None)
  BY DEF ClearReservations
<1>3. \A u \in Tasks : Exclusive(u) => Exclusive(u)'
  BY DEF taskVars, Exclusive
<1> HIDE DEF N
<1> QED
  BY <1>1, <1>2, <1>3, EraseLapse

LEMMA LockFailedLapse ==
    ASSUME TypeOK, TaskDiscipline, EvictionNeedsLapse, EvictedBelieve,
           NEW t \in Tasks, pc[t] \in {"locking", "placing"},
           LockFailed(t), UNCHANGED hostVars
    PROVE  EvictionNeedsLapse' /\ EvictedBelieve'
<1>1. UNCHANGED lockVars
  BY DEF LockFailed, ReleaseResources, TaskDiscipline
<1>2. \A u \in evicted : u # t
  BY DEF EvictedBelieve, Exclusive
<1>3. \A u \in Tasks : Exclusive(u) /\ u # t => Exclusive(u)'
  BY DEF LockFailed, Finish, Exclusive, TypeOK
<1> QED
  BY <1>1, <1>2, <1>3, KeepLapse DEF lockVars, hostVars, TypeOK

LEMMA LapseStep ==
    ASSUME TypeOK, LockHeld, MutualExclusion, PlainNames, StaleKnown,
           TaskDiscipline, EvictionNeedsLapse, EvictedBelieve, [Next]_vars
    PROVE  EvictionNeedsLapse' /\ EvictedBelieve'
<1> USE ConstantsAssumption
<1>1. ASSUME NEW t \in Tasks,
             BeginShared(t) \/ BeginExclusive(t) \/ UpgradeLock(t) \/ Spawn(t)
      PROVE  EvictionNeedsLapse' /\ EvictedBelieve'
  <2>1. UNCHANGED <<lockVars, hostVars>>
    BY <1>1 DEF BeginShared, BeginExclusive, UpgradeLock, Spawn
  <2>2. \A u \in Tasks : Exclusive(u) => Exclusive(u)'
    BY <1>1 DEF BeginShared, BeginExclusive, UpgradeLock, Spawn, Exclusive, TypeOK
  <2> QED
    BY <2>1, <2>2, KeepLapse DEF lockVars, hostVars, TypeOK
<1>2. ASSUME NEW t \in Tasks, ReserveRead(t)
      PROVE  EvictionNeedsLapse' /\ EvictedBelieve'
  <2>1. CASE LockFailed(t)
    BY <1>2, <2>1, LockFailedLapse DEF ReserveRead
  <2>2. CASE ~LockFailed(t)
    <3>1. UNCHANGED <<lockVars, hostVars>>
      BY <1>2, <2>2 DEF ReserveRead
    <3>2. \A u \in Tasks : Exclusive(u) => Exclusive(u)'
      BY <1>2, <2>2 DEF ReserveRead, Exclusive, TypeOK
    <3> QED
      BY <3>1, <3>2, KeepLapse DEF lockVars, hostVars, TypeOK
  <2> QED
    BY <2>1, <2>2
<1>3. ASSUME NEW t \in Tasks, PlaceLock(t)
      PROVE  EvictionNeedsLapse' /\ EvictedBelieve'
  <2>1. CASE LockFailed(t)
    BY <1>3, <2>1, LockFailedLapse DEF PlaceLock
  <2>2. CASE ~LockFailed(t)
    <3>1. /\ Acquired(t) \/ AnswerLost(t)
          /\ pc[t] = "placing"
          /\ UNCHANGED hostVars
      BY <1>3, <2>2 DEF PlaceLock
    <3>2. evicted' = evicted /\ \A u \in Tasks : Exclusive(u) => Exclusive(u)'
      BY <3>1 DEF Acquired, AnswerLost, Finish, Exclusive, TypeOK
    <3> QED
      BY <3>1, <3>2, KeepLapse DEF hostVars, TypeOK
  <2> QED
    BY <2>1, <2>2
<1>4. ASSUME NEW t \in Tasks, DowngradeLock(t) \/ ReleaseAndNotify(t)
      PROVE  EvictionNeedsLapse' /\ EvictedBelieve'
  <2>1. Exclusive(t) /\ ReleaseNode(t) /\ lapsed' = lapsed
    BY <1>4 DEF DowngradeLock, ReleaseAndNotify, ReleaseResources, Exclusive, hostVars
  <2>2. \A u \in Tasks : Exclusive(u) /\ u # t => Exclusive(u)'
    BY <1>4 DEF DowngradeLock, ReleaseAndNotify, Exclusive, TypeOK
  <2> QED
    BY <2>1, <2>2, ReleaseLapse
<1>5. ASSUME NEW t \in Tasks, Exit(t)
      PROVE  EvictionNeedsLapse' /\ EvictedBelieve'
  <2>1. lapsed' = lapsed /\ (\A u \in Tasks : Exclusive(u) /\ u # t => Exclusive(u)')
    BY <1>5 DEF Exit, Finish, Exclusive, TypeOK, hostVars
  <2>2. CASE ReleaseFails(t)
    BY <2>1, <2>2 DEF ReleaseFails, EvictionNeedsLapse, EvictedBelieve, TypeOK
  <2>3. CASE Exclusive(t) /\ ReleaseResources(t)
    BY <1>5, <2>1, <2>3, ReleaseLapse DEF ReleaseResources, Exclusive
  <2>4. CASE ~Exclusive(t) /\ ReleaseResources(t)
    <3>1. UNCHANGED lockVars
      BY <1>5, <2>4 DEF Exit, ReleaseResources, Exclusive
    <3> QED
      BY <2>1, <2>4, <3>1, KeepLapse DEF lockVars, EvictedBelieve, TypeOK
  <2> QED
    BY <1>5, <2>2, <2>3, <2>4 DEF Exit
<1>6. ASSUME NEW c \in Conductors, Crash(c) \/ Terminate(c)
      PROVE  EvictionNeedsLapse' /\ EvictedBelieve'
  <2>1. lapsed' = lapsed /\ evicted' = {t \in evicted : Host[t] # c}
    BY <1>6 DEF Crash, Terminate, Die
  <2>2. \A u \in Tasks : Exclusive(u) /\ Host[u] # c => Exclusive(u)'
    BY <1>6, Zenon DEF Crash, Terminate, Die, Exclusive
  <2> QED
    BY <2>1, <2>2 DEF EvictionNeedsLapse, EvictedBelieve, TypeOK
<1>7. ASSUME NEW c \in Conductors, PrepareHost(c)
      PROVE  EvictionNeedsLapse' /\ EvictedBelieve'
  <2>1. \A t \in Tasks : Host[t] = c => ~Exclusive(t)
    BY <1>7 DEF PrepareHost, TaskDiscipline, Exclusive
  <2> QED
    BY <1>7, <2>1, ClearLapse DEF PrepareHost
<1>8. ASSUME NEW d \in Conductors, NEW row \in scan[d], ReleaseOrphan(d, row)
      PROVE  EvictionNeedsLapse' /\ EvictedBelieve'
  <2> DEFINE N == {n \in Nodes : n = row[1] /\ reservation[n] = row[2]}
  <2>1. PICK c \in lapsed : SelfHost[c] = row[2]
    BY <1>8 DEF StaleKnown, LapsedName
  <2>2. ASSUME NEW u \in Tasks, Exclusive(u), u \notin evicted, NodeOf[u] \in N
        PROVE  Host[u] \in lapsed
    <3>1. c \in Conductors
      BY <2>1 DEF TypeOK
    <3>2. reservation[NodeOf[u]] = ConfHost[c]
      BY <2>1, <2>2 DEF PlainNames
    <3> QED
      BY <2>1, <2>2, <3>1, <3>2, HolderOfTag
  <2>3. Erase(N, None) /\ lapsed' = lapsed
    BY <1>8 DEF ReleaseOrphan
  <2>4. \A u \in Tasks : Exclusive(u) => Exclusive(u)'
    BY <1>8 DEF ReleaseOrphan, taskVars, Exclusive
  <2> HIDE DEF N
  <2> QED
    BY <2>2, <2>3, <2>4, EraseLapse
<1>9. ASSUME UNCHANGED <<evicted, taskVars>>, lapsed \subseteq lapsed'
      PROVE  EvictionNeedsLapse' /\ EvictedBelieve'
  BY <1>9, KeepLapse DEF taskVars, Exclusive
<1>10. ASSUME NEW d \in Conductors, NEW name \in doomed[d], DeleteConductor(d, name)
       PROVE  EvictionNeedsLapse' /\ EvictedBelieve'
  <2>1. PICK c \in lapsed : SelfHost[c] = name
    BY <1>10 DEF StaleKnown, LapsedName
  <2>2. c \in Conductors
    BY <2>1 DEF TypeOK
  <2>3. UNCHANGED <<taskVars, lapsed>>
    BY <1>10 DEF DeleteConductor
  <2>4. CASE ClearReservations(name)
    BY <2>1, <2>2, <2>3, <2>4, ClearLapse
  <2>5. CASE UNCHANGED lockVars
    BY <1>9, <2>3, <2>5 DEF lockVars
  <2> QED
    BY <1>10, <2>4, <2>5 DEF DeleteConductor
<1>11. ASSUME NEW c \in Conductors,
              \/ InitHost(c) \/ Touch(c) \/ Expire(c) \/ Stop(c)
              \/ CheckOrphanNodes(c) \/ PickStaleConductors(c)
       PROVE  EvictionNeedsLapse' /\ EvictedBelieve'
  <2>1. UNCHANGED <<lockVars, taskVars>> /\ lapsed \subseteq lapsed'
    BY <1>11 DEF InitHost, Touch, Expire, Stop, CheckOrphanNodes, PickStaleConductors
  <2> QED
    BY <1>9, <2>1 DEF lockVars
<1>12. CASE UNCHANGED vars
  BY <1>9, <1>12 DEF vars, lockVars, hostVars
<1> QED
  BY <1>1, <1>2, <1>3, <1>4, <1>5, <1>6, <1>7, <1>8, <1>10, <1>11, <1>12
  DEF Next, TaskStep, HostStep, PeriodicStep

\* The inductive invariant behind the next theorem.
RobberyInv ==
    LockHeld /\ MutualExclusion /\ StaleKnown /\ TaskDiscipline
      /\ EvictionNeedsLapse /\ EvictedBelieve

LEMMA RobberyInvariant == PlainNames /\ Spec => []RobberyInv
<1>1. Init => RobberyInv
  BY ConstantsAssumption
  DEF Init, RobberyInv, LockHeld, MutualExclusion, StaleKnown, TaskDiscipline,
      EvictionNeedsLapse, EvictedBelieve, Exclusive
<1>2. ASSUME PlainNames PROVE TypeOK /\ RobberyInv /\ [Next]_vars => RobberyInv'
  BY <1>2, LockStep, StaleStep, DisciplineStep, LapseStep DEF RobberyInv
<1>3. ASSUME PlainNames PROVE Spec => []RobberyInv
  BY <1>1, <1>2, <1>3, TypeCorrect, PTL DEF Spec
<1> QED
  BY <1>3

\* With the default names, only the tasks of a conductor that has itself been
\* late with its heartbeat can lose a lock they are using: not by a list of
\* orphans read before a restart (_check_orphan_nodes), not by the deletion of a
\* conductor that has come back (delete_conductor), and not by another task of
\* their own host that releases by name (release_node).
THEOREM OnlyLapsedAreRobbed == PlainNames /\ Spec => []EvictionNeedsLapse
BY RobberyInvariant, PTL DEF RobberyInv

----------------------------------------------------------------------------
(* A conductor that lives keeps no lock that nobody will release *)

\* What it takes: every host has one name of its own, which, read as an ILIKE
\* pattern, matches itself.  It may match others, too.
OwnNames ==
    /\ ConfHost = SelfHost
    /\ \A c, d \in Conductors : ConfHost[c] = ConfHost[d] => c = d
    /\ \A x \in Names : x \in ILike[x]

\* Reservations only go, what is stranded stays so as long as it is reserved, and
\* no holder gives up a row that keeps its tag unless it strands it.
LEMMA KeepOwners ==
    ASSUME NoLeakedLock,
           \A c \in Conductors : phase[c] = "down" => phase'[c] = "down",
           \A n \in Nodes : reservation'[n] \in {reservation[n], None},
           \A n \in stranded : reservation'[n] = None \/ n \in stranded',
           \A t \in Tasks : Exclusive(t) /\ reservation'[NodeOf[t]] = Tag(t)
                             /\ phase'[Host[t]] # "down"
                               => Exclusive(t)' \/ NodeOf[t] \in stranded'
    PROVE  NoLeakedLock'
<1> SUFFICES ASSUME NEW c \in Conductors, NEW n \in Nodes,
                    phase'[c] # "down", reservation'[n] = ConfHost[c],
                    n \notin stranded'
             PROVE  \E u \in Tasks : Host[u] = c /\ NodeOf[u] = n /\ Exclusive(u)'
  BY DEF NoLeakedLock
<1>1. ConfHost[c] # None
  BY ConstantsAssumption
<1>2. phase[c] # "down" /\ reservation[n] = ConfHost[c] /\ n \notin stranded
  BY <1>1
<1>3. PICK u \in Tasks : Host[u] = c /\ NodeOf[u] = n /\ Exclusive(u)
  BY <1>2 DEF NoLeakedLock
<1> QED
  BY <1>3 DEF Tag

LEMMA ErasedOrKept ==
    ASSUME TypeOK, NEW N, NEW by, Erase(N, by)
    PROVE  /\ \A n \in Nodes : reservation'[n] \in {reservation[n], None}
           /\ \A n \in stranded : reservation'[n] = None \/ n \in stranded'
BY DEF Erase, TypeOK

\* Whether or not the row still carries its tag, the row does not afterwards.
LEMMA ReleasedOwner ==
    ASSUME TypeOK, NEW t \in Tasks, ReleaseNode(t)
    PROVE  /\ \A n \in Nodes : reservation'[n] \in {reservation[n], None}
           /\ \A n \in stranded : reservation'[n] = None \/ n \in stranded'
           /\ reservation'[NodeOf[t]] # Tag(t)
<1>1. Tag(t) # None /\ NodeOf[t] \in Nodes
  BY ConstantsAssumption DEF Tag
<1>2. reservation'[NodeOf[t]] # Tag(t)
  BY <1>1 DEF ReleaseNode, Erase
<1> QED
  BY <1>2, ErasedOrKept DEF ReleaseNode

LEMMA LockFailedOwner ==
    ASSUME TypeOK, TaskDiscipline, NoLeakedLock, NEW t \in Tasks,
           pc[t] \in {"locking", "placing"}, LockFailed(t), UNCHANGED hostVars
    PROVE  NoLeakedLock'
<1>1. UNCHANGED lockVars
  BY DEF LockFailed, ReleaseResources, TaskDiscipline
<1>2. \A u \in Tasks : Exclusive(u) => Exclusive(u)'
  BY DEF LockFailed, Finish, Exclusive, TypeOK
<1> QED
  BY <1>1, <1>2, KeepOwners, ConstantsAssumption DEF lockVars, hostVars

LEMMA PlaceLockOwner ==
    ASSUME TypeOK, OwnNames, TaskDiscipline, NoLeakedLock,
           NEW t \in Tasks, PlaceLock(t)
    PROVE  NoLeakedLock'
<1>1. CASE LockFailed(t)
  BY <1>1, LockFailedOwner DEF PlaceLock
<1>2. CASE ~LockFailed(t)
  <2>0. Acquired(t) \/ AnswerLost(t)
    BY <1>2 DEF PlaceLock
  <2>1. /\ reservation' = [reservation EXCEPT ![NodeOf[t]] = Tag(t)]
        /\ pc[t] = "placing"
        /\ phase' = phase
    BY <1>2 DEF PlaceLock, hostVars
  <2>4. Exclusive(t)' \/ NodeOf[t] \in stranded'
    BY <2>0 DEF Acquired, AnswerLost, Exclusive, TypeOK
  <2>5. \A u \in Tasks : Exclusive(u) => Exclusive(u)'
    BY <2>0, <2>1 DEF Acquired, AnswerLost, Finish, Exclusive, TypeOK
  <2>6. stranded \subseteq stranded'
    BY <2>0 DEF Acquired, AnswerLost
  <2> SUFFICES ASSUME NEW c \in Conductors, NEW n \in Nodes,
                      phase[c] # "down", reservation'[n] = ConfHost[c],
                      n \notin stranded'
               PROVE  \E u \in Tasks : Host[u] = c /\ NodeOf[u] = n /\ Exclusive(u)'
    BY <2>1 DEF NoLeakedLock
  <2>2. CASE n = NodeOf[t]
    <3>1. ConfHost[Host[t]] = ConfHost[c] /\ Host[t] \in Conductors
      BY <2>1, <2>2, ConstantsAssumption DEF Tag, TypeOK
    <3>2. Host[t] = c
      BY <3>1 DEF OwnNames
    <3> QED
      BY <2>2, <2>4, <3>2
  <2>3. CASE n # NodeOf[t]
    BY <2>1, <2>3, <2>5, <2>6 DEF NoLeakedLock, TypeOK
  <2> QED
    BY <2>2, <2>3
<1> QED
  BY <1>1, <1>2

LEMMA PrepareHostOwner ==
    ASSUME TypeOK, OwnNames, NoLeakedLock, NEW c \in Conductors, PrepareHost(c)
    PROVE  NoLeakedLock'
<1>1. /\ phase' = [phase EXCEPT ![c] = "prepared"]
      /\ ClearReservations(SelfHost[c])
      /\ UNCHANGED taskVars
  BY DEF PrepareHost
<1>2. \A n \in Nodes : /\ reservation'[n] \in {reservation[n], None}
                       /\ reservation'[n] # ConfHost[c]
  <2>1. ConfHost[c] # None /\ ConfHost[c] \in ILike[SelfHost[c]]
    BY ConstantsAssumption DEF OwnNames
  <2> QED
    BY <1>1, <2>1 DEF ClearReservations, Erase
<1>3. \A u \in Tasks : Exclusive(u) => Exclusive(u)'
  BY <1>1 DEF taskVars, Exclusive
<1>4. ASSUME NEW d \in Conductors, NEW n \in Nodes,
             phase'[d] # "down", reservation'[n] = ConfHost[d], n \notin stranded'
      PROVE  \E u \in Tasks : Host[u] = d /\ NodeOf[u] = n /\ Exclusive(u)'
  <2>1. d # c
    BY <1>2, <1>4
  <2>2. phase[d] # "down"
    BY <1>1, <1>4, <2>1 DEF TypeOK
  <2>3. ConfHost[d] # None
    BY ConstantsAssumption
  <2>4. reservation[n] = ConfHost[d]
    BY <1>2, <1>4, <2>3
  <2>5. n \notin stranded
    BY <1>1, <1>4, <2>3, ErasedOrKept DEF ClearReservations
  <2> QED
    BY <1>3, <2>2, <2>4, <2>5 DEF NoLeakedLock
<1> QED
  BY <1>4 DEF NoLeakedLock

LEMMA OwnerStep ==
    ASSUME TypeOK, OwnNames, TaskDiscipline, NoLeakedLock, [Next]_vars
    PROVE  NoLeakedLock'
<1> USE ConstantsAssumption
<1>1. ASSUME NEW t \in Tasks,
             BeginShared(t) \/ BeginExclusive(t) \/ UpgradeLock(t) \/ Spawn(t)
      PROVE  NoLeakedLock'
  <2>1. UNCHANGED <<lockVars, hostVars>>
    BY <1>1 DEF BeginShared, BeginExclusive, UpgradeLock, Spawn
  <2>2. \A u \in Tasks : Exclusive(u) => Exclusive(u)'
    BY <1>1 DEF BeginShared, BeginExclusive, UpgradeLock, Spawn, Exclusive, TypeOK
  <2> QED
    BY <2>1, <2>2, KeepOwners DEF lockVars, hostVars
<1>2. ASSUME NEW t \in Tasks, ReserveRead(t)
      PROVE  NoLeakedLock'
  <2>1. CASE LockFailed(t)
    BY <1>2, <2>1, LockFailedOwner DEF ReserveRead
  <2>2. CASE ~LockFailed(t)
    <3>1. UNCHANGED <<lockVars, hostVars>>
      BY <1>2, <2>2 DEF ReserveRead
    <3>2. \A u \in Tasks : Exclusive(u) => Exclusive(u)'
      BY <1>2, <2>2 DEF ReserveRead, Exclusive, TypeOK
    <3> QED
      BY <3>1, <3>2, KeepOwners DEF lockVars, hostVars
  <2> QED
    BY <2>1, <2>2
<1>3. ASSUME NEW t \in Tasks, PlaceLock(t)
      PROVE  NoLeakedLock'
  BY <1>3, PlaceLockOwner
<1>4. ASSUME NEW t \in Tasks,
             DowngradeLock(t) \/ ReleaseAndNotify(t) \/ Exit(t)
      PROVE  NoLeakedLock'
  <2>1. phase' = phase
    BY <1>4 DEF DowngradeLock, ReleaseAndNotify, Exit, hostVars
  <2>2. \A u \in Tasks : Exclusive(u) /\ u # t => Exclusive(u)'
    BY <1>4 DEF DowngradeLock, ReleaseAndNotify, Exit, Finish, Exclusive, TypeOK
  <2>5. CASE ReleaseFails(t)
    <3>1. /\ reservation' = reservation
          /\ stranded' = stranded \cup {NodeOf[t]}
      BY <2>5 DEF ReleaseFails
    <3> QED
      BY <2>1, <2>2, <3>1, KeepOwners
  <2>3. CASE Exclusive(t) /\ ~ReleaseFails(t)
    <3>1. ReleaseNode(t)
      BY <1>4, <2>3 DEF DowngradeLock, ReleaseAndNotify, Exit, ReleaseResources, Exclusive
    <3> QED
      BY <2>1, <2>2, <3>1, ReleasedOwner, KeepOwners
  <2>4. CASE ~Exclusive(t) /\ ~ReleaseFails(t)
    <3>1. UNCHANGED lockVars
      BY <1>4, <2>4 DEF DowngradeLock, ReleaseAndNotify, Exit, ReleaseResources, Exclusive
    <3> QED
      BY <2>1, <2>2, <2>4, <3>1, KeepOwners DEF lockVars
  <2> QED
    BY <2>3, <2>4, <2>5
<1>5. ASSUME NEW c \in Conductors, Crash(c) \/ Terminate(c)
      PROVE  NoLeakedLock'
  <2>1. /\ UNCHANGED <<reservation, stranded>>
        /\ phase' = [phase EXCEPT ![c] = "down"]
    BY <1>5 DEF Crash, Terminate, Die
  <2>2. \A u \in Tasks : Exclusive(u) /\ Host[u] # c => Exclusive(u)'
    BY <1>5, Zenon DEF Crash, Terminate, Die, Exclusive
  <2>3. phase'[c] = "down" /\ \A d \in Conductors : phase[d] = "down" => phase'[d] = "down"
    BY <2>1 DEF TypeOK
  <2> QED
    BY <2>1, <2>2, <2>3, KeepOwners
<1>6. ASSUME NEW c \in Conductors, PrepareHost(c)
      PROVE  NoLeakedLock'
  BY <1>6, PrepareHostOwner
<1>7. ASSUME UNCHANGED <<phase, taskVars>>,
             UNCHANGED <<reservation, stranded>> \/ \E N, by : Erase(N, by)
      PROVE  NoLeakedLock'
  <2>1. /\ \A n \in Nodes : reservation'[n] \in {reservation[n], None}
        /\ \A n \in stranded : reservation'[n] = None \/ n \in stranded'
    BY <1>7, ErasedOrKept
  <2> QED
    BY <1>7, <2>1, KeepOwners DEF taskVars, Exclusive
<1>8. ASSUME NEW d \in Conductors, PeriodicStep(d) \/ Touch(d) \/ Expire(d)
      PROVE  NoLeakedLock'
  <2>1. UNCHANGED <<phase, taskVars>>
    BY <1>8 DEF PeriodicStep, CheckOrphanNodes, ReleaseOrphan,
                PickStaleConductors, DeleteConductor, Touch, Expire
  <2>2. CASE CheckOrphanNodes(d) \/ PickStaleConductors(d) \/ Touch(d) \/ Expire(d)
    BY <1>7, <2>1, <2>2
       DEF CheckOrphanNodes, PickStaleConductors, Touch, Expire, lockVars
  <2>3. ASSUME NEW row \in scan[d], ReleaseOrphan(d, row)
        PROVE  NoLeakedLock'
    BY <1>7, <2>1, <2>3 DEF ReleaseOrphan
  <2>4. ASSUME NEW name \in doomed[d], DeleteConductor(d, name)
        PROVE  NoLeakedLock'
    BY <1>7, <2>1, <2>4 DEF DeleteConductor, ClearReservations, lockVars
  <2> QED
    BY <1>8, <2>2, <2>3, <2>4 DEF PeriodicStep
<1>9. ASSUME NEW c \in Conductors, InitHost(c) \/ Stop(c)
      PROVE  NoLeakedLock'
  <2>1. UNCHANGED <<lockVars, taskVars>> /\ phase[c] # "down"
    BY <1>9 DEF InitHost, Stop
  <2>2. \A d \in Conductors : phase'[d] = "down" <=> phase[d] = "down"
    BY <1>9 DEF InitHost, Stop, TypeOK
  <2> QED
    BY <2>1, <2>2, KeepOwners DEF taskVars, lockVars, Exclusive
<1>10. CASE UNCHANGED vars
  BY <1>7, <1>10 DEF vars, hostVars, lockVars
<1> QED
  BY <1>1, <1>2, <1>3, <1>4, <1>5, <1>6, <1>8, <1>9, <1>10
  DEF Next, TaskStep, HostStep

\* With host names of their own, a reservation in the name of a conductor that
\* lives has a task of this conductor to release it, unless the database failed
\* in the middle of reserve_node or in release_node: after whatever crash,
\* forced release, stop, lost race or change of hands, no other node stays locked
\* until the conductor is restarted (prepare_host, TaskManager.release_resources).
THEOREM LocksHaveOwners == OwnNames /\ Spec => []NoLeakedLock
<1>1. Init => TaskDiscipline /\ NoLeakedLock
  <2> SUFFICES ASSUME Init PROVE TaskDiscipline /\ NoLeakedLock
    OBVIOUS
  <2>1. \A c \in Conductors : ConfHost[c] # None
    BY ConstantsAssumption
  <2> QED
    BY <2>1 DEF Init, TaskDiscipline, NoLeakedLock
<1>2. OwnNames /\ TypeOK /\ TaskDiscipline /\ NoLeakedLock /\ [Next]_vars
        => TaskDiscipline' /\ NoLeakedLock'
  BY DisciplineStep, OwnerStep
<1>3. CASE OwnNames
  BY <1>1, <1>2, <1>3, TypeCorrect, PTL DEF Spec
<1> QED
  BY <1>3

=============================================================================

--------------------------- MODULE NodeLockProofs ---------------------------
(***************************************************************************)
(* NodeReservation implements NodeLock, for any number of conductors,      *)
(* nodes and tasks.                                                        *)
(***************************************************************************)
EXTENDS NodeReservationProofs, NodeReservationRefinement

LEMMA TheOwner ==
    ASSUME NEW S \in SUBSET Tasks, \A t, u \in S : t = u,
           NEW o, o = IF S = {} THEN None ELSE CHOOSE t \in S : TRUE
    PROVE  /\ o \in Tasks \cup {None}
           /\ o = None <=> S = {}
           /\ \A t \in Tasks : o = t <=> t \in S
BY ConstantsAssumption

LEMMA OwnerBefore ==
    ASSUME MutualExclusion, NEW n \in Nodes
    PROVE  /\ owner[n] \in Tasks \cup {None}
           /\ owner[n] = None <=> OwnersOf(n) = {}
           /\ \A t \in Tasks : owner[n] = t <=> t \in OwnersOf(n)
<1>1. \A t, u \in OwnersOf(n) : t = u
  BY DEF OwnersOf, MutualExclusion
<1>2. OwnersOf(n) \in SUBSET Tasks
  BY DEF OwnersOf
<1>3. owner[n] = IF OwnersOf(n) = {} THEN None ELSE CHOOSE t \in OwnersOf(n) : TRUE
  BY DEF owner
<1> QED
  BY <1>1, <1>2, <1>3, TheOwner

LEMMA OwnerAfter ==
    ASSUME MutualExclusion', NEW n \in Nodes
    PROVE  /\ owner'[n] \in Tasks \cup {None}
           /\ owner'[n] = None <=> OwnersOf(n)' = {}
           /\ \A t \in Tasks : owner'[n] = t <=> t \in OwnersOf(n)'
<1>1. \A t, u \in OwnersOf(n)' : t = u
  BY DEF OwnersOf, MutualExclusion
<1>2. OwnersOf(n)' \in SUBSET Tasks
  BY DEF OwnersOf
<1>3. owner'[n] = IF OwnersOf(n)' = {} THEN None
                  ELSE CHOOSE t \in OwnersOf(n)' : TRUE
  BY DEF owner
<1> QED
  BY <1>1, <1>2, <1>3, TheOwner

\* The owners after a step in which the nodes of N, and no others, are freed.
LEMMA OwnersFreed ==
    ASSUME MutualExclusion, MutualExclusion', NEW N,
           \A n \in Nodes, t \in Tasks :
               t \in OwnersOf(n)' <=> t \in OwnersOf(n) /\ n \notin N
    PROVE  owner' = [n \in Nodes |-> IF n \in N THEN None ELSE owner[n]]
<1>1. owner' = [n \in Nodes |-> owner'[n]]
  BY DEF owner
<1>2. ASSUME NEW n \in Nodes
      PROVE  owner'[n] = IF n \in N THEN None ELSE owner[n]
  <2>1. CASE n \in N
    <3>1. OwnersOf(n)' = {}
      BY <2>1 DEF OwnersOf
    <3> QED
      BY <2>1, <3>1, OwnerAfter
  <2>2. CASE n \notin N
    <3>1. \A t \in Tasks : owner'[n] = t <=> owner[n] = t
      BY <2>2, OwnerBefore, OwnerAfter
    <3> QED
      BY <2>2, <3>1, OwnerBefore, OwnerAfter
  <2> QED
    BY <2>1, <2>2
<1> QED
  BY <1>1, <1>2

LEMMA OwnersKept ==
    ASSUME MutualExclusion, MutualExclusion',
           \A n \in Nodes, t \in Tasks : t \in OwnersOf(n)' <=> t \in OwnersOf(n)
    PROVE  owner' = owner
<1>1. ASSUME NEW n \in Nodes PROVE owner'[n] = owner[n]
  BY OwnerBefore, OwnerAfter
<1>2. owner' = [n \in Nodes |-> owner'[n]] /\ owner = [n \in Nodes |-> owner[n]]
  BY DEF owner
<1> QED
  BY <1>1, <1>2

\* A step in which nobody starts or stops to believe, and nobody is robbed.
LEMMA Stutter ==
    ASSUME MutualExclusion, MutualExclusion', UNCHANGED <<evicted, lapsed>>,
           \A u \in Tasks : Exclusive(u)' <=> Exclusive(u)
    PROVE  UNCHANGED <<owner, believers, lapsed>>
<1>1. \A n \in Nodes, t \in Tasks : t \in OwnersOf(n)' <=> t \in OwnersOf(n)
  BY DEF OwnersOf
<1>2. owner' = owner
  BY <1>1, OwnersKept
<1>3. believers' = believers
  BY DEF believers
<1> QED
  BY <1>2, <1>3

\* Reservations erased in the name of a conductor that lapsed, or that is down.
LEMMA EraseRobs ==
    ASSUME MutualExclusion, MutualExclusion', EvictionNeedsLapse',
           NEW N, Erase(N, None), UNCHANGED <<taskVars, lapsed>>
    PROVE  \E M \in SUBSET Nodes : Lock!Rob(M)
<1> DEFINE M == {n \in Nodes : n \in N /\ owner[n] # None}
<1>1. \A u \in Tasks : Exclusive(u)' <=> Exclusive(u)
  BY DEF taskVars, Exclusive
<1>2. \A n \in Nodes, t \in Tasks :
          t \in OwnersOf(n)' <=> t \in OwnersOf(n) /\ n \notin N
  <2>1. \A t \in Tasks : t \in evicted' <=> t \in evicted \/ (Exclusive(t) /\ NodeOf[t] \in N)
    BY ConstantsAssumption DEF Erase
  <2> QED
    BY <1>1, <2>1 DEF OwnersOf
<1>3. owner' = [n \in Nodes |-> IF n \in N THEN None ELSE owner[n]]
  BY <1>2, OwnersFreed
<1>4. owner' = [n \in Nodes |-> IF n \in M THEN None ELSE owner[n]]
  BY <1>3
<1>5. ASSUME NEW n \in M PROVE owner[n] # None /\ Host[owner[n]] \in lapsed
  <2>1. owner[n] \in Tasks /\ owner[n] \in OwnersOf(n)
    BY <1>5, OwnerBefore
  <2>2. owner[n] \in evicted'
    BY <1>5, <2>1, ConstantsAssumption DEF OwnersOf, Erase
  <2> QED
    BY <1>5, <2>2 DEF EvictionNeedsLapse
<1>6. believers' = believers
  BY <1>1 DEF believers
<1> QED
  BY <1>4, <1>5, <1>6 DEF Lock!Rob

\* A holder that lets its node go, whether or not it is still its own.
LEMMA ReleaseReleases ==
    ASSUME MutualExclusion, MutualExclusion', EvictionNeedsLapse, EvictionNeedsLapse',
           EvictedBelieve, NEW t \in Tasks, Exclusive(t), ~Exclusive(t)', ReleaseNode(t),
           \A u \in Tasks : u # t => (Exclusive(u)' <=> Exclusive(u)),
           lapsed' = lapsed, LockHeld, PlainNames
    PROVE  Lock!Release(t)
<1> USE ConstantsAssumption
<1> DEFINE n == NodeOf[t]
<1>1. t \in believers /\ believers' = believers \ {t}
  BY DEF believers
<1>2. CASE reservation[n] = Tag(t)
  <2>1. owner' = [m \in Nodes |-> IF m \in {n} THEN None ELSE owner[m]]
    <3>1. \A m \in Nodes, u \in Tasks :
              u \in OwnersOf(m)' <=> u \in OwnersOf(m) /\ m \notin {n}
      <4>1. \A u \in Tasks : u # t =>
               (u \in evicted' <=> u \in evicted \/ (Exclusive(u) /\ NodeOf[u] = n))
        BY <1>2 DEF ReleaseNode, Erase
      <4> QED
        BY <4>1 DEF OwnersOf
    <3> QED
      BY <3>1, OwnersFreed
  <2>2. owner = [m \in Nodes |-> owner[m]]
    BY DEF owner
  <2>3. owner' = [owner EXCEPT ![n] = None]
    BY <2>1, <2>2
  <2>4. CASE owner[n] = None
    <3>1. owner' = owner
      BY <2>1, <2>2, <2>4
    <3> QED
      BY <1>1, <2>4, <3>1 DEF Lock!Release
  <2>5. CASE owner[n] # None /\ owner[n] # t
    <3>1. /\ owner[n] \in Tasks /\ owner[n] # t
          /\ Exclusive(owner[n]) /\ owner[n] \notin evicted /\ NodeOf[owner[n]] = n
      BY <2>5, OwnerBefore DEF OwnersOf
    <3>2. Host[owner[n]] = Host[t]
      BY <1>2, <3>1, HolderOfTag DEF Tag
    <3>3. Host[t] \in lapsed
      BY <3>1 DEF MutualExclusion, EvictionNeedsLapse
    <3> QED
      BY <1>1, <2>3, <2>5, <3>2, <3>3 DEF Lock!Release
  <2>6. CASE owner[n] = t
    BY <1>1, <2>3, <2>6 DEF Lock!Release
  <2> QED
    BY <2>4, <2>5, <2>6
<1>3. CASE reservation[n] # Tag(t)
  <2>1. t \in evicted
    BY <1>3 DEF LockHeld
  <2>2. owner[n] # t
    BY <2>1, OwnerBefore DEF OwnersOf
  <2>3. \A m \in Nodes, u \in Tasks :
            u \in OwnersOf(m)' <=> u \in OwnersOf(m)
    <3>1. \A u \in Tasks : u # t => (u \in evicted' <=> u \in evicted)
      BY <1>3 DEF ReleaseNode, Erase
    <3> QED
      BY <2>1, <3>1 DEF OwnersOf
  <2>4. owner' = owner
    BY <2>3, OwnersKept
  <2> QED
    BY <1>1, <2>2, <2>4 DEF Lock!Release
<1> QED
  BY <1>2, <1>3

\* A task whose release fails is gone like any other; what it leaves in the column
\* has no owner.
LEMMA ReleaseFailsReleases ==
    ASSUME MutualExclusion, MutualExclusion', NEW t \in Tasks, ReleaseFails(t),
           ~Exclusive(t)', lapsed' = lapsed,
           \A u \in Tasks : u # t => (Exclusive(u)' <=> Exclusive(u))
    PROVE  Lock!Release(t)
<1> USE ConstantsAssumption
<1> DEFINE n == NodeOf[t]
<1>1. t \in believers /\ believers' = believers \ {t}
  BY DEF ReleaseFails, believers
<1>2. \A m \in Nodes, u \in Tasks :
          u \in OwnersOf(m)' <=> u \in OwnersOf(m) /\ u # t
  BY DEF ReleaseFails, OwnersOf
<1>3. CASE t \in OwnersOf(n)
  <2>1. owner[n] = t
    BY <1>3, OwnerBefore
  <2>2. \A m \in Nodes, u \in Tasks :
            u \in OwnersOf(m)' <=> u \in OwnersOf(m) /\ m \notin {n}
    <3>1. \A u \in OwnersOf(n) : u = t
      BY <1>3 DEF OwnersOf, MutualExclusion
    <3>2. \A m \in Nodes : t \in OwnersOf(m) => m = n
      BY DEF OwnersOf
    <3> QED
      BY <1>2, <3>1, <3>2
  <2>3. owner' = [m \in Nodes |-> IF m \in {n} THEN None ELSE owner[m]]
    BY <2>2, OwnersFreed
  <2>4. owner = [m \in Nodes |-> owner[m]]
    BY DEF owner
  <2>5. owner' = [owner EXCEPT ![n] = None]
    BY <2>3, <2>4
  <2> QED
    BY <1>1, <2>1, <2>5 DEF Lock!Release
<1>4. CASE t \notin OwnersOf(n)
  <2>1. \A m \in Nodes : t \notin OwnersOf(m)
    BY <1>4 DEF OwnersOf
  <2>2. owner' = owner
    BY <1>2, <2>1, OwnersKept
  <2>3. owner[n] # t
    BY <1>4, OwnerBefore
  <2> QED
    BY <1>1, <2>2, <2>3 DEF Lock!Release
<1> QED
  BY <1>3, <1>4

----------------------------------------------------------------------------

\* Only a task that takes a free node acquires it.
LEMMA PlaceLockAcquires ==
    ASSUME TypeOK, TypeOK', LockHeld, MutualExclusion, MutualExclusion',
           EvictedBelieve, NEW t \in Tasks, PlaceLock(t), Acquired(t),
           reservation[NodeOf[t]] = None
    PROVE  Lock!Acquire(t)
<1> USE ConstantsAssumption
<1> DEFINE n == NodeOf[t]
<1>1. reservation[n] = None /\ evicted' = evicted /\ lapsed' = lapsed
  BY DEF PlaceLock, Acquired, hostVars
<1>2. \A u \in Tasks : Exclusive(u)' <=> u = t \/ Exclusive(u)
  BY DEF Acquired, Exclusive, TypeOK
<1>3. ~Exclusive(t) /\ t \notin evicted
  BY DEF PlaceLock, Exclusive, EvictedBelieve
<1>4. OwnersOf(n) = {}
  BY <1>1 DEF OwnersOf, LockHeld, Tag
<1>5. owner[n] = None
  BY <1>4, OwnerBefore
<1>6. ASSUME NEW m \in Nodes PROVE owner'[m] = IF m = n THEN t ELSE owner[m]
  <2>1. CASE m = n
    <3>1. t \in OwnersOf(m)'
      BY <1>1, <1>2, <1>3, <2>1 DEF OwnersOf
    <3> QED
      BY <2>1, <3>1, OwnerAfter
  <2>2. CASE m # n
    <3>1. \A u \in Tasks : u \in OwnersOf(m)' <=> u \in OwnersOf(m)
      BY <1>1, <1>2, <2>2 DEF OwnersOf
    <3> QED
      BY <2>2, <3>1, OwnerBefore, OwnerAfter
  <2> QED
    BY <2>1, <2>2
<1>7. owner' = [owner EXCEPT ![n] = t]
  BY <1>6 DEF owner
<1>8. t \notin believers /\ believers' = believers \cup {t}
  BY <1>2, <1>3 DEF believers
<1> QED
  BY <1>1, <1>5, <1>7, <1>8 DEF Lock!Acquire

LEMMA DieEnds ==
    ASSUME TypeOK, MutualExclusion, MutualExclusion', NEW c \in Conductors, Die(c)
    PROVE  Lock!End(c)
<1> USE ConstantsAssumption
<1>1. \A u \in Tasks : Exclusive(u)' <=> Exclusive(u) /\ Host[u] # c
  BY Zenon DEF Die, Exclusive
<1>2. \A u \in Tasks : u \in evicted' <=> u \in evicted /\ Host[u] # c
  BY DEF Die
<1>3. lapsed' = lapsed
  BY DEF Die
<1>4. believers' = {t \in believers : Host[t] # c}
  BY <1>1 DEF believers
<1> DEFINE N == {n \in Nodes : owner[n] # None /\ Host[owner[n]] = c}
<1>5. \A n \in Nodes, t \in Tasks :
          t \in OwnersOf(n)' <=> t \in OwnersOf(n) /\ n \notin N
  <2> SUFFICES ASSUME NEW n \in Nodes, NEW t \in Tasks
               PROVE  t \in OwnersOf(n)' <=> t \in OwnersOf(n) /\ n \notin N
    OBVIOUS
  <2>1. t \in OwnersOf(n)' <=> t \in OwnersOf(n) /\ Host[t] # c
    BY <1>1, <1>2 DEF OwnersOf
  <2>2. t \in OwnersOf(n) => (Host[t] # c <=> n \notin N)
    BY OwnerBefore
  <2> QED
    BY <2>1, <2>2
<1>6. owner' = [n \in Nodes |-> IF n \in N THEN None ELSE owner[n]]
  <2> HIDE DEF N
  <2> QED
    BY <1>5, OwnersFreed
<1>7. owner' = [n \in Nodes |->
                  IF owner[n] # None /\ Host[owner[n]] = c THEN None ELSE owner[n]]
  BY <1>6
<1> QED
  BY <1>3, <1>4, <1>7 DEF Lock!End

LEMMA RefinementStep ==
    ASSUME PlainNames, TypeOK, TypeOK', RobberyInv, RobberyInv', [Next]_vars
    PROVE  [Lock!Next]_(Lock!vars)
<1> USE ConstantsAssumption DEF RobberyInv
<1>1. ASSUME UNCHANGED <<evicted, lapsed>>,
             \A u \in Tasks : Exclusive(u)' <=> Exclusive(u)
      PROVE  UNCHANGED Lock!vars
  BY <1>1, Stutter DEF Lock!vars
<1>2. ASSUME NEW t \in Tasks,
             BeginShared(t) \/ BeginExclusive(t) \/ UpgradeLock(t) \/ Spawn(t)
      PROVE  UNCHANGED Lock!vars
  <2>1. \A u \in Tasks : Exclusive(u)' <=> Exclusive(u)
    BY <1>2 DEF BeginShared, BeginExclusive, UpgradeLock, Spawn, Exclusive, TypeOK,
                TaskDiscipline
  <2>2. UNCHANGED <<evicted, lapsed>>
    BY <1>2 DEF BeginShared, BeginExclusive, UpgradeLock, Spawn, lockVars, hostVars
  <2> QED
    BY <1>1, <2>1, <2>2
<1>3. ASSUME NEW t \in Tasks, pc[t] \in {"locking", "placing"},
             LockFailed(t), UNCHANGED hostVars
      PROVE  UNCHANGED Lock!vars
  <2>1. UNCHANGED lockVars
    BY <1>3 DEF LockFailed, ReleaseResources, TaskDiscipline
  <2>2. \A u \in Tasks : Exclusive(u)' <=> Exclusive(u)
    BY <1>3 DEF LockFailed, Finish, Exclusive, TypeOK
  <2> QED
    BY <1>1, <1>3, <2>1, <2>2 DEF lockVars, hostVars
<1>4. ASSUME NEW t \in Tasks, ReserveRead(t)
      PROVE  UNCHANGED Lock!vars
  <2>1. CASE LockFailed(t)
    BY <1>3, <1>4, <2>1 DEF ReserveRead
  <2>2. CASE ~LockFailed(t)
    <3>1. UNCHANGED <<evicted, lapsed>>
      BY <1>4, <2>2 DEF ReserveRead, lockVars, hostVars
    <3>2. \A u \in Tasks : Exclusive(u)' <=> Exclusive(u)
      BY <1>4, <2>2 DEF ReserveRead, Exclusive, TypeOK
    <3> QED
      BY <1>1, <3>1, <3>2
  <2> QED
    BY <2>1, <2>2
<1>5. ASSUME NEW t \in Tasks, PlaceLock(t)
      PROVE  Lock!Acquire(t) \/ UNCHANGED Lock!vars
  <2>1. pc[t] = "placing" /\ UNCHANGED hostVars
    BY <1>5 DEF PlaceLock
  <2>2. CASE LockFailed(t)
    BY <1>3, <2>1, <2>2
  <2>3. CASE Acquired(t) /\ reservation[NodeOf[t]] = None
    BY <1>5, <2>3, PlaceLockAcquires
  <2>4. CASE AnswerLost(t)
    <3>1. \A u \in Tasks : Exclusive(u)' <=> Exclusive(u)
      BY <2>1, <2>4 DEF AnswerLost, Finish, Exclusive, TypeOK, TaskDiscipline
    <3> QED
      BY <1>1, <2>1, <2>4, <3>1 DEF AnswerLost, hostVars
  <2> QED
    BY <1>5, <2>2, <2>3, <2>4 DEF PlaceLock
<1>6. ASSUME NEW t \in Tasks,
             DowngradeLock(t) \/ ReleaseAndNotify(t) \/ Exit(t)
      PROVE  Lock!Release(t) \/ UNCHANGED Lock!vars
  <2>1. ~Exclusive(t)' /\ (\A u \in Tasks : u # t => (Exclusive(u)' <=> Exclusive(u)))
    BY <1>6 DEF DowngradeLock, ReleaseAndNotify, Exit, Finish, Exclusive, TypeOK
  <2>2. lapsed' = lapsed
    BY <1>6 DEF DowngradeLock, ReleaseAndNotify, Exit, hostVars
  <2>5. CASE ReleaseFails(t)
    BY <1>6, <2>1, <2>2, <2>5, ReleaseFailsReleases
  <2>3. CASE Exclusive(t) /\ ~ReleaseFails(t)
    <3>1. ReleaseNode(t)
      BY <1>6, <2>3 DEF DowngradeLock, ReleaseAndNotify, Exit, ReleaseResources, Exclusive
    <3> QED
      BY <2>1, <2>2, <2>3, <3>1, ReleaseReleases
  <2>4. CASE ~Exclusive(t) /\ ~ReleaseFails(t)
    <3>1. evicted' = evicted
      BY <1>6, <2>4 DEF DowngradeLock, ReleaseAndNotify, Exit, ReleaseResources,
                        Exclusive, lockVars
    <3> QED
      BY <1>1, <2>1, <2>2, <2>4, <3>1
  <2> QED
    BY <2>3, <2>4, <2>5
<1>7. ASSUME NEW c \in Conductors, Crash(c) \/ Terminate(c)
      PROVE  Lock!End(c)
  BY <1>7, DieEnds DEF Crash, Terminate
<1>8. ASSUME NEW N, Erase(N, None), UNCHANGED <<taskVars, lapsed>>
      PROVE  \E M \in SUBSET Nodes : Lock!Rob(M)
  BY <1>8, EraseRobs
<1>9. ASSUME NEW c \in Conductors, PrepareHost(c)
      PROVE  \E M \in SUBSET Nodes : Lock!Rob(M)
  BY <1>8, <1>9 DEF PrepareHost, ClearReservations
<1>10. ASSUME NEW d \in Conductors, NEW row \in scan[d], ReleaseOrphan(d, row)
       PROVE  \E M \in SUBSET Nodes : Lock!Rob(M)
  BY <1>8, <1>10 DEF ReleaseOrphan
<1>11. ASSUME UNCHANGED <<evicted, taskVars, lapsed>>
       PROVE  UNCHANGED Lock!vars
  BY <1>1, <1>11 DEF taskVars, Exclusive
<1>12. ASSUME NEW d \in Conductors, NEW name \in doomed[d], DeleteConductor(d, name)
       PROVE  (\E M \in SUBSET Nodes : Lock!Rob(M)) \/ UNCHANGED Lock!vars
  <2>1. UNCHANGED <<taskVars, lapsed>>
    BY <1>12 DEF DeleteConductor
  <2>2. CASE ClearReservations(name)
    BY <1>8, <2>1, <2>2 DEF ClearReservations
  <2>3. CASE UNCHANGED lockVars
    BY <1>11, <2>1, <2>3 DEF lockVars
  <2> QED
    BY <1>12, <2>2, <2>3 DEF DeleteConductor
<1>13. ASSUME NEW c \in Conductors, Expire(c)
       PROVE  Lock!Suspect(c)
  <2>1. UNCHANGED <<owner, believers>>
    <3>1. evicted' = evicted /\ (\A u \in Tasks : Exclusive(u)' <=> Exclusive(u))
      BY <1>13 DEF Expire, lockVars, taskVars, Exclusive
    <3>2. \A n \in Nodes, t \in Tasks : t \in OwnersOf(n)' <=> t \in OwnersOf(n)
      BY <3>1 DEF OwnersOf
    <3> QED
      BY <3>1, <3>2, OwnersKept DEF believers
  <2> QED
    BY <1>13, <2>1 DEF Lock!Suspect, Expire
<1>14. ASSUME NEW c \in Conductors,
              \/ InitHost(c) \/ Touch(c) \/ Stop(c)
              \/ CheckOrphanNodes(c) \/ PickStaleConductors(c)
       PROVE  UNCHANGED Lock!vars
  <2>1. UNCHANGED <<evicted, taskVars, lapsed>>
    BY <1>14 DEF InitHost, Touch, Stop, CheckOrphanNodes, PickStaleConductors, lockVars
  <2> QED
    BY <1>11, <2>1
<1>15. CASE UNCHANGED vars
  <2>1. UNCHANGED <<evicted, taskVars, lapsed>>
    BY <1>15 DEF vars, lockVars, hostVars
  <2> QED
    BY <1>11, <2>1
<1> QED
  BY <1>2, <1>4, <1>5, <1>6, <1>7, <1>9, <1>10, <1>12, <1>13, <1>14, <1>15
  DEF Next, TaskStep, HostStep, PeriodicStep, Lock!Next

\* With the default names, the reservation column -- host names that every task of
\* a host shares and that anybody may erase -- is a lock with owners: a node
\* passes from task to task only through being free, and is only taken from tasks
\* of conductors that have been late with a heartbeat (reserve_node, release_node,
\* clear_node_reservations_for_conductor and their callers).
THEOREM NodeReservationIsALock == PlainNames /\ Spec => ImplementsNodeLock
<1>1. Init => Lock!Init
  BY DEF Init, Lock!Init, owner, OwnersOf, believers, Exclusive
<1>2. ASSUME PlainNames
      PROVE  TypeOK /\ TypeOK' /\ RobberyInv /\ RobberyInv' /\ [Next]_vars
               => [Lock!Next]_(Lock!vars)
  BY <1>2, RefinementStep
<1>3. ASSUME PlainNames PROVE Spec => Lock!Spec
  BY <1>1, <1>2, <1>3, TypeCorrect, RobberyInvariant, PTL DEF Spec, Lock!Spec
<1> QED
  BY <1>3 DEF ImplementsNodeLock

=============================================================================

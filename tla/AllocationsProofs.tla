-------------------------- MODULE AllocationsProofs --------------------------
(***************************************************************************)
(* Theorems about Allocations, for all values of its constants.            *)
(*                                                                         *)
(* Orderly names what may not happen for most of them, though it can: a    *)
(* live conductor that looks offline, one that comes back while its rows   *)
(* are taken over, one that allocates before it has listed the rows that   *)
(* it resumes, and a node that is deployed again with what an interrupted  *)
(* tear down has left.  Crashes, take-overs, stale requests and a full     *)
(* pool may.                                                               *)
(***************************************************************************)
EXTENDS Allocations, TLAPS

Orderly == Trouble \cap {"lapse", "restart", "rebuild", "early"} = {}

\* The rows, and what a thread or a tear down knows.
AllocRows == [state : {"new", "allocating", "active", "error", "gone"},
              node : Nodes \cup {None}, affinity : Conductors \cup {None}]
Provs == {"available", "deploying", "deploy failed", "active",
          "deleting", "error", "cleaning", "gone"}
NodeRows == [prov : Provs,
             instance : Allocs \cup {None, Other},
             allocation : Allocs \cup {None},
             maintenance : BOOLEAN,
             lock : Conductors \cup {None}]
Works == [pc : {"idle", "list", "try", "backfill", "locked", "failed"},
          on : Allocs \cup {None}, todo : SUBSET Nodes, retry : SUBSET Nodes,
          attempt : 0 .. MaxAttempts, node : Nodes \cup {None}, fill : BOOLEAN]
Queues == [resume : SUBSET Allocs, orphans : SUBSET (Allocs \X Conductors)]
Tears == [pc : {"no", "driver", "saved"}, by : Conductors \cup {None},
          alloc : Allocs \cup {None}]

Busy(t) == thread[t].pc # "idle"

\* Still to be decided, or deleted: what a thread works on has no outcome.
Undecided(a) == alloc[a].state \in {"allocating", "gone"}

\* A conductor that runs looks online.
LooksAlive == up \subseteq online

\* A thread works for the row's conductor, which runs.
ThreadsOwn ==
    \A t \in Threads : Busy(t) =>
        /\ t[1] \in up
        /\ alloc[thread[t].on].affinity = t[1]
        /\ Undecided(thread[t].on)

\* What waits to be resumed is not worked on.
ResumeWaits ==
    \A c \in Conductors, a \in Allocs : a \in queue[c].resume =>
        /\ c \in up /\ alloc[a].affinity = c /\ Undecided(a)
        /\ \A t \in Threads : Busy(t) => thread[t].on # a

\* The conductor of a row that waits to be taken over does not run.
OrphansWait ==
    \A d, c \in Conductors, a \in Allocs : <<a, c>> \in queue[d].orphans =>
        /\ c \notin up /\ d \in up
        /\ alloc[a].affinity = c => Undecided(a)

\* A conductor that has not listed what it resumes does not allocate.
StartsIdle ==
    \A c \in starting :
        /\ queue[c].resume = {}
        /\ \A t \in Threads : t[1] = c => ~ Busy(t)

\* Who works on which row.
WorkDiscipline ==
    /\ LooksAlive /\ ThreadsOwn /\ OneThreadPerAllocation
    /\ ResumeWaits /\ OrphansWait /\ StartsIdle

\* A thread that is about to save has the lock of its node, which nobody has
\* taken into a tear down.
LocksHeld ==
    \A t \in Threads : thread[t].pc = "locked" =>
        /\ t[1] \in up /\ node[thread[t].node].lock = t[1]
        /\ node[thread[t].node].prov \in {"available", "active"}
LocksAreOwn ==
    \A s, t \in Threads :
        /\ thread[s].pc = "locked" /\ thread[t].pc = "locked"
        /\ thread[s].node = thread[t].node
        => s = t

\* A tear down has the lock of its node.
TearsHeld ==
    \A n \in Nodes : tearing[n].pc # "no" =>
        /\ tearing[n].by \in up /\ node[n].lock = tearing[n].by
        /\ node[n].prov \in {"deleting", "error"}

\* It knows the allocation that it destroys.
TearsKnow ==
    \A n \in Nodes : tearing[n].pc = "saved" =>
        /\ node[n].allocation \in {None, tearing[n].alloc}
        /\ tearing[n].alloc # None =>
             \/ node[n].allocation = tearing[n].alloc
             \/ alloc[tearing[n].alloc].state = "gone"

\* Who has which lock.
LockDiscipline == LocksHeld /\ LocksAreOwn /\ TearsHeld /\ TearsKnow

LinkedIsActive ==
    \A a \in Allocs : alloc[a].node # None => alloc[a].state = "active"

Torn == {"deleting", "error", "gone"}

\* Only a tear down that was cut off leaves an allocation without its instance.
InstanceKept ==
    \A n \in Nodes :
        node[n].prov \notin Torn /\ node[n].allocation # None
        => node[n].instance = node[n].allocation

\* Which node is whose.
LinkDiscipline == LinksAgree /\ LinkedIsActive /\ InstanceKept

Discipline == WorkDiscipline /\ LockDiscipline /\ LinkDiscipline

-----------------------------------------------------------------------------
(* Types *)

\* What a thread that works knows.
KnownWorks == {w \in Works :
                 /\ w.pc = "idle" => w.on = None
                 /\ w.pc # "idle" => w.on \in Allocs
                 /\ w.pc \in {"backfill", "locked"} => w.node \in Nodes}

RowsTyped ==
    /\ alloc \in [Allocs -> AllocRows] /\ node \in [Nodes -> NodeRows]
    /\ thread \in [Threads -> KnownWorks] /\ queue \in [Conductors -> Queues]
    /\ tearing \in [Nodes -> Tears]
OthersTyped ==
    /\ up \subseteq Conductors /\ online \subseteq Conductors
    /\ starting \subseteq up
    /\ requests \subseteq Allocs \X (Nodes \cup {None})
    /\ events \in 0 .. MaxEvents
Typed == RowsTyped /\ OthersTyped

LEMMA TypeParts == Typed => TypeOK
BY DEF TypeOK, Typed, RowsTyped, OthersTyped, AllocRows, NodeRows, Works, KnownWorks,
       Provs, Queues, Tears

\* Rows of nodes stay rows when their fields change.
LEMMA NodeRowUpdates ==
    ASSUME NEW r \in NodeRows
    PROVE  /\ \A p \in Provs : [r EXCEPT !.prov = p] \in NodeRows
           /\ \A i \in Allocs \cup {None, Other} : [r EXCEPT !.instance = i] \in NodeRows
           /\ \A a \in Allocs \cup {None} : [r EXCEPT !.allocation = a] \in NodeRows
           /\ \A b \in BOOLEAN : [r EXCEPT !.maintenance = b] \in NodeRows
           /\ \A l \in Conductors \cup {None} : [r EXCEPT !.lock = l] \in NodeRows
           /\ \A p \in Provs, l \in Conductors \cup {None} :
                [r EXCEPT !.prov = p, !.lock = l] \in NodeRows
           /\ \A p \in Provs, i \in Allocs \cup {None, Other} :
                [r EXCEPT !.prov = p, !.instance = i] \in NodeRows
           /\ \A p \in Provs, i \in Allocs \cup {None, Other}, l \in Conductors \cup {None} :
                [r EXCEPT !.prov = p, !.instance = i, !.lock = l] \in NodeRows
           /\ \A a \in Allocs, l \in Conductors \cup {None} :
                [r EXCEPT !.allocation = a, !.instance = a, !.lock = l] \in NodeRows
BY DEF NodeRows

\* The fields that stay.
LEMMA NodeRowKeeps ==
    ASSUME NEW r \in NodeRows
    PROVE  /\ \A p : [r EXCEPT !.prov = p].prov = p
                     /\ [r EXCEPT !.prov = p].allocation = r.allocation
                     /\ [r EXCEPT !.prov = p].instance = r.instance
                     /\ [r EXCEPT !.prov = p].lock = r.lock
           /\ \A i : [r EXCEPT !.instance = i].instance = i
                     /\ [r EXCEPT !.instance = i].allocation = r.allocation
                     /\ [r EXCEPT !.instance = i].prov = r.prov
                     /\ [r EXCEPT !.instance = i].lock = r.lock
           /\ \A l : [r EXCEPT !.lock = l].lock = l
                     /\ [r EXCEPT !.lock = l].allocation = r.allocation
                     /\ [r EXCEPT !.lock = l].prov = r.prov
                     /\ [r EXCEPT !.lock = l].instance = r.instance
<1> USE DEF NodeRows
<1>1. \A p : [r EXCEPT !.prov = p].prov = p
              /\ [r EXCEPT !.prov = p].allocation = r.allocation
              /\ [r EXCEPT !.prov = p].instance = r.instance
              /\ [r EXCEPT !.prov = p].lock = r.lock
  OBVIOUS
<1>2. \A i : [r EXCEPT !.instance = i].instance = i
              /\ [r EXCEPT !.instance = i].allocation = r.allocation
              /\ [r EXCEPT !.instance = i].prov = r.prov
              /\ [r EXCEPT !.instance = i].lock = r.lock
  OBVIOUS
<1>3. \A l : [r EXCEPT !.lock = l].lock = l
              /\ [r EXCEPT !.lock = l].allocation = r.allocation
              /\ [r EXCEPT !.lock = l].prov = r.prov
              /\ [r EXCEPT !.lock = l].instance = r.instance
  OBVIOUS
<1> QED BY <1>1, <1>2, <1>3

LEMMA EventTyped == events \in 0 .. MaxEvents /\ Event => events' \in 0 .. MaxEvents
BY AllocationAssumptions DEF Event

\* What the operators on tables return are tables.
LEMMA TablesTyped ==
    ASSUME RowsTyped, NEW a \in Allocs
    PROVE  /\ FailedRow(a) \in [Allocs -> AllocRows]
           /\ DestroyedRow(a) \in [Allocs -> AllocRows]
           /\ Unlinked(a) \in [Nodes -> NodeRows]
           /\ \A c \in Conductors : NewRow(c, a) \in [Allocs -> AllocRows]
<1>1. FailedRow(a) \in [Allocs -> AllocRows]
  BY DEF RowsTyped, FailedRow, AllocRows
<1>2. DestroyedRow(a) \in [Allocs -> AllocRows]
  BY DEF RowsTyped, DestroyedRow, AllocRows
<1>3. Unlinked(a) \in [Nodes -> NodeRows]
  BY DEF RowsTyped, Unlinked, NodeRows
<1>4. \A c \in Conductors : NewRow(c, a) \in [Allocs -> AllocRows]
  BY DEF RowsTyped, NewRow, AllocRows
<1> QED BY <1>1, <1>2, <1>3, <1>4

LEMMA Attempts ==
    /\ 0 \in 0 .. MaxAttempts /\ 1 \in 0 .. MaxAttempts
    /\ \A i \in 0 .. MaxAttempts : i < MaxAttempts => i + 1 \in 0 .. MaxAttempts
BY AllocationAssumptions

Backfill(a, n) == [Idle EXCEPT !.pc = "backfill", !.on = a, !.node = n, !.fill = TRUE]

LEMMA WorksTyped ==
    /\ Idle \in KnownWorks
    /\ \A a \in Allocs : Begin(a) \in KnownWorks
    /\ \A a \in Allocs, n \in Nodes : Backfill(a, n) \in KnownWorks
<1>1. Idle \in KnownWorks
  BY Attempts DEF Idle, Works, KnownWorks
<1>2. \A a \in Allocs : Begin(a) \in KnownWorks
  BY <1>1 DEF Begin, Works, KnownWorks, Idle
<1>3. \A a \in Allocs, n \in Nodes : Backfill(a, n) \in KnownWorks
  BY <1>1 DEF Works, KnownWorks, Backfill, Idle
<1> QED BY <1>1, <1>2, <1>3

\* The steps of a thread.
LEMMA ThreadTyped ==
    ASSUME Typed, NEW t \in Threads, ThreadStep(t)
    PROVE  Typed'
<1> DEFINE w == thread[t]
<1> USE DEF Typed, RowsTyped
<1>0. /\ w \in KnownWorks /\ w \in Works
      /\ t[1] \in Conductors
  BY DEF KnownWorks, Threads
<1>1. CASE ListCandidates(t)
  <2>1. PICK found \in SUBSET Nodes, p \in {"failed", "try"} :
          thread' = [thread EXCEPT ![t] = [w EXCEPT !.pc = p, !.todo = found, !.attempt = 1]]
    BY <1>1 DEF ListCandidates
  <2> HIDE DEF w
  <2>2. [w EXCEPT !.pc = p, !.todo = found, !.attempt = 1] \in KnownWorks
    BY <1>0, <1>1, Attempts DEF KnownWorks, Works, ListCandidates, w
  <2>3. thread' \in [Threads -> KnownWorks]
    BY <2>1, <2>2
  <2> QED BY <1>1, <2>3 DEF ListCandidates, OthersTyped
<1>2. ASSUME NEW n \in Nodes, TryNode(t, n) PROVE Typed'
  <2>1. PICK v \in KnownWorks : thread' = [thread EXCEPT ![t] = v]
    <3>1. /\ [w EXCEPT !.pc = "failed"] \in KnownWorks
          /\ [w EXCEPT !.todo = @ \ {n}, !.retry = @ \cup {n}] \in KnownWorks
          /\ [w EXCEPT !.todo = @ \ {n}] \in KnownWorks
          /\ [w EXCEPT !.pc = "locked", !.node = n] \in KnownWorks
      BY <1>0, <1>2 DEF KnownWorks, Works, TryNode
    <3> QED BY <1>2, <3>1 DEF TryNode
  <2>2. node' \in [Nodes -> NodeRows]
    <3>1. \/ node' = node
          \/ node' = [node EXCEPT ![n] = [node[n] EXCEPT !.lock = t[1]]]
      BY <1>2 DEF TryNode
    <3>2. node[n] \in NodeRows /\ t[1] \in Conductors \cup {None}
      BY <1>0
    <3>3. [node[n] EXCEPT !.lock = t[1]] \in NodeRows
      BY <3>2, NodeRowUpdates
    <3> QED BY <3>1, <3>3
  <2> QED BY <1>2, <2>1, <2>2 DEF TryNode, OthersTyped
<1>3. CASE NextAttempt(t)
  <2>1. PICK v \in KnownWorks : thread' = [thread EXCEPT ![t] = v]
    <3>1. w.attempt < MaxAttempts => w.attempt + 1 \in 0 .. MaxAttempts
      BY <1>0, Attempts DEF Works
    <3>2. w.attempt < MaxAttempts =>
            [w EXCEPT !.todo = w.retry, !.retry = {}, !.attempt = w.attempt + 1] \in KnownWorks
      BY <1>0, <1>3, <3>1 DEF KnownWorks, Works, NextAttempt
    <3>3. [w EXCEPT !.pc = "failed"] \in KnownWorks
      BY <1>0, <1>3 DEF KnownWorks, Works, NextAttempt
    <3> QED BY <1>3, <3>2, <3>3 DEF NextAttempt
  <2> QED BY <1>3, <2>1 DEF NextAttempt, OthersTyped
<1>4. CASE TryBackfill(t)
  <2>1. PICK p \in {"failed", "locked"} : thread' = [thread EXCEPT ![t] = [w EXCEPT !.pc = p]]
    BY <1>4 DEF TryBackfill
  <2>2. [w EXCEPT !.pc = p] \in KnownWorks
    BY <1>0, <1>4 DEF KnownWorks, Works, TryBackfill
  <2>3. node' \in [Nodes -> NodeRows]
    <3>1. node[w.node] \in NodeRows /\ t[1] \in Conductors \cup {None}
      BY <1>0, <1>4 DEF KnownWorks, TryBackfill
    <3>2. [node[w.node] EXCEPT !.lock = t[1]] \in NodeRows
      BY <3>1, NodeRowUpdates
    <3>3. \/ node' = node
          \/ node' = [node EXCEPT ![w.node] = [node[w.node] EXCEPT !.lock = t[1]]]
      BY <1>4 DEF TryBackfill
    <3> QED BY <3>2, <3>3
  <2> QED BY <1>4, <2>1, <2>2, <2>3 DEF TryBackfill, OthersTyped
<1>5. CASE SaveAllocation(t)
  <2> DEFINE a == w.on  n == w.node
  <2>0. a \in Allocs /\ n \in Nodes
    BY <1>0, <1>5 DEF SaveAllocation, KnownWorks
  <2>1. PICK v \in KnownWorks : thread' = [thread EXCEPT ![t] = v]
    <3>1. /\ [w EXCEPT !.pc = "failed"] \in KnownWorks
          /\ [w EXCEPT !.pc = "try", !.todo = @ \ {n}, !.node = None] \in KnownWorks
          /\ [w EXCEPT !.pc = "try", !.todo = @ \ {n}, !.retry = @ \cup {n},
                       !.node = None] \in KnownWorks
      BY <1>0, <1>5, <2>0 DEF KnownWorks, Works, SaveAllocation
    <3>2. AfterLink(t, n) \in KnownWorks
      BY <3>1, WorksTyped DEF AfterLink
    <3> QED BY <1>5, <3>1, <3>2 DEF SaveAllocation
  <2>2. node' \in [Nodes -> NodeRows]
    <3>1. PICK l \in {node[n].lock, None} :
            \/ node' = [node EXCEPT ![n] = [LinkedNode(a, n) EXCEPT !.lock = l]]
            \/ node' = [node EXCEPT ![n] = [node[n] EXCEPT !.lock = l]]
      <4>1. \/ node' = [node EXCEPT ![n] = IF LinkedNode(a, n).lock = t[1]
                                           THEN [LinkedNode(a, n) EXCEPT !.lock = None]
                                           ELSE LinkedNode(a, n)]
            \/ node' = [node EXCEPT ![n] = [node[n] EXCEPT !.lock = None]]
            \/ node' = [node EXCEPT ![n] = node[n]]
        BY <1>5 DEF SaveAllocation
      <4> HIDE DEF a, n
      <4>2. /\ LinkedNode(a, n) = [LinkedNode(a, n) EXCEPT !.lock = node[n].lock]
            /\ node[n] = [node[n] EXCEPT !.lock = node[n].lock]
        BY <2>0 DEF LinkedNode, NodeRows
      <4> QED BY <2>0, <4>1, <4>2
    <3>2. node[n] \in NodeRows /\ l \in Conductors \cup {None}
      BY <2>0 DEF NodeRows
    <3>3. LinkedNode(a, n) = [node[n] EXCEPT !.allocation = a, !.instance = a]
      BY DEF LinkedNode
    <3> HIDE DEF a, n
    <3>4. [node[n] EXCEPT !.lock = l] \in NodeRows
      BY <3>2, NodeRowUpdates
    <3>5. [LinkedNode(a, n) EXCEPT !.lock = l] \in NodeRows
      <4>1. [LinkedNode(a, n) EXCEPT !.lock = l]
              = [node[n] EXCEPT !.allocation = a, !.instance = a, !.lock = l]
        BY <3>2, <3>3 DEF NodeRows
      <4> QED BY <2>0, <3>2, <4>1, NodeRowUpdates
    <3> QED BY <2>0, <3>1, <3>4, <3>5
  <2>3. alloc' \in [Allocs -> AllocRows]
    BY <1>5, <2>0 DEF SaveAllocation, AllocRows
  <2> QED BY <1>5, <2>1, <2>2, <2>3 DEF SaveAllocation, OthersTyped
<1>6. CASE FailAllocation(t)
  <2>1. w.on \in Allocs
    BY <1>0, <1>6 DEF FailAllocation, KnownWorks
  <2> QED BY <1>6, <2>1, TablesTyped, WorksTyped DEF FailAllocation, OthersTyped
<1> QED BY <1>1, <1>2, <1>3, <1>4, <1>5, <1>6 DEF ThreadStep

LEMMA RequestsTyped ==
    ASSUME Typed, Requests
    PROVE  Typed'
<1> USE DEF Typed, RowsTyped
<1>1. ASSUME NEW c \in Conductors, NEW a \in Allocs, CreateAllocation(c, a)
      PROVE  Typed'
  BY <1>1, TablesTyped, WorksTyped DEF CreateAllocation, OthersTyped
<1>2. ASSUME NEW c \in Conductors, NEW a \in Allocs, NEW n \in Nodes, CreateBackfill(c, a, n)
      PROVE  Typed'
  <2>1. thread' = [thread EXCEPT ![<<c, "request">>] = Backfill(a, n)]
    BY <1>2 DEF CreateBackfill, Backfill
  <2>2. thread' \in [Threads -> KnownWorks]
    BY <2>1, WorksTyped
  <2>3. alloc' \in [Allocs -> AllocRows]
    BY <1>2, TablesTyped DEF CreateBackfill
  <2> QED BY <1>2, <2>2, <2>3 DEF CreateBackfill, OthersTyped
<1>3. ASSUME NEW a \in Allocs, RequestDestroy(a) PROVE Typed'
  BY <1>3, EventTyped DEF RequestDestroy, OthersTyped, AllocRows
<1>4. ASSUME NEW c \in Conductors, NEW r \in requests, HandleDestroy(c, r) PROVE Typed'
  <2>1. r[1] \in Allocs
    BY DEF OthersTyped
  <2> QED BY <1>4, <2>1, TablesTyped DEF HandleDestroy, OthersTyped
<1> QED BY <1>1, <1>2, <1>3, <1>4 DEF Requests

LEMMA NodesTyped ==
    ASSUME Typed, NEW n \in Nodes, NodeStep(n)
    PROVE  Typed'
<1> USE DEF Typed, RowsTyped
<1>0. /\ node[n] \in NodeRows /\ tearing[n] \in Tears
      /\ node[n].allocation # None => node[n].allocation \in Allocs
      /\ tearing[n].alloc # None => tearing[n].alloc \in Allocs
  BY DEF NodeRows, Tears
<1>1. ASSUME NEW i \in Allocs \cup {Other}, SetInstance(n, i) PROVE Typed'
  BY <1>1, EventTyped DEF SetInstance, OthersTyped, NodeRows
<1>2. CASE RemoveInstance(n)
  <2> DEFINE a == node[n].allocation
  <2>1. CASE a = None
    BY <1>2, <2>1, EventTyped DEF RemoveInstance, OthersTyped, NodeRows
  <2>2. CASE a # None
    <3>1. Unlinked(a) \in [Nodes -> NodeRows] /\ DestroyedRow(a) \in [Allocs -> AllocRows]
      BY <1>0, <2>2, TablesTyped
    <3>2. [Unlinked(a) EXCEPT ![n].instance = None] \in [Nodes -> NodeRows]
      <4>1. [Unlinked(a)[n] EXCEPT !.instance = None] \in NodeRows
        BY <3>1, NodeRowUpdates
      <4> QED BY <3>1, <4>1
    <3> QED BY <1>2, <2>2, <3>1, <3>2, EventTyped DEF RemoveInstance, OthersTyped
  <2> QED BY <2>1, <2>2
<1>3. CASE DestroyNode(n)
  <2>1. alloc' \in [Allocs -> AllocRows]
    <3>1. \A a \in Allocs : DestroyedRow(a) \in [Allocs -> AllocRows]
      BY TablesTyped
    <3> QED BY <1>3, <3>1 DEF DestroyNode
  <2>2. node' \in [Nodes -> NodeRows]
    <3>1. [prov |-> "gone", instance |-> None, allocation |-> None, maintenance |-> FALSE,
           lock |-> None] \in NodeRows
      BY DEF NodeRows, Provs
    <3> QED BY <1>3, <3>1 DEF DestroyNode
  <2> QED BY <1>3, <2>1, <2>2, EventTyped DEF DestroyNode, OthersTyped
<1>4. CASE SetMaintenance(n)
  <2>1. [node[n] EXCEPT !.maintenance = ~ @] \in NodeRows
    BY <1>0 DEF NodeRows
  <2> QED BY <1>4, <2>1, EventTyped DEF SetMaintenance, OthersTyped
<1>5. CASE Deploy(n)
  BY <1>0, <1>5, NodeRowUpdates DEF Deploy, OthersTyped, Provs
<1>6. CASE DeployEnds(n)
  BY <1>0, <1>6, NodeRowUpdates DEF DeployEnds, OthersTyped, Provs
<1>7. ASSUME NEW c \in Conductors, TearDown(c, n) PROVE Typed'
  <2>1. node' = [node EXCEPT ![n] = [node[n] EXCEPT !.prov = "deleting", !.lock = c]]
    BY <1>7 DEF TearDown
  <2>2. node' \in [Nodes -> NodeRows]
    BY <1>0, <2>1, NodeRowUpdates DEF Provs
  <2>3. tearing' \in [Nodes -> Tears]
    BY <1>7 DEF TearDown, Tears
  <2> QED BY <1>7, <2>2, <2>3 DEF TearDown, OthersTyped
<1>8. CASE DropInstance(n)
  <2>1. node' \in [Nodes -> NodeRows]
    <3>1. \/ \E p \in {"deleting", "error"} :
               node' = [node EXCEPT ![n] = [node[n] EXCEPT !.prov = p, !.instance = None]]
          \/ \E l \in {node[n].lock, None}, i \in {None, node[n].instance} :
               node' = [node EXCEPT ![n] =
                          [node[n] EXCEPT !.prov = "error", !.instance = i, !.lock = l]]
      <4>1. CASE \E q \in {"deleting", "error"} :
                   node' = [node EXCEPT ![n].prov = q, ![n].instance = None]
        BY <4>1
      <4>2. ASSUME NEW i \in {None, node[n].instance},
                   node' = [node EXCEPT ![n].prov = "error", ![n].instance = i,
                              ![n].lock = IF @ = tearing[n].by THEN None ELSE @]
            PROVE  \E l \in {node[n].lock, None} :
                     node' = [node EXCEPT ![n] =
                                [node[n] EXCEPT !.prov = "error", !.instance = i, !.lock = l]]
        <5>1. CASE node[n].lock = tearing[n].by
          BY <4>2, <5>1
        <5>2. CASE node[n].lock # tearing[n].by
          BY <4>2, <5>2
        <5> QED BY <5>1, <5>2
      <4> QED BY <1>8, <4>1, <4>2 DEF DropInstance
    <3>2. /\ node[n].lock \in Conductors \cup {None}
          /\ node[n].instance \in Allocs \cup {None, Other}
      BY <1>0 DEF NodeRows
    <3>3. \A p \in {"deleting", "error"} :
             [node[n] EXCEPT !.prov = p, !.instance = None] \in NodeRows
      BY <1>0, NodeRowUpdates DEF Provs
    <3>4. \A l \in {node[n].lock, None}, i \in {None, node[n].instance} :
             [node[n] EXCEPT !.prov = "error", !.instance = i, !.lock = l] \in NodeRows
      BY <1>0, <3>2, NodeRowUpdates DEF Provs
    <3> QED BY <3>1, <3>3, <3>4
  <2>2. tearing' \in [Nodes -> Tears]
    <3>1. node[n].allocation \in Allocs \cup {None}
      BY <1>0 DEF NodeRows
    <3>2. [tearing[n] EXCEPT !.pc = "saved", !.alloc = node[n].allocation] \in Tears
      BY <1>0, <3>1 DEF Tears
    <3>3. [tearing[n] EXCEPT !.pc = "no", !.by = None] \in Tears
      BY <1>0 DEF Tears
    <3>4. \/ tearing' = [tearing EXCEPT ![n] =
                 [tearing[n] EXCEPT !.pc = "saved", !.alloc = node[n].allocation]]
          \/ tearing' = [tearing EXCEPT ![n] = [tearing[n] EXCEPT !.pc = "no", !.by = None]]
      BY <1>8 DEF DropInstance
    <3> QED BY <3>2, <3>3, <3>4
  <2> QED BY <1>8, <2>1, <2>2 DEF DropInstance, OthersTyped
<1>9. CASE FinishTearDown(n)
  <2> DEFINE a == tearing[n].alloc
             found == a # None /\ Exists(a)
             rows == IF found THEN Unlinked(a) ELSE node
  <2>1. rows \in [Nodes -> NodeRows] /\ alloc' \in [Allocs -> AllocRows]
    BY <1>0, <1>9, TablesTyped DEF FinishTearDown
  <2> HIDE DEF rows, found
  <2>2. node' \in [Nodes -> NodeRows]
    <3>1. PICK p \in {rows[n].prov, "cleaning"}, l \in {rows[n].lock, None} :
            node' = [rows EXCEPT ![n].prov = p, ![n].lock = l]
      BY <1>9, <2>1 DEF FinishTearDown, rows, found, NodeRows
    <3>2. /\ node' = [rows EXCEPT ![n] = [rows[n] EXCEPT !.prov = p, !.lock = l]]
          /\ p \in Provs /\ l \in Conductors \cup {None}
      <4>1. /\ rows[n].prov \in Provs /\ "cleaning" \in Provs
            /\ rows[n].lock \in Conductors \cup {None}
        BY <2>1 DEF NodeRows, Provs
      <4> QED BY <3>1, <4>1
    <3>3. [rows[n] EXCEPT !.prov = p, !.lock = l] \in NodeRows
      BY <2>1, <3>2, NodeRowUpdates
    <3> QED BY <2>1, <3>2, <3>3
  <2>3. tearing' \in [Nodes -> Tears]
    BY <1>9 DEF FinishTearDown, Tears
  <2> QED BY <1>9, <2>1, <2>2, <2>3 DEF FinishTearDown, OthersTyped
<1>10. CASE CleaningEnds(n)
  BY <1>0, <1>10, NodeRowUpdates DEF CleaningEnds, OthersTyped, Provs
<1>11. CASE RemoveLock(n)
  BY <1>11 DEF RemoveLock, OthersTyped, NodeRows
<1> QED BY <1>1, <1>2, <1>3, <1>4, <1>5, <1>6, <1>7, <1>8, <1>9, <1>10, <1>11 DEF NodeStep

\* What a conductor that starts does to a node.
LEMMA StartRow ==
    ASSUME RowsTyped, NEW c \in Conductors, Start(c), NEW n \in Nodes
    PROVE  \E l \in Conductors \cup {None}, p \in Provs :
             /\ node'[n] = [node[n] EXCEPT !.lock = l, !.prov = p]
             /\ l = IF node[n].lock = c THEN None ELSE node[n].lock
             /\ p # node[n].prov => node[n].prov = "deleting" /\ p = "error" /\ l = None
<1> DEFINE lock == IF node[n].lock = c THEN None ELSE node[n].lock
<1>1. /\ node[n] \in NodeRows /\ lock \in Conductors \cup {None}
      /\ node[n].prov \in Provs /\ "error" \in Provs
  BY DEF RowsTyped, NodeRows, Provs
<1>2. PICK reached \in SUBSET Nodes :
        node' = [m \in Nodes |->
                   LET l == IF node[m].lock = c THEN None ELSE node[m].lock
                   IN  [node[m] EXCEPT !.lock = l,
                          !.prov = IF m \in reached /\ l = None /\ @ = "deleting"
                                   THEN "error" ELSE @]]
  BY DEF Start
<1>3. node'[n] = [node[n] EXCEPT !.lock = lock,
                    !.prov = IF n \in reached /\ lock = None /\ @ = "deleting"
                             THEN "error" ELSE @]
  BY <1>2
<1> HIDE DEF lock
<1>4. CASE n \in reached /\ lock = None /\ node[n].prov = "deleting"
  <2>1. node'[n] = [node[n] EXCEPT !.lock = lock, !.prov = "error"]
    BY <1>1, <1>3, <1>4 DEF NodeRows
  <2> QED BY <1>1, <1>4, <2>1 DEF lock
<1>5. CASE ~ (n \in reached /\ lock = None /\ node[n].prov = "deleting")
  <2>1. node'[n] = [node[n] EXCEPT !.lock = lock, !.prov = node[n].prov]
    BY <1>1, <1>3, <1>5 DEF NodeRows
  <2> QED BY <1>1, <2>1 DEF lock
<1> QED BY <1>4, <1>5

LEMMA StartKeeps ==
    ASSUME RowsTyped, NEW c \in Conductors, Start(c), NEW n \in Nodes
    PROVE  /\ node'[n] \in NodeRows
           /\ node'[n].allocation = node[n].allocation /\ node'[n].instance = node[n].instance
           /\ node'[n].lock = IF node[n].lock = c THEN None ELSE node[n].lock
           /\ node[n].lock \notin {c, None} => node'[n].prov = node[n].prov
           /\ node'[n].prov # node[n].prov => node[n].prov = "deleting" /\ node'[n].prov = "error"
<1>1. node[n] \in NodeRows
  BY DEF RowsTyped
<1>2. PICK l \in Conductors \cup {None}, p \in Provs :
        /\ node'[n] = [node[n] EXCEPT !.lock = l, !.prov = p]
        /\ l = IF node[n].lock = c THEN None ELSE node[n].lock
        /\ p # node[n].prov => node[n].prov = "deleting" /\ p = "error" /\ l = None
  BY StartRow
<1>3. ASSUME NEW r \in NodeRows
      PROVE  /\ [r EXCEPT !.lock = l, !.prov = p] \in NodeRows
             /\ [r EXCEPT !.lock = l, !.prov = p].allocation = r.allocation
             /\ [r EXCEPT !.lock = l, !.prov = p].instance = r.instance
             /\ [r EXCEPT !.lock = l, !.prov = p].lock = l
             /\ [r EXCEPT !.lock = l, !.prov = p].prov = p
  BY DEF NodeRows
<1> QED BY <1>1, <1>2, <1>3

LEMMA ConductorsTyped ==
    ASSUME Typed, NEW c \in Conductors, ConductorStep(c)
    PROVE  Typed'
<1> USE DEF Typed, RowsTyped
<1>1. CASE Crash(c)
  <2>1. thread' \in [Threads -> KnownWorks]
    BY <1>1, WorksTyped DEF Crash
  <2>2. queue' \in [Conductors -> Queues] /\ tearing' \in [Nodes -> Tears]
    BY <1>1 DEF Crash, Queues, Tears
  <2> QED BY <1>1, <2>1, <2>2, EventTyped DEF Crash, OthersTyped
<1>2. CASE GoOffline(c)
  BY <1>2, EventTyped DEF GoOffline, OthersTyped
<1>3. CASE Beat(c)
  BY <1>3 DEF Beat, OthersTyped
<1>4. CASE Start(c)
  <2>1. node' \in [Nodes -> NodeRows]
    <3>1. \A m \in Nodes : node'[m] \in NodeRows
      BY <1>4, StartKeeps
    <3>2. DOMAIN node' = Nodes /\ node' = [m \in Nodes |-> node'[m]]
      BY <1>4 DEF Start
    <3> QED BY <3>1, <3>2
  <2> QED BY <1>4, <2>1 DEF Start, OthersTyped
<1>5. ASSUME NEW a \in Allocs, ResumeNext(c, a) PROVE Typed'
  <2>1. thread' \in [Threads -> KnownWorks]
    BY <1>5, WorksTyped DEF ResumeNext
  <2>2. queue' \in [Conductors -> Queues]
    BY <1>5 DEF ResumeNext, Queues
  <2> QED BY <1>5, <2>1, <2>2 DEF ResumeNext, OthersTyped
<1>6. CASE ListOrphans(c)
  BY <1>6 DEF ListOrphans, OthersTyped, Queues
<1>7. ASSUME NEW a \in Allocs, NEW old \in Conductors, TakeOver(c, a, old) PROVE Typed'
  <2>1. alloc' \in [Allocs -> AllocRows]
    BY <1>7 DEF TakeOver, AllocRows
  <2>2. queue' \in [Conductors -> Queues]
    BY <1>7 DEF TakeOver, Queues
  <2>3. thread' \in [Threads -> KnownWorks]
    BY <1>7, WorksTyped DEF TakeOver
  <2> QED BY <1>7, <2>1, <2>2, <2>3 DEF TakeOver, OthersTyped
<1>8. CASE ListResume(c)
  <2>1. queue' \in [Conductors -> Queues]
    BY <1>8 DEF ListResume, Queues
  <2> QED BY <1>8, <2>1 DEF ListResume, OthersTyped
<1> QED BY <1>1, <1>2, <1>3, <1>4, <1>5, <1>6, <1>7, <1>8 DEF ConductorStep, Recovery

LEMMA StartsTyped == Init => Typed
<1> SUFFICES ASSUME Init PROVE Typed
  OBVIOUS
<1>1. thread \in [Threads -> KnownWorks]
  BY WorksTyped DEF Init
<1>2. events \in 0 .. MaxEvents
  BY AllocationAssumptions DEF Init
<1> QED
  BY <1>1, <1>2 DEF Init, Typed, RowsTyped, OthersTyped, AllocRows, NodeRows, Provs, Queues, Tears

\* Rows, queues and what threads know keep their types, and a thread with a
\* lock knows the node that it has locked, whatever goes wrong.
LEMMA StaysTyped == Spec => []Typed
<1>1. Typed /\ [Next]_vars => Typed'
  <2> SUFFICES ASSUME Typed, [Next]_vars PROVE Typed'
    OBVIOUS
  <2>1. CASE UNCHANGED vars
    BY <2>1 DEF vars, Typed, RowsTyped, OthersTyped
  <2>2. CASE Next
    BY <2>2, ThreadTyped, RequestsTyped, NodesTyped, ConductorsTyped DEF Next
  <2> QED BY <2>1, <2>2
<1> QED BY <1>1, StartsTyped, PTL DEF Spec

\* Type correctness for any number of conductors, nodes and allocations.
THEOREM TypeCorrect == Spec => []TypeOK
BY StaysTyped, TypeParts, PTL
-----------------------------------------------------------------------------
(* No node is given away. *)

Kept == \A n \in Nodes : node[n].instance # None
                         => node'[n].instance \in {node[n].instance, None}

LEMMA UnlinkedKeeps ==
    ASSUME RowsTyped, NEW a, NEW n \in Nodes
    PROVE  /\ Unlinked(a)[n].instance \in {node[n].instance, None}
           /\ Unlinked(a)[n].prov = node[n].prov
           /\ Unlinked(a)[n].lock = node[n].lock
           /\ Unlinked(a)[n].maintenance = node[n].maintenance
           /\ Unlinked(a)[n].allocation \in {node[n].allocation, None}
           /\ node[n].allocation = a =>
                Unlinked(a)[n].allocation = None /\ Unlinked(a)[n].instance = None
           /\ node[n].allocation # a => Unlinked(a)[n] = node[n]
BY DEF Unlinked, RowsTyped, NodeRows

LEMMA StepsKeep ==
    ASSUME Typed, Next
    PROVE  Kept
<1> USE DEF Typed, RowsTyped
<1>0. CASE UNCHANGED node
  BY <1>0 DEF Kept
<1>1. ASSUME NEW t \in Threads, ThreadStep(t) PROVE Kept
  <2>1. ASSUME NEW n \in Nodes, TryNode(t, n) PROVE Kept
    BY <2>1 DEF TryNode, Kept, NodeRows
  <2>2. CASE TryBackfill(t)
    BY <2>2 DEF TryBackfill, Kept, NodeRows
  <2>3. CASE SaveAllocation(t)
    <3> DEFINE a == thread[t].on  n == thread[t].node
    <3>1. PICK l \in {node[n].lock, None} :
            \/ Links(a, n) /\ node' = [node EXCEPT ![n] = [LinkedNode(a, n) EXCEPT !.lock = l]]
            \/ node' = [node EXCEPT ![n] = [node[n] EXCEPT !.lock = l]]
      <4>1. n \in Nodes
        BY <2>3 DEF SaveAllocation, KnownWorks
      <4>2. \/ /\ Links(a, n)
               /\ node' = [node EXCEPT ![n] = IF LinkedNode(a, n).lock = t[1]
                                              THEN [LinkedNode(a, n) EXCEPT !.lock = None]
                                              ELSE LinkedNode(a, n)]
            \/ node' = [node EXCEPT ![n] = [node[n] EXCEPT !.lock = None]]
            \/ node' = [node EXCEPT ![n] = node[n]]
        BY <2>3 DEF SaveAllocation
      <4> HIDE DEF a, n
      <4>3. /\ LinkedNode(a, n) = [LinkedNode(a, n) EXCEPT !.lock = node[n].lock]
            /\ node[n] = [node[n] EXCEPT !.lock = node[n].lock]
        BY <4>1 DEF LinkedNode, NodeRows
      <4> QED BY <4>1, <4>2, <4>3
    <3> HIDE DEF a, n
    <3>2. CASE node' = [node EXCEPT ![n] = [node[n] EXCEPT !.lock = l]]
      BY <3>2 DEF Kept, NodeRows
    <3>3. CASE Links(a, n) /\ node' = [node EXCEPT ![n] = [LinkedNode(a, n) EXCEPT !.lock = l]]
      BY <3>3 DEF Kept, NodeRows, Links, Associated, LinkedNode
    <3> QED BY <3>1, <3>2, <3>3
  <2>4. ASSUME \/ ListCandidates(t) \/ NextAttempt(t) \/ FailAllocation(t) PROVE UNCHANGED node
    BY <2>4 DEF ListCandidates, NextAttempt, FailAllocation
  <2> QED BY <1>0, <1>1, <2>1, <2>2, <2>3, <2>4 DEF ThreadStep
<1>2. ASSUME Requests PROVE Kept
  <2>1. ASSUME NEW c \in Conductors, NEW r \in requests, HandleDestroy(c, r) PROVE Kept
    BY <2>1, UnlinkedKeeps DEF HandleDestroy, Kept
  <2>2. ASSUME NEW c \in Conductors, NEW a \in Allocs,
               \/ CreateAllocation(c, a)
               \/ \E n \in Nodes : CreateBackfill(c, a, n)
               \/ RequestDestroy(a)
        PROVE  UNCHANGED node
    BY <2>2 DEF CreateAllocation, CreateBackfill, RequestDestroy
  <2>3. ASSUME NEW a \in Allocs, RequestDestroy(a) PROVE UNCHANGED node
    BY <2>3 DEF RequestDestroy
  <2> QED BY <1>0, <1>2, <2>1, <2>2, <2>3 DEF Requests
<1>3. ASSUME NEW n \in Nodes, NodeStep(n) PROVE Kept
  <2>1. ASSUME NEW i \in Allocs \cup {Other}, SetInstance(n, i) PROVE Kept
    BY <2>1 DEF SetInstance, Kept, NodeRows
  <2>2. CASE RemoveInstance(n)
    <3> DEFINE a == node[n].allocation
    <3>1. CASE a # None
      <4>1. Unlinked(a) \in [Nodes -> NodeRows]
        <5>1. a \in Allocs
          BY <3>1 DEF NodeRows
        <5> QED BY <5>1, TablesTyped
      <4>2. \A m \in Nodes : node'[m].instance \in {Unlinked(a)[m].instance, None}
        BY <2>2, <3>1, <4>1 DEF RemoveInstance, NodeRows
      <4> QED BY <4>2, UnlinkedKeeps DEF Kept
    <3>2. CASE a = None
      BY <2>2, <3>2 DEF RemoveInstance, Kept, NodeRows
    <3> QED BY <3>1, <3>2
  <2>3. CASE DestroyNode(n)
    BY <2>3 DEF DestroyNode, Kept
  <2>4. CASE SetMaintenance(n) \/ Deploy(n) \/ DeployEnds(n) \/ CleaningEnds(n) \/ RemoveLock(n)
    <3>1. \/ \E b : node' = [node EXCEPT ![n] = [node[n] EXCEPT !.maintenance = b]]
          \/ \E q : node' = [node EXCEPT ![n] = [node[n] EXCEPT !.prov = q]]
          \/ node' = [node EXCEPT ![n] = [node[n] EXCEPT !.lock = None]]
      BY <2>4 DEF SetMaintenance, Deploy, DeployEnds, CleaningEnds, RemoveLock
    <3> QED BY <3>1 DEF Kept, NodeRows
  <2>5. ASSUME NEW c \in Conductors, TearDown(c, n) PROVE Kept
    BY <2>5 DEF TearDown, Kept, NodeRows
  <2>6. CASE DropInstance(n)
    BY <2>6 DEF DropInstance, Kept, NodeRows
  <2>7. CASE FinishTearDown(n)
    <3> DEFINE rows == IF tearing[n].alloc # None /\ Exists(tearing[n].alloc)
                       THEN Unlinked(tearing[n].alloc) ELSE node
    <3>1. rows \in [Nodes -> NodeRows]
      <4>1. tearing[n].alloc # None => tearing[n].alloc \in Allocs
        BY DEF Tears
      <4> QED BY <4>1, TablesTyped
    <3>2. \A m \in Nodes : node'[m].instance = rows[m].instance
      BY <2>7, <3>1 DEF FinishTearDown, NodeRows
    <3> QED BY <3>1, <3>2, UnlinkedKeeps DEF Kept
  <2> QED BY <1>3, <2>1, <2>2, <2>3, <2>4, <2>5, <2>6, <2>7 DEF NodeStep
<1>4. ASSUME NEW c \in Conductors, ConductorStep(c) PROVE Kept
  <2>1. CASE Start(c)
    BY <2>1, StartKeeps DEF Kept
  <2>2. CASE Crash(c) \/ GoOffline(c) \/ Beat(c) \/ Recovery(c)
    BY <1>0, <2>2 DEF Crash, GoOffline, Beat, Recovery, ListResume, ResumeNext, ListOrphans,
                      TakeOver
  <2> QED BY <1>4, <2>1, <2>2 DEF ConductorStep
<1> QED BY <1>1, <1>2, <1>3, <1>4 DEF Next

\* No node is given away under its instance, whatever goes wrong: stale
\* requests, lapses and restarts included.
THEOREM NodesAreNotGivenAway == Spec => NeverGivenAway
<1>1. Typed /\ [Next]_vars =>
        [\A n \in Nodes : node[n].instance # None
                          => node'[n].instance \in {node[n].instance, None}]_vars
  BY StepsKeep DEF Kept
<1> QED BY <1>1, StaysTyped, PTL DEF Spec, NeverGivenAway
-----------------------------------------------------------------------------
(* What disturbs the discipline: each part has its frame. *)

LEMMA WorkFrame ==
    ASSUME Typed, WorkDiscipline, UNCHANGED <<thread, queue, up, online, starting>>,
           \A a \in Allocs : /\ alloc'[a].affinity = alloc[a].affinity
                             /\ Undecided(a) => Undecided(a)'
    PROVE  WorkDiscipline'
<1>1. \A t \in Threads : Busy(t) => thread[t].on \in Allocs
  BY DEF Typed, RowsTyped, KnownWorks, Busy
<1>2. LooksAlive' /\ OneThreadPerAllocation'
  BY DEF WorkDiscipline, LooksAlive, OneThreadPerAllocation
<1>3. ThreadsOwn'
  BY <1>1 DEF WorkDiscipline, ThreadsOwn, Busy
<1>4. ResumeWaits'
  BY DEF WorkDiscipline, ResumeWaits, Busy
<1>5. OrphansWait'
  BY DEF WorkDiscipline, OrphansWait
<1>6. StartsIdle'
  BY DEF WorkDiscipline, StartsIdle, Busy
<1> QED BY <1>2, <1>3, <1>4, <1>5, <1>6 DEF WorkDiscipline

\* The locks of conductors that run.
LEMMA LockFrame ==
    ASSUME Typed, LockDiscipline, UNCHANGED <<thread, tearing>>, up \subseteq up',
           \A n \in Nodes :
             /\ node[n].lock \in up => node'[n].lock = node[n].lock
                                       /\ node'[n].prov = node[n].prov
             /\ \/ node'[n].allocation = node[n].allocation
                \/ /\ node'[n].allocation = None
                   /\ node[n].allocation \in Allocs
                        => alloc'[node[n].allocation].state = "gone",
           \A a \in Allocs : alloc[a].state = "gone" => alloc'[a].state = "gone"
    PROVE  LockDiscipline'
<1>1. \A t \in Threads : thread[t].pc = "locked" => thread[t].node \in Nodes
  BY DEF Typed, RowsTyped, KnownWorks
<1>2. LocksHeld' /\ LocksAreOwn'
  BY <1>1 DEF LockDiscipline, LocksHeld, LocksAreOwn
<1>3. TearsHeld'
  BY DEF LockDiscipline, TearsHeld
<1>4. TearsKnow'
  <2> SUFFICES ASSUME NEW n \in Nodes, tearing[n].pc = "saved"
               PROVE  /\ node'[n].allocation \in {None, tearing[n].alloc}
                      /\ tearing[n].alloc # None =>
                           \/ node'[n].allocation = tearing[n].alloc
                           \/ alloc'[tearing[n].alloc].state = "gone"
    BY DEF TearsKnow
  <2>1. tearing[n].alloc # None => tearing[n].alloc \in Allocs
    BY DEF Typed, RowsTyped, Tears
  <2> QED BY <2>1 DEF LockDiscipline, TearsKnow
<1> QED BY <1>2, <1>3, <1>4 DEF LockDiscipline

LEMMA LinkFrame ==
    ASSUME LinkDiscipline,
           \A n \in Nodes : /\ node'[n].allocation = node[n].allocation
                            /\ node'[n].prov \notin Torn /\ node[n].allocation # None
                               => node[n].prov \notin Torn
                                  /\ node'[n].instance = node[n].instance,
           \A a \in Allocs : /\ alloc'[a].node = alloc[a].node
                             /\ alloc'[a].state = "active" <=> alloc[a].state = "active"
    PROVE  LinkDiscipline'
<1>1. LinksAgree'
  BY DEF LinkDiscipline, LinksAgree
<1>2. LinkedIsActive'
  BY DEF LinkDiscipline, LinkedIsActive
<1>3. InstanceKept'
  BY DEF LinkDiscipline, InstanceKept
<1> QED BY <1>1, <1>2, <1>3 DEF LinkDiscipline

\* The removal of an allocation takes its link away.
LEMMA LinkRemoved ==
    ASSUME Typed, LinkDiscipline, NEW a \in Allocs, alloc' = DestroyedRow(a),
           \A n \in Nodes :
             /\ node'[n].allocation = Unlinked(a)[n].allocation
             /\ node'[n].prov \notin Torn /\ node'[n].allocation # None
                => node[n].prov \notin Torn
                   /\ node'[n].instance = Unlinked(a)[n].instance
    PROVE  LinkDiscipline'
<1> USE DEF Typed, RowsTyped
<1>1. /\ alloc'[a].state = "gone" /\ alloc'[a].node = None
      /\ \A b \in Allocs \ {a} : alloc'[b] = alloc[b]
  BY DEF DestroyedRow, AllocRows
<1>2. \A n \in Nodes : node'[n].allocation =
                         IF node[n].allocation = a THEN None ELSE node[n].allocation
  BY UnlinkedKeeps
<1>3. LinksAgree'
  BY <1>1, <1>2, AllocationAssumptions DEF LinkDiscipline, LinksAgree
<1>4. LinkedIsActive'
  BY <1>1 DEF LinkDiscipline, LinkedIsActive
<1>5. InstanceKept'
  BY <1>2, UnlinkedKeeps DEF LinkDiscipline, InstanceKept
<1> QED BY <1>3, <1>4, <1>5 DEF LinkDiscipline

\* A free node is not locked by a thread and not torn down.
LEMMA FreeNodes ==
    ASSUME Typed, LockDiscipline, NEW n \in Nodes, node[n].lock = None
    PROVE  /\ \A t \in Threads : thread[t].pc = "locked" => thread[t].node # n
           /\ tearing[n].pc = "no"
           /\ node[n].lock \notin up
BY AllocationAssumptions DEF Typed, OthersTyped, LockDiscipline, LocksHeld, TearsHeld, Threads

\* Destroying a row disturbs no thread.
LEMMA DestroyedWork ==
    ASSUME Typed, NEW a \in Allocs, alloc' = DestroyedRow(a)
    PROVE  /\ \A b \in Allocs : /\ alloc'[b].affinity = alloc[b].affinity
                                /\ Undecided(b) => Undecided(b)'
                                /\ alloc[b].state = "gone" => alloc'[b].state = "gone"
           /\ alloc'[a].state = "gone"
BY DEF Typed, RowsTyped, AllocRows, DestroyedRow, Undecided

\* Steps that only change one row of a node, and not its link.
LEMMA RowStep ==
    ASSUME Typed, Discipline, NEW n \in Nodes, NEW r \in NodeRows,
           UNCHANGED <<alloc, up, online, starting, thread, queue>>,
           node' = [node EXCEPT ![n] = r],
           node[n].lock \notin up, UNCHANGED tearing,
           r.allocation = node[n].allocation,
           r.prov \notin Torn /\ r.allocation # None
             => node[n].prov \notin Torn /\ r.instance = node[n].instance
    PROVE  Discipline'
<1> USE DEF Typed, RowsTyped
<1>1. /\ node'[n] = r
      /\ \A m \in Nodes \ {n} : node'[m] = node[m]
  OBVIOUS
<1>2. WorkDiscipline'
  BY WorkFrame DEF Discipline, Undecided
<1>3. LockDiscipline'
  BY <1>1, LockFrame DEF Discipline
<1>4. LinkDiscipline'
  BY <1>1, LinkFrame DEF Discipline
<1> QED BY <1>2, <1>3, <1>4 DEF Discipline

LEMMA NodesDiscipline ==
    ASSUME Orderly, Typed, Discipline, NEW n \in Nodes, NodeStep(n)
    PROVE  Discipline'
<1> USE DEF Typed, RowsTyped
<1>0. /\ node[n] \in NodeRows /\ tearing[n] \in Tears /\ None \notin up
      /\ node[n].allocation # None => node[n].allocation \in Allocs
      /\ tearing[n].alloc # None => tearing[n].alloc \in Allocs
  BY AllocationAssumptions DEF NodeRows, Tears, OthersTyped
<1>1. ASSUME NEW i \in Allocs \cup {Other}, SetInstance(n, i) PROVE Discipline'
  <2> DEFINE r == [node[n] EXCEPT !.instance = i]
  <2>1. r \in NodeRows
    BY <1>0, NodeRowUpdates
  <2>2. node[n].prov \notin Torn => node[n].allocation = None
    BY <1>1 DEF SetInstance, Discipline, LinkDiscipline, InstanceKept
  <2>3. r.allocation = node[n].allocation /\ r.prov = node[n].prov
    BY <1>0 DEF NodeRows
  <2> QED BY <1>0, <1>1, <2>1, <2>2, <2>3, RowStep DEF SetInstance
<1>2. CASE RemoveInstance(n)
  <2> DEFINE a == node[n].allocation
  <2>1. CASE a = None
    <3> DEFINE r == [node[n] EXCEPT !.instance = None]
    <3>1. r \in NodeRows /\ r.allocation = a /\ r.prov = node[n].prov
      BY <1>0, NodeRowUpdates, NodeRowKeeps
    <3> QED BY <1>0, <1>2, <2>1, <3>1, RowStep DEF RemoveInstance
  <2>2. CASE a # None
    <3>1. Unlinked(a) \in [Nodes -> NodeRows] /\ a \in Allocs
      BY <1>0, <2>2, TablesTyped
    <3>2. /\ alloc' = DestroyedRow(a) /\ UNCHANGED <<up, online, starting, thread, queue, tearing>>
          /\ node[n].lock = None
          /\ node' = [Unlinked(a) EXCEPT ![n].instance = None]
      BY <1>2, <2>2 DEF RemoveInstance
    <3>3. \A m \in Nodes : node'[m] = Unlinked(a)[m]
      <4>1. Unlinked(a)[n].instance = None
        BY UnlinkedKeeps
      <4>2. Unlinked(a)[n] = [Unlinked(a)[n] EXCEPT !.instance = None]
        BY <3>1, <4>1 DEF NodeRows
      <4> HIDE DEF a
      <4> QED BY <3>1, <3>2, <4>2
    <3> HIDE DEF a
    <3>4. WorkDiscipline'
      BY <3>1, <3>2, DestroyedWork, WorkFrame DEF Discipline
    <3>5. LockDiscipline'
      BY <3>1, <3>2, <3>3, DestroyedWork, UnlinkedKeeps, LockFrame DEF Discipline
    <3>6. LinkDiscipline'
      <4>1. \A m \in Nodes : /\ node'[m].allocation = Unlinked(a)[m].allocation
                             /\ node'[m].instance = Unlinked(a)[m].instance
                             /\ node'[m].prov = node[m].prov
        BY <3>3, UnlinkedKeeps
      <4> QED BY <3>1, <3>2, <4>1, LinkRemoved DEF Discipline
    <3> QED BY <3>4, <3>5, <3>6 DEF Discipline
  <2> QED BY <2>1, <2>2
<1>3. CASE DestroyNode(n)
  <2>1. \A a \in Allocs :
          /\ alloc[a].node # n => alloc'[a] = alloc[a]
          /\ alloc[a].node = n => /\ alloc'[a].state = "gone" /\ alloc'[a].node = None
                                  /\ alloc'[a].affinity = alloc[a].affinity
    <3>1. \A a \in Allocs : /\ DestroyedRow(a)[a].state = "gone" /\ DestroyedRow(a)[a].node = None
                            /\ DestroyedRow(a)[a].affinity = alloc[a].affinity
      BY DEF DestroyedRow, AllocRows
    <3> QED BY <1>3, <3>1 DEF DestroyNode
  <2>2. /\ node'[n].allocation = None
        /\ \A m \in Nodes \ {n} : node'[m] = node[m]
    BY <1>3 DEF DestroyNode
  <2>3. node[n].lock = None /\ UNCHANGED <<up, online, starting, thread, queue, tearing>>
    BY <1>3 DEF DestroyNode
  <2>4. \A a \in Allocs : node[n].allocation = a => alloc[a].node = n
    BY DEF Discipline, LinkDiscipline, LinksAgree
  <2>5. WorkDiscipline'
    BY <2>1, <2>3, WorkFrame DEF Discipline, Undecided
  <2>6. LockDiscipline'
    BY <1>0, <2>1, <2>2, <2>3, <2>4, LockFrame DEF Discipline
  <2>7. LinksAgree'
    BY <2>1, <2>2, AllocationAssumptions DEF Discipline, LinkDiscipline, LinksAgree
  <2>8. LinkedIsActive' /\ InstanceKept'
    BY <2>1, <2>2 DEF Discipline, LinkDiscipline, LinkedIsActive, InstanceKept
  <2> QED BY <2>5, <2>6, <2>7, <2>8 DEF Discipline, LinkDiscipline
<1>4. CASE SetMaintenance(n) \/ Deploy(n) \/ DeployEnds(n) \/ CleaningEnds(n)
  <2>1. /\ UNCHANGED <<alloc, up, online, starting, thread, queue, tearing>>
        /\ node[n].lock = None
        /\ \/ node' = [node EXCEPT ![n] = [node[n] EXCEPT !.maintenance = ~ node[n].maintenance]]
           \/ \E q \in Provs : /\ node' = [node EXCEPT ![n] = [node[n] EXCEPT !.prov = q]]
                               /\ node[n].prov \notin Torn
    BY <1>4 DEF SetMaintenance, Deploy, DeployEnds, CleaningEnds, Orderly, Provs, Torn
  <2>2. node[n].lock \notin up
    BY <1>0, <2>1
  <2>3. CASE node' = [node EXCEPT ![n] = [node[n] EXCEPT !.maintenance = ~ node[n].maintenance]]
    <3> DEFINE r == [node[n] EXCEPT !.maintenance = ~ node[n].maintenance]
    <3>1. r \in NodeRows /\ r.allocation = node[n].allocation /\ r.prov = node[n].prov
          /\ r.instance = node[n].instance
      BY <1>0 DEF NodeRows
    <3> QED BY <2>1, <2>2, <2>3, <3>1, RowStep
  <2>4. ASSUME NEW q \in Provs, node' = [node EXCEPT ![n] = [node[n] EXCEPT !.prov = q]],
               node[n].prov \notin Torn
        PROVE  Discipline'
    <3> DEFINE r == [node[n] EXCEPT !.prov = q]
    <3>1. r \in NodeRows /\ r.allocation = node[n].allocation /\ r.instance = node[n].instance
      BY <1>0, NodeRowUpdates, NodeRowKeeps
    <3> QED BY <2>1, <2>2, <2>4, <3>1, RowStep
  <2> QED BY <2>1, <2>3, <2>4
<1>5. CASE RemoveLock(n)
  <2> DEFINE r == [node[n] EXCEPT !.lock = None]
  <2>1. r \in NodeRows /\ r.allocation = node[n].allocation /\ r.prov = node[n].prov
        /\ r.instance = node[n].instance
    BY <1>0, NodeRowUpdates, NodeRowKeeps
  <2>2. node[n].lock \notin up
    BY <1>5 DEF RemoveLock, Discipline, WorkDiscipline, LooksAlive
  <2> QED BY <1>5, <2>1, <2>2, RowStep DEF RemoveLock
<1>6. ASSUME NEW c \in Conductors, TearDown(c, n) PROVE Discipline'
  <2> DEFINE r == [node[n] EXCEPT !.prov = "deleting", !.lock = c]
  <2>1. /\ r.allocation = node[n].allocation /\ r.prov = "deleting" /\ r.lock = c
    BY <1>0 DEF NodeRows
  <2>2. /\ UNCHANGED <<alloc, up, online, starting, thread, queue>> /\ node[n].lock = None
        /\ node' = [node EXCEPT ![n] = r] /\ c \in up
        /\ tearing' = [tearing EXCEPT ![n] = [pc |-> "driver", by |-> c, alloc |-> None]]
    BY <1>6 DEF TearDown
  <2> HIDE DEF r
  <2>3. WorkDiscipline'
    BY <2>2, WorkFrame DEF Discipline, Undecided
  <2>4. LinkDiscipline'
    BY <2>1, <2>2, LinkFrame DEF Discipline, Torn
  <2>5. LocksHeld' /\ LocksAreOwn'
    BY <2>2, FreeNodes DEF Discipline, LockDiscipline, LocksHeld, LocksAreOwn, KnownWorks
  <2>6. TearsHeld' /\ TearsKnow'
    BY <2>1, <2>2 DEF Discipline, LockDiscipline, TearsHeld, TearsKnow
  <2> QED BY <2>3, <2>4, <2>5, <2>6 DEF Discipline, LockDiscipline
<1>7. CASE DropInstance(n)
  <2>1. UNCHANGED <<alloc, up, online, starting, thread, queue>> /\ tearing[n].pc = "driver"
    BY <1>7 DEF DropInstance
  <2>2. /\ node'[n].prov \in {"deleting", "error"}
        /\ node'[n].allocation = node[n].allocation
        /\ \A m \in Nodes \ {n} : node'[m] = node[m] /\ tearing'[m] = tearing[m]
        /\ \/ /\ tearing'[n].pc = "saved" /\ tearing'[n].by = tearing[n].by
              /\ tearing'[n].alloc = node[n].allocation
              /\ node'[n].lock = node[n].lock
           \/ tearing'[n].pc = "no"
    BY <1>0, <1>7 DEF DropInstance, NodeRows, Tears
  <2>3. WorkDiscipline'
    BY <2>1, WorkFrame DEF Discipline, Undecided
  <2>4. LinkDiscipline'
    BY <2>1, <2>2, LinkFrame DEF Discipline, Torn
  <2>5. \A t \in Threads : thread[t].pc = "locked" => thread[t].node \in Nodes \ {n}
    BY <2>1 DEF KnownWorks, Discipline, LockDiscipline, LocksHeld, TearsHeld
  <2>6. LocksHeld' /\ LocksAreOwn'
    BY <2>1, <2>2, <2>5 DEF Discipline, LockDiscipline, LocksHeld, LocksAreOwn
  <2>7. TearsHeld'
    BY <2>1, <2>2 DEF Discipline, LockDiscipline, TearsHeld
  <2>8. TearsKnow'
    BY <2>1, <2>2 DEF Discipline, LockDiscipline, TearsKnow
  <2> QED BY <2>3, <2>4, <2>6, <2>7, <2>8 DEF Discipline, LockDiscipline
<1>8. CASE FinishTearDown(n)
  <2> DEFINE a == tearing[n].alloc
             found == a # None /\ Exists(a)
             rows == IF found THEN Unlinked(a) ELSE node
  <2>1. /\ tearing[n].pc = "saved" /\ UNCHANGED <<up, online, starting, thread, queue>>
        /\ tearing' = [tearing EXCEPT ![n] = [pc |-> "no", by |-> None, alloc |-> None]]
        /\ alloc' = IF found THEN DestroyedRow(a) ELSE alloc
    BY <1>8 DEF FinishTearDown
  <2>2. rows \in [Nodes -> NodeRows]
    BY <1>0, TablesTyped
  <2> DEFINE p == IF rows[n].prov = "deleting" /\ (a = None \/ found)
                  THEN "cleaning" ELSE rows[n].prov
             l == IF rows[n].lock = tearing[n].by THEN None ELSE rows[n].lock
  <2>3. node' = [rows EXCEPT ![n].prov = p, ![n].lock = l]
    BY <1>8 DEF FinishTearDown
  <2>4. /\ node'[n].allocation = rows[n].allocation
        /\ node'[n].prov = p
        /\ \A m \in Nodes \ {n} : node'[m] = rows[m]
    BY <2>2, <2>3 DEF NodeRows
  <2>5. /\ node[n].prov \in Torn /\ node[n].allocation \in {None, a}
        /\ \A t \in Threads : thread[t].pc = "locked" => thread[t].node \in Nodes \ {n}
    BY <2>1 DEF KnownWorks, Discipline, LockDiscipline, LocksHeld, TearsHeld, TearsKnow, Torn
  <2>6. node'[n].prov \notin Torn => node'[n].allocation = None
    <3> SUFFICES ASSUME node'[n].prov \notin Torn PROVE rows[n].allocation = None
      BY <2>4
    <3>1. rows[n].prov = node[n].prov
      BY UnlinkedKeeps
    <3>2. a = None \/ found
      BY <2>4, <2>5, <3>1
    <3>3. CASE found
      BY <2>5, <3>3, UnlinkedKeeps
    <3>4. CASE ~ found
      BY <2>5, <3>2, <3>4
    <3> QED BY <3>3, <3>4
  <2> HIDE DEF a
  <2>7. CASE found
    <3>1. a \in Allocs
      BY <1>0, <2>7 DEF a
    <3>2. \A m \in Nodes \ {n} : /\ node'[m].lock = node[m].lock
                                 /\ node'[m].prov = node[m].prov
                                 /\ tearing'[m] = tearing[m]
      BY <2>1, <2>4, <2>7, UnlinkedKeeps
    <3>3. WorkDiscipline'
      BY <2>1, <2>7, <3>1, DestroyedWork, WorkFrame DEF Discipline
    <3>4. LinkDiscipline'
      BY <2>1, <2>4, <2>6, <2>7, <3>1, UnlinkedKeeps, LinkRemoved DEF Discipline
    <3>5. LocksHeld' /\ LocksAreOwn'
      BY <2>1, <2>5, <3>2 DEF Discipline, LockDiscipline, LocksHeld, LocksAreOwn
    <3>6. TearsHeld'
      BY <2>1, <3>2 DEF Discipline, LockDiscipline, TearsHeld
    <3>7. TearsKnow'
      <4> SUFFICES ASSUME NEW m \in Nodes \ {n}, tearing[m].pc = "saved"
                   PROVE  /\ node'[m].allocation \in {None, tearing[m].alloc}
                          /\ tearing[m].alloc # None =>
                               \/ node'[m].allocation = tearing[m].alloc
                               \/ alloc'[tearing[m].alloc].state = "gone"
        BY <2>1, <3>2 DEF TearsKnow
      <4>1. tearing[m].alloc # None => tearing[m].alloc \in Allocs
        BY DEF Tears
      <4>2. node'[m].allocation = IF node[m].allocation = a THEN None ELSE node[m].allocation
        BY <2>4, <2>7, UnlinkedKeeps
      <4> QED BY <2>1, <2>7, <3>1, <4>1, <4>2, DestroyedWork
              DEF Discipline, LockDiscipline, TearsKnow
    <3> QED BY <3>3, <3>4, <3>5, <3>6, <3>7 DEF Discipline, LockDiscipline
  <2>8. CASE ~ found
    <3>1. UNCHANGED alloc
      BY <2>1, <2>8
    <3>2. \A m \in Nodes \ {n} : node'[m] = node[m] /\ tearing'[m] = tearing[m]
      BY <2>1, <2>4, <2>8
    <3>3. WorkDiscipline'
      BY <2>1, <3>1, WorkFrame DEF Discipline, Undecided
    <3>4. LinkDiscipline'
      BY <2>4, <2>6, <2>8, <3>1, <3>2, LinkFrame DEF Discipline
    <3>5. LocksHeld' /\ LocksAreOwn'
      BY <2>1, <2>5, <3>2 DEF Discipline, LockDiscipline, LocksHeld, LocksAreOwn
    <3>6. TearsHeld' /\ TearsKnow'
      BY <2>1, <3>1, <3>2 DEF Discipline, LockDiscipline, TearsHeld, TearsKnow
    <3> QED BY <3>3, <3>4, <3>5, <3>6 DEF Discipline, LockDiscipline
  <2> QED BY <2>7, <2>8
<1> QED BY <1>1, <1>2, <1>3, <1>4, <1>5, <1>6, <1>7, <1>8 DEF NodeStep

\* A thread goes on with its row, or ends when the row has its outcome.
LEMMA WorkMoves ==
    ASSUME Typed, WorkDiscipline, NEW t \in Threads, Busy(t), NEW v \in KnownWorks,
           thread' = [thread EXCEPT ![t] = v], UNCHANGED <<queue, up, online, starting>>,
           v.pc = "idle" \/ v.on = thread[t].on,
           \A b \in Allocs : /\ alloc'[b].affinity = alloc[b].affinity
                             /\ b # thread[t].on /\ Undecided(b) => Undecided(b)',
           v.pc # "idle" => alloc'[thread[t].on].state \in {"allocating", "gone"}
    PROVE  WorkDiscipline'
<1> USE DEF Typed, RowsTyped
<1> DEFINE a == thread[t].on
<1>1. /\ a \in Allocs /\ alloc[a].affinity = t[1] /\ t[1] \in up
      /\ \A s \in Threads : Busy(s) => thread[s].on \in Allocs
  BY DEF KnownWorks, Busy, WorkDiscipline, ThreadsOwn
<1>2. /\ thread'[t] = v
      /\ \A s \in Threads \ {t} : thread'[s] = thread[s]
      /\ \A s \in Threads \ {t} : Busy(s) => thread[s].on # a
      /\ v.pc = "idle" => v.on = None
  BY DEF Busy, WorkDiscipline, OneThreadPerAllocation, KnownWorks
<1>3. LooksAlive'
  BY DEF WorkDiscipline, LooksAlive
<1>4. ThreadsOwn'
  BY <1>1, <1>2 DEF WorkDiscipline, ThreadsOwn, Busy, Undecided
<1>5. OneThreadPerAllocation'
  <2> SUFFICES ASSUME NEW r \in Threads, NEW s \in Threads,
                      thread'[r].pc # "idle", thread'[r].on = thread'[s].on
               PROVE  r = s
    BY DEF OneThreadPerAllocation
  <2>1. \A x \in Threads : thread'[x].pc # "idle" => Busy(x) /\ thread'[x].on = thread[x].on
    BY <1>2 DEF Busy
  <2>2. thread'[s].pc # "idle"
    <3>1. thread'[s].pc = "idle" => thread'[s].on = None
      BY <1>2 DEF KnownWorks
    <3>2. thread'[r].on \in Allocs
      BY <1>1, <2>1
    <3> QED BY <3>1, <3>2, AllocationAssumptions
  <2> QED BY <2>1, <2>2 DEF WorkDiscipline, OneThreadPerAllocation, Busy
<1>6. ResumeWaits'
  <2>1. \A c \in Conductors : a \notin queue[c].resume
    BY <1>1 DEF WorkDiscipline, ResumeWaits
  <2>2. \A s \in Threads : thread'[s].pc # "idle" => Busy(s) /\ thread'[s].on = thread[s].on
    BY <1>2 DEF Busy
  <2> QED BY <2>1, <2>2 DEF WorkDiscipline, ResumeWaits, Busy
<1>7. OrphansWait'
  BY <1>1 DEF WorkDiscipline, OrphansWait
<1>8. StartsIdle'
  BY <1>2 DEF WorkDiscipline, StartsIdle, Busy
<1> QED BY <1>3, <1>4, <1>5, <1>6, <1>7, <1>8 DEF WorkDiscipline

\* A thread moves while it neither takes nor holds a lock.
LEMMA LockMoves ==
    ASSUME Typed, LockDiscipline, NEW t \in Threads, NEW v \in KnownWorks, v.pc # "locked",
           thread' = [thread EXCEPT ![t] = v], UNCHANGED <<up, node, tearing>>,
           \A b \in Allocs : alloc[b].state = "gone" => alloc'[b].state = "gone"
    PROVE  LockDiscipline'
<1> USE DEF Typed, RowsTyped
<1>1. /\ thread'[t] = v
      /\ \A s \in Threads \ {t} : thread'[s] = thread[s]
  OBVIOUS
<1>2. LocksHeld' /\ LocksAreOwn'
  BY <1>1 DEF LockDiscipline, LocksHeld, LocksAreOwn
<1>3. TearsHeld'
  BY DEF LockDiscipline, TearsHeld
<1>4. TearsKnow'
  BY DEF LockDiscipline, TearsKnow, Tears
<1> QED BY <1>2, <1>3, <1>4 DEF LockDiscipline

\* A thread takes the lock of a free node.
LEMMA LockTaken ==
    ASSUME Typed, Discipline, NEW t \in Threads, NEW n \in Nodes, NEW v \in KnownWorks,
           Busy(t), v.pc = "locked", v.node = n,
           node[n].lock = None, node[n].prov \in {"available", "active"},
           thread' = [thread EXCEPT ![t] = v],
           node' = [node EXCEPT ![n] = [node[n] EXCEPT !.lock = t[1]]],
           UNCHANGED <<up, alloc, tearing>>
    PROVE  LockDiscipline' /\ LinkDiscipline'
<1> USE DEF Typed, RowsTyped
<1>1. /\ thread'[t] = v
      /\ \A s \in Threads \ {t} : thread'[s] = thread[s]
  OBVIOUS
<1>2. /\ node'[n].lock = t[1] /\ node'[n].prov = node[n].prov
      /\ node'[n].allocation = node[n].allocation /\ node'[n].instance = node[n].instance
      /\ \A m \in Nodes \ {n} : node'[m] = node[m]
  BY DEF NodeRows
<1>3. \A s \in Threads : thread[s].pc = "locked" => thread[s].node \in Nodes \ {n}
  BY FreeNodes DEF Discipline, KnownWorks
<1>4. t[1] \in up
  BY DEF Discipline, WorkDiscipline, ThreadsOwn
<1>5. LocksHeld' /\ LocksAreOwn'
  BY <1>1, <1>2, <1>3, <1>4 DEF Discipline, LockDiscipline, LocksHeld, LocksAreOwn
<1>6. TearsHeld' /\ TearsKnow'
  BY <1>2, FreeNodes DEF Discipline, LockDiscipline, TearsHeld, TearsKnow
<1>7. LinkDiscipline'
  BY <1>2, LinkFrame DEF Discipline
<1> QED BY <1>5, <1>6, <1>7 DEF LockDiscipline

\* The row that a thread saves has no node yet, and its node no row.
LEMMA SavesFree ==
    ASSUME Typed, Discipline, NEW t \in Threads, thread[t].pc = "locked",
           Links(thread[t].on, thread[t].node)
    PROVE  /\ thread[t].node \in Nodes /\ thread[t].on \in Allocs
           /\ node[thread[t].node].allocation = None
           /\ node[thread[t].node].lock = t[1]
           /\ node[thread[t].node].prov \in {"available", "active"}
           /\ alloc[thread[t].on].state = "allocating"
           /\ alloc[thread[t].on].node = None
<1> USE DEF Typed, RowsTyped
<1> DEFINE a == thread[t].on  n == thread[t].node
<1>1. n \in Nodes /\ a \in Allocs /\ Busy(t)
  BY DEF KnownWorks, Busy
<1>2. alloc[a].state = "allocating" /\ alloc[a].node = None
  BY <1>1 DEF Discipline, WorkDiscipline, ThreadsOwn, Undecided, Links, Exists, LinkDiscipline,
              LinkedIsActive
<1>3. node[n].lock = t[1] /\ node[n].prov \in {"available", "active"}
  BY DEF Discipline, LockDiscipline, LocksHeld
<1>4. node[n].allocation = None
  <2> SUFFICES ASSUME node[n].allocation # None PROVE FALSE
    OBVIOUS
  <2>1. node[n].instance = node[n].allocation
    BY <1>1, <1>3 DEF Discipline, LinkDiscipline, InstanceKept, Torn
  <2>2. node[n].allocation = a
    BY <2>1 DEF Links, Associated
  <2> QED BY <1>1, <1>2, <2>2 DEF Discipline, LinkDiscipline, LinksAgree
<1> QED BY <1>1, <1>2, <1>3, <1>4

LEMMA ThreadsDiscipline ==
    ASSUME Typed, Discipline, NEW t \in Threads, ThreadStep(t)
    PROVE  Discipline'
<1> USE DEF Typed, RowsTyped
<1> DEFINE w == thread[t]
<1>0. Typed' /\ thread'[t] \in KnownWorks
  <2>1. Typed'
    BY ThreadTyped
  <2> QED BY <2>1
<1>1. ASSUME ListCandidates(t) \/ NextAttempt(t) PROVE Discipline'
  <2>1. PICK v : thread' = [thread EXCEPT ![t] = v]
                 /\ v.pc \in {"try", "failed"} /\ v.on = w.on
    <3>1. CASE ListCandidates(t)
      <4> DEFINE found == {n \in Nodes : Suits(n, w.on)}
                 v == [w EXCEPT !.pc = IF found = {} THEN "failed" ELSE "try",
                                !.todo = found, !.attempt = 1]
      <4>1. thread' = [thread EXCEPT ![t] = v]
        BY <3>1 DEF ListCandidates
      <4>2. w \in Works
        BY DEF KnownWorks
      <4> HIDE DEF found, w
      <4>3. v.pc \in {"failed", "try"} /\ v.on = w.on
        BY <4>2 DEF Works
      <4> QED BY <4>1, <4>3
    <3>2. CASE NextAttempt(t)
      <4>1. CASE w.attempt < MaxAttempts
        <5> DEFINE v == [w EXCEPT !.todo = w.retry, !.retry = {}, !.attempt = w.attempt + 1]
        <5>1. thread' = [thread EXCEPT ![t] = v] /\ w.pc = "try"
          BY <3>2, <4>1 DEF NextAttempt
        <5>2. v.pc = w.pc /\ v.on = w.on
          BY DEF KnownWorks, Works
        <5> QED BY <5>1, <5>2
      <4>2. CASE ~ w.attempt < MaxAttempts
        <5> DEFINE v == [w EXCEPT !.pc = "failed"]
        <5>1. thread' = [thread EXCEPT ![t] = v]
          BY <3>2, <4>2 DEF NextAttempt
        <5>2. v.pc = "failed" /\ v.on = w.on
          BY DEF KnownWorks, Works
        <5> QED BY <5>1, <5>2
      <4> QED BY <4>1, <4>2
    <3> QED BY <1>1, <3>1, <3>2
  <2>2. UNCHANGED <<alloc, node, up, online, starting, queue, tearing>> /\ Busy(t)
    BY <1>1 DEF ListCandidates, NextAttempt, Busy
  <2>3. v \in KnownWorks
    BY <1>0, <2>1
  <2> HIDE DEF w
  <2>4. WorkDiscipline'
    BY <2>1, <2>2, <2>3, WorkMoves DEF Discipline, Undecided, WorkDiscipline, ThreadsOwn, w
  <2>5. LockDiscipline'
    BY <2>1, <2>2, <2>3, LockMoves DEF Discipline
  <2>6. LinkDiscipline'
    BY <2>2, LinkFrame DEF Discipline
  <2> QED BY <2>4, <2>5, <2>6 DEF Discipline
<1>2. ASSUME NEW n \in Nodes, TryNode(t, n) \/ (TryBackfill(t) /\ n = w.node)
      PROVE  Discipline'
  <2>1. UNCHANGED <<alloc, up, online, starting, queue, tearing>> /\ Busy(t)
    BY <1>2 DEF TryNode, TryBackfill, Busy
  <2>2. PICK v : /\ thread' = [thread EXCEPT ![t] = v]
                 /\ v.pc \in {"try", "failed", "locked"} /\ v.on = w.on
                 /\ v.pc # "locked" => UNCHANGED node
                 /\ v.pc = "locked" =>
                      /\ v.node = n /\ node[n].lock = None
                      /\ node[n].prov \in {"available", "active"}
                      /\ node' = [node EXCEPT ![n] = [node[n] EXCEPT !.lock = t[1]]]
    <3>1. CASE TryNode(t, n)
      <4>1. w.pc = "try" /\ w \in Works
        BY <3>1 DEF TryNode, KnownWorks
      <4>2. \/ thread' = [thread EXCEPT ![t] = [w EXCEPT !.pc = "failed"]] /\ UNCHANGED node
            \/ /\ thread' = [thread EXCEPT ![t] = [w EXCEPT !.todo = @ \ {n}, !.retry = @ \cup {n}]]
               /\ UNCHANGED node
            \/ thread' = [thread EXCEPT ![t] = [w EXCEPT !.todo = @ \ {n}]] /\ UNCHANGED node
            \/ /\ thread' = [thread EXCEPT ![t] = [w EXCEPT !.pc = "locked", !.node = n]]
               /\ node[n].lock = None /\ node[n].prov \in {"available", "active"}
               /\ node' = [node EXCEPT ![n] = [node[n] EXCEPT !.lock = t[1]]]
        BY <3>1 DEF TryNode, Suits
      <4>3. /\ [w EXCEPT !.pc = "failed"].pc = "failed"
            /\ [w EXCEPT !.pc = "failed"].on = w.on
            /\ [w EXCEPT !.todo = @ \ {n}, !.retry = @ \cup {n}].pc = "try"
            /\ [w EXCEPT !.todo = @ \ {n}, !.retry = @ \cup {n}].on = w.on
            /\ [w EXCEPT !.todo = @ \ {n}].pc = "try"
            /\ [w EXCEPT !.todo = @ \ {n}].on = w.on
            /\ [w EXCEPT !.pc = "locked", !.node = n].pc = "locked"
            /\ [w EXCEPT !.pc = "locked", !.node = n].on = w.on
            /\ [w EXCEPT !.pc = "locked", !.node = n].node = n
        BY <4>1 DEF Works
      <4> HIDE DEF w
      <4> QED BY <4>2, <4>3
    <3>2. CASE TryBackfill(t) /\ n = w.node
      <4>1. PICK q \in {"failed", "locked"} :
              /\ thread' = [thread EXCEPT ![t] = [w EXCEPT !.pc = q]]
              /\ q # "locked" => UNCHANGED node
              /\ q = "locked" =>
                   /\ node[n].lock = None /\ node[n].prov = "active"
                   /\ node' = [node EXCEPT ![n] = [node[n] EXCEPT !.lock = t[1]]]
        BY <3>2 DEF TryBackfill
      <4>2. [w EXCEPT !.pc = q].pc = q /\ [w EXCEPT !.pc = q].on = w.on
            /\ [w EXCEPT !.pc = q].node = w.node
        BY DEF KnownWorks, Works
      <4> HIDE DEF w
      <4> QED BY <3>2, <4>1, <4>2
    <3> QED BY <1>2, <3>1, <3>2
  <2>3. v \in KnownWorks
    BY <1>0, <2>2
  <2> HIDE DEF w
  <2>4. WorkDiscipline'
    BY <2>1, <2>2, <2>3, WorkMoves DEF Discipline, Undecided, WorkDiscipline, ThreadsOwn, w
  <2>5. CASE v.pc # "locked"
    <3>1. LockDiscipline'
      BY <2>1, <2>2, <2>3, <2>5, LockMoves DEF Discipline
    <3>2. LinkDiscipline'
      BY <2>1, <2>2, <2>5, LinkFrame DEF Discipline
    <3> QED BY <2>4, <3>1, <3>2 DEF Discipline
  <2>6. CASE v.pc = "locked"
    <3>1. LockDiscipline' /\ LinkDiscipline'
      BY <2>1, <2>2, <2>3, <2>6, LockTaken
    <3> QED BY <2>4, <3>1 DEF Discipline
  <2> QED BY <2>5, <2>6
<1>3. CASE TryBackfill(t)
  <2>1. w.node \in Nodes
    BY <1>3 DEF TryBackfill, KnownWorks
  <2> QED BY <1>2, <1>3, <2>1
<1>4. CASE FailAllocation(t)
  <2>1. /\ w.on \in Allocs /\ Busy(t)
        /\ thread' = [thread EXCEPT ![t] = Idle]
        /\ alloc' = FailedRow(w.on)
        /\ UNCHANGED <<node, up, online, starting, queue, tearing>>
    BY <1>4 DEF FailAllocation, KnownWorks, Busy
  <2>2. Undecided(w.on) /\ alloc[w.on].node = None
    BY <2>1 DEF Discipline, WorkDiscipline, ThreadsOwn, LinkDiscipline, LinkedIsActive, Undecided
  <2>3. \A b \in Allocs : /\ alloc'[b].affinity = alloc[b].affinity
                          /\ alloc'[b].node = alloc[b].node
                          /\ b # w.on => alloc'[b] = alloc[b]
                          /\ alloc[b].state = "gone" => alloc'[b].state = "gone"
                          /\ alloc'[b].state = "active" <=> alloc[b].state = "active"
    BY <2>1, <2>2 DEF FailedRow, AllocRows, Exists, Undecided
  <2>4. Idle \in KnownWorks /\ Idle.pc = "idle"
    BY WorksTyped DEF Idle
  <2>5. WorkDiscipline'
    BY <2>1, <2>3, <2>4, WorkMoves DEF Discipline, Undecided
  <2>6. LockDiscipline'
    BY <2>1, <2>3, <2>4, LockMoves DEF Discipline
  <2>7. LinkDiscipline'
    BY <2>1, <2>3, LinkFrame DEF Discipline
  <2> QED BY <2>5, <2>6, <2>7 DEF Discipline
<1>5. CASE SaveAllocation(t)
  <2> DEFINE a == w.on  n == w.node
  <2>0. /\ a \in Allocs /\ n \in Nodes /\ Busy(t) /\ w.pc = "locked"
        /\ UNCHANGED <<up, online, starting, queue, tearing>>
        /\ node[n].lock = t[1] /\ node[n].prov \in {"available", "active"}
        /\ t[1] \in up
    BY <1>5 DEF SaveAllocation, KnownWorks, Busy, Discipline, LockDiscipline, LocksHeld
  <2>1. PICK v \in KnownWorks :
          /\ thread' = [thread EXCEPT ![t] = v]
          /\ v.pc \in {"idle", "try", "failed"}
          /\ v.pc = "idle" \/ v.on = a
          /\ \/ /\ Links(a, n) /\ v.pc = "idle"
                /\ alloc' = [alloc EXCEPT ![a].state = "active", ![a].node = n]
                /\ node' = [node EXCEPT ![n] = [LinkedNode(a, n) EXCEPT !.lock = None]]
             \/ /\ UNCHANGED alloc /\ v.pc # "idle"
                /\ node' = [node EXCEPT ![n] = [node[n] EXCEPT !.lock = None]]
    <3>1. LinkedNode(a, n).lock = t[1]
      <4>1. node[n] \in NodeRows
        BY <2>0
      <4> HIDE DEF a, n
      <4>2. LinkedNode(a, n).lock = node[n].lock
        BY <4>1 DEF LinkedNode, NodeRows
      <4> QED BY <2>0, <4>2
    <3>2. AfterLink(t, n) = Idle
      <4>1. t[1] # None
        BY AllocationAssumptions DEF Threads
      <4> QED BY <2>0, <4>1 DEF AfterLink
    <3>3. CASE Links(a, n)
      <4>0. Exists(a) /\ ~ Associated(a, n)
        BY <3>3 DEF Links
      <4>1. /\ thread' = [thread EXCEPT ![t] = Idle]
            /\ alloc' = [alloc EXCEPT ![a].state = "active", ![a].node = n]
            /\ node' = [node EXCEPT ![n] = [LinkedNode(a, n) EXCEPT !.lock = None]]
        BY <1>5, <3>1, <3>2, <3>3, <4>0 DEF SaveAllocation
      <4>2. Idle \in KnownWorks /\ Idle.pc = "idle"
        BY WorksTyped DEF Idle
      <4> QED BY <3>3, <4>1, <4>2
    <3>4. CASE ~ Links(a, n)
      <4>1. /\ UNCHANGED alloc
            /\ node' = [node EXCEPT ![n] = [node[n] EXCEPT !.lock = None]]
        BY <1>5, <2>0, <3>4 DEF SaveAllocation
      <4>2. \/ thread' = [thread EXCEPT ![t] = [w EXCEPT !.pc = "failed"]]
            \/ thread' = [thread EXCEPT ![t] =
                            [w EXCEPT !.pc = "try", !.todo = @ \ {n}, !.node = None]]
        BY <1>5, <3>4 DEF SaveAllocation
      <4>3. /\ [w EXCEPT !.pc = "failed"].pc = "failed"
            /\ [w EXCEPT !.pc = "failed"].on = a
            /\ [w EXCEPT !.pc = "try", !.todo = @ \ {n}, !.node = None].pc = "try"
            /\ [w EXCEPT !.pc = "try", !.todo = @ \ {n}, !.node = None].on = a
        BY DEF KnownWorks, Works
      <4> HIDE DEF w
      <4> QED BY <1>0, <4>1, <4>2, <4>3
    <3> QED BY <3>3, <3>4
  <2>2. /\ thread'[t] = v
        /\ \A s \in Threads \ {t} : thread'[s] = thread[s]
        /\ \A s \in Threads \ {t} : thread[s].pc = "locked" => thread[s].node \in Nodes \ {n}
    <3>1. thread'[t] = v /\ \A s \in Threads \ {t} : thread'[s] = thread[s]
      BY <2>1
    <3>2. ASSUME NEW s \in Threads \ {t}, thread[s].pc = "locked"
          PROVE  thread[s].node \in Nodes /\ thread[s].node # n
      <4>1. thread[s].node \in Nodes
        BY <3>2 DEF KnownWorks
      <4>2. LocksAreOwn
        BY DEF Discipline, LockDiscipline
      <4> QED BY <2>0, <3>2, <4>1, <4>2 DEF LocksAreOwn
    <3> QED BY <3>1, <3>2
  <2>3. /\ node'[n].prov = node[n].prov /\ tearing[n].pc = "no"
        /\ \A m \in Nodes \ {n} : node'[m] = node[m]
    <3>1. node'[n].prov = node[n].prov
      <4>1. node[n] \in NodeRows
        BY <2>0
      <4> HIDE DEF a, n
      <4>2. \/ node'[n] = [LinkedNode(a, n) EXCEPT !.lock = None]
            \/ node'[n] = [node[n] EXCEPT !.lock = None]
        BY <2>0, <2>1
      <4>3. LinkedNode(a, n) \in NodeRows /\ LinkedNode(a, n).prov = node[n].prov
        BY <2>0, <4>1 DEF LinkedNode, NodeRows
      <4>4. ASSUME NEW r \in NodeRows PROVE [r EXCEPT !.lock = None].prov = r.prov
        BY DEF NodeRows
      <4> QED BY <4>1, <4>2, <4>3, <4>4
    <3>2. tearing[n].pc = "no"
      BY <2>0 DEF Discipline, LockDiscipline, TearsHeld
    <3> QED BY <2>0, <2>1, <3>1, <3>2
  <2>4. \A b \in Allocs : /\ alloc'[b].affinity = alloc[b].affinity
                          /\ b # a => alloc'[b] = alloc[b]
    BY <2>1 DEF AllocRows
  <2>5. WorkDiscipline'
    <3>1. v.pc # "idle" => alloc'[a].state \in {"allocating", "gone"}
      BY <2>0, <2>1 DEF Discipline, WorkDiscipline, ThreadsOwn, Undecided
    <3> QED BY <2>0, <2>1, <2>4, <3>1, WorkMoves DEF Discipline, Undecided
  <2>6. LocksHeld' /\ LocksAreOwn'
    BY <2>0, <2>1, <2>2, <2>3 DEF Discipline, LockDiscipline, LocksHeld, LocksAreOwn
  <2>7. TearsHeld'
    BY <2>0, <2>3 DEF Discipline, LockDiscipline, TearsHeld
  <2>8. TearsKnow'
    <3>1. alloc[a].state = "gone" => alloc'[a].state = "gone"
      BY <2>0, <2>1 DEF Links, Exists
    <3> QED BY <2>0, <2>3, <2>4, <3>1 DEF Discipline, LockDiscipline, TearsKnow, Tears
  <2>9. LinkDiscipline'
    <3>1. CASE v.pc # "idle"
      <4>1. UNCHANGED alloc /\ node' = [node EXCEPT ![n] = [node[n] EXCEPT !.lock = None]]
        BY <2>1, <3>1
      <4>2. node'[n].allocation = node[n].allocation /\ node'[n].instance = node[n].instance
        BY <2>0, <4>1 DEF NodeRows
      <4> QED BY <2>3, <4>1, <4>2, LinkFrame DEF Discipline
    <3>2. CASE v.pc = "idle"
      <4>1. /\ Links(a, n)
            /\ alloc' = [alloc EXCEPT ![a].state = "active", ![a].node = n]
            /\ node' = [node EXCEPT ![n] = [LinkedNode(a, n) EXCEPT !.lock = None]]
        BY <2>1, <3>2
      <4>2. /\ node[n].allocation = None /\ alloc[a].state = "allocating"
        BY <2>0, <4>1, SavesFree
      <4>3. node'[n].allocation = a /\ node'[n].instance = a
        BY <2>0, <4>1 DEF LinkedNode, NodeRows
      <4>4. alloc'[a].state = "active" /\ alloc'[a].node = n
        BY <2>0, <4>1 DEF AllocRows
      <4> HIDE DEF a, n
      <4>5. LinksAgree'
        BY <2>0, <2>3, <2>4, <4>2, <4>3, <4>4, AllocationAssumptions
           DEF Discipline, LinkDiscipline, LinksAgree
      <4>6. LinkedIsActive' /\ InstanceKept'
        BY <2>3, <2>4, <4>3, <4>4 DEF Discipline, LinkDiscipline, LinkedIsActive, InstanceKept
      <4> QED BY <4>5, <4>6 DEF LinkDiscipline
    <3> QED BY <3>1, <3>2
  <2> QED BY <2>5, <2>6, <2>7, <2>8, <2>9 DEF Discipline, LockDiscipline
<1> QED BY <1>1, <1>2, <1>3, <1>4, <1>5 DEF ThreadStep

\* A thread begins with a row that nobody works on.
LEMMA WorkStarts ==
    ASSUME Typed, WorkDiscipline, NEW t \in Threads, ~ Busy(t), NEW a \in Allocs,
           NEW v \in KnownWorks, v.pc # "idle", v.on = a,
           thread' = [thread EXCEPT ![t] = v], UNCHANGED <<up, online, starting>>,
           t[1] \in up \ starting, alloc'[a].affinity = t[1], Undecided(a)',
           \A b \in Allocs \ {a} : alloc'[b] = alloc[b],
           \A s \in Threads : Busy(s) => thread[s].on # a,
           \A c \in Conductors : /\ queue'[c].resume \subseteq queue[c].resume \ {a}
                                 /\ queue'[c].orphans \subseteq queue[c].orphans
    PROVE  WorkDiscipline'
<1> USE DEF Typed, RowsTyped
<1>1. /\ thread'[t] = v
      /\ \A s \in Threads \ {t} : thread'[s] = thread[s]
      /\ \A s \in Threads : Busy(s) => thread[s].on \in Allocs \ {a}
      /\ \A s \in Threads : ~ Busy(s) => thread[s].on = None
  BY DEF KnownWorks, Busy
<1>2. LooksAlive'
  BY DEF WorkDiscipline, LooksAlive
<1>3. ThreadsOwn'
  BY <1>1 DEF WorkDiscipline, ThreadsOwn, Busy, Undecided
<1>4. OneThreadPerAllocation'
  <2> SUFFICES ASSUME NEW r \in Threads, NEW s \in Threads,
                      thread'[r].pc # "idle", thread'[r].on = thread'[s].on
               PROVE  r = s
    BY DEF OneThreadPerAllocation
  <2>1. \A x \in Threads : x # t => thread'[x].on # a
    BY <1>1, AllocationAssumptions
  <2>2. CASE r = t \/ s = t
    BY <1>1, <2>1, <2>2
  <2>3. CASE r # t /\ s # t
    BY <1>1, <2>3 DEF WorkDiscipline, OneThreadPerAllocation, Busy
  <2> QED BY <2>2, <2>3
<1>5. ResumeWaits'
  <2> SUFFICES ASSUME NEW c \in Conductors, NEW b \in Allocs, b \in queue'[c].resume
               PROVE  /\ c \in up /\ alloc'[b].affinity = c /\ Undecided(b)'
                      /\ \A s \in Threads : thread'[s].pc # "idle" => thread'[s].on # b
    BY DEF ResumeWaits, Busy
  <2>1. b # a /\ b \in queue[c].resume
    OBVIOUS
  <2>2. /\ c \in up /\ alloc'[b].affinity = c /\ Undecided(b)'
        /\ \A s \in Threads : Busy(s) => thread[s].on # b
    BY <2>1 DEF WorkDiscipline, ResumeWaits, Undecided
  <2>3. ASSUME NEW s \in Threads, thread'[s].pc # "idle" PROVE thread'[s].on # b
    BY <1>1, <2>1, <2>2, <2>3 DEF Busy
  <2> QED BY <2>2, <2>3
<1>6. OrphansWait'
  BY DEF WorkDiscipline, OrphansWait, Undecided
<1>7. StartsIdle'
  BY <1>1 DEF WorkDiscipline, StartsIdle, Busy, OthersTyped
<1> QED BY <1>2, <1>3, <1>4, <1>5, <1>6, <1>7 DEF WorkDiscipline

LEMMA RequestsDiscipline ==
    ASSUME Orderly, Typed, Discipline, Requests
    PROVE  Discipline'
<1> USE DEF Typed, RowsTyped
<1>1. ASSUME NEW c \in Conductors, NEW a \in Allocs, NEW v \in KnownWorks,
             v.on = a, v.pc \notin {"idle", "locked"},
             c \in up \ starting, alloc[a].state = "new", thread[<<c, "request">>].pc = "idle",
             alloc' = NewRow(c, a),
             \/ thread' = [thread EXCEPT ![<<c, "request">>] = v]
             \/ UNCHANGED thread,
             UNCHANGED <<node, up, online, starting, queue, tearing>>
      PROVE  Discipline'
  <2> DEFINE t == <<c, "request">>
  <2>1. t \in Threads /\ t[1] = c /\ ~ Busy(t)
    BY <1>1 DEF Threads, Roles, Busy
  <2>2. /\ alloc'[a].affinity = c /\ alloc'[a].state = "allocating" /\ alloc'[a].node = None
        /\ \A b \in Allocs \ {a} : alloc'[b] = alloc[b]
    BY <1>1 DEF NewRow
  <2>3. /\ ~ Undecided(a)
        /\ alloc[a].node = None
    BY <1>1 DEF Undecided, Discipline, LinkDiscipline, LinkedIsActive
  <2>4. /\ \A s \in Threads : Busy(s) => thread[s].on # a
        /\ \A d \in Conductors : a \notin queue[d].resume
    BY <2>3 DEF Discipline, WorkDiscipline, ThreadsOwn, ResumeWaits
  <2>5. LockDiscipline'
    <3>1. CASE thread' = [thread EXCEPT ![t] = v]
      BY <1>1, <2>1, <2>2, <3>1, LockMoves DEF Discipline
    <3>2. CASE UNCHANGED thread
      BY <1>1, <2>2, <3>2, LockFrame DEF Discipline
    <3> QED BY <1>1, <3>1, <3>2
  <2>6. LinkDiscipline'
    BY <1>1, <2>2, <2>3, LinkFrame DEF Discipline
  <2>7. WorkDiscipline'
    <3>1. CASE thread' = [thread EXCEPT ![t] = v]
      <4>1. Undecided(a)'
        BY <2>2 DEF Undecided
      <4> HIDE DEF t
      <4>2. /\ v.pc # "idle" /\ t[1] \in up \ starting /\ alloc'[a].affinity = t[1]
            /\ \A d \in Conductors : /\ queue'[d].resume \subseteq queue[d].resume \ {a}
                                      /\ queue'[d].orphans \subseteq queue[d].orphans
        BY <1>1, <2>1, <2>2, <2>4
      <4>3. WorkDiscipline /\ UNCHANGED <<up, online, starting>>
        BY <1>1 DEF Discipline
      <4> QED BY <1>1, <2>1, <2>2, <2>4, <3>1, <4>1, <4>2, <4>3, WorkStarts
    <3>2. CASE UNCHANGED thread
      <4>1. ThreadsOwn' /\ OneThreadPerAllocation' /\ LooksAlive'
        BY <1>1, <2>2, <2>4, <3>2 DEF Discipline, WorkDiscipline, LooksAlive, ThreadsOwn, Busy,
           OneThreadPerAllocation, KnownWorks, Undecided
      <4>2. ResumeWaits'
        BY <1>1, <2>2, <2>4, <3>2 DEF Discipline, WorkDiscipline, ResumeWaits, Busy, Undecided
      <4>3. OrphansWait' /\ StartsIdle'
        BY <1>1, <2>2, <3>2 DEF Discipline, WorkDiscipline, OrphansWait, Undecided,
           StartsIdle, Busy
      <4> QED BY <4>1, <4>2, <4>3 DEF WorkDiscipline
    <3> QED BY <1>1, <3>1, <3>2
  <2> QED BY <2>5, <2>6, <2>7 DEF Discipline
<1>2. ASSUME NEW c \in Conductors, NEW a \in Allocs, CreateAllocation(c, a)
      PROVE  Discipline'
  <2>1. Begin(a) \in KnownWorks /\ Begin(a).on = a /\ Begin(a).pc = "list"
    BY WorksTyped DEF Begin, Idle
  <2> QED BY <1>1, <1>2, <2>1 DEF CreateAllocation, Allocates, Orderly
<1>3. ASSUME NEW c \in Conductors, NEW a \in Allocs, NEW n \in Nodes, CreateBackfill(c, a, n)
      PROVE  Discipline'
  <2>1. Backfill(a, n) \in KnownWorks /\ Backfill(a, n).on = a /\ Backfill(a, n).pc = "backfill"
    BY WorksTyped DEF Backfill, Idle
  <2> QED BY <1>1, <1>3, <2>1 DEF CreateBackfill, Backfill, Allocates, Orderly
<1>4. ASSUME NEW a \in Allocs, RequestDestroy(a) PROVE Discipline'
  <2>1. UNCHANGED <<alloc, node, up, online, starting, thread, queue, tearing>>
    BY <1>4 DEF RequestDestroy
  <2> QED BY <2>1, WorkFrame, LockFrame, LinkFrame DEF Discipline, Undecided
<1>5. ASSUME NEW c \in Conductors, NEW r \in requests, HandleDestroy(c, r) PROVE Discipline'
  <2> DEFINE a == r[1]
  <2>1. a \in Allocs /\ UNCHANGED <<up, online, starting, thread, queue, tearing>>
    BY <1>5 DEF OthersTyped, HandleDestroy
  <2>2. \/ alloc' = DestroyedRow(a) /\ node' = Unlinked(a)
        \/ UNCHANGED <<alloc, node>>
    BY <1>5 DEF HandleDestroy
  <2> HIDE DEF a
  <2>3. CASE alloc' = DestroyedRow(a) /\ node' = Unlinked(a)
    <3>1. WorkDiscipline'
      BY <2>1, <2>3, DestroyedWork, WorkFrame DEF Discipline
    <3>2. LockDiscipline'
      BY <2>1, <2>3, DestroyedWork, UnlinkedKeeps, LockFrame DEF Discipline
    <3>3. LinkDiscipline'
      BY <2>1, <2>3, UnlinkedKeeps, LinkRemoved DEF Discipline
    <3> QED BY <3>1, <3>2, <3>3 DEF Discipline
  <2>4. CASE UNCHANGED <<alloc, node>>
    BY <2>1, <2>4, WorkFrame, LockFrame, LinkFrame DEF Discipline, Undecided
  <2> QED BY <2>2, <2>3, <2>4
<1> QED BY <1>2, <1>3, <1>4, <1>5 DEF Requests

LEMMA ConductorsDiscipline ==
    ASSUME Orderly, Typed, Discipline, NEW c \in Conductors, ConductorStep(c)
    PROVE  Discipline'
<1> USE DEF Typed, RowsTyped
<1>1. CASE Crash(c)
  <2>1. /\ up' = up \ {c} /\ starting' = starting \ {c} /\ UNCHANGED <<alloc, node, online>>
        /\ \A t \in Threads : thread'[t] = IF t[1] = c THEN Idle ELSE thread[t]
        /\ \A d \in Conductors \ {c} : queue'[d] = queue[d]
        /\ queue'[c] = [resume |-> {}, orphans |-> {}]
        /\ \A n \in Nodes : /\ tearing[n].by = c => tearing'[n].pc = "no"
                            /\ tearing[n].by # c => tearing'[n] = tearing[n]
    BY <1>1 DEF Crash
  <2>2. Idle.pc = "idle" /\ Idle.on = None
    BY DEF Idle
  <2>3. LooksAlive' /\ ThreadsOwn'
    BY <2>1, <2>2 DEF Discipline, WorkDiscipline, LooksAlive, ThreadsOwn, Busy, Undecided
  <2>4. OneThreadPerAllocation'
    <3>1. \A t \in Threads : Busy(t) => thread[t].on \in Allocs
      BY DEF KnownWorks, Busy
    <3> QED BY <2>1, <2>2, <3>1, AllocationAssumptions
            DEF Discipline, WorkDiscipline, OneThreadPerAllocation, Busy
  <2>5. ResumeWaits' /\ OrphansWait' /\ StartsIdle'
    BY <2>1, <2>2 DEF Discipline, WorkDiscipline, ResumeWaits, OrphansWait, Busy, Undecided,
                      StartsIdle, OthersTyped
  <2>6. LockDiscipline'
    BY <2>1, <2>2 DEF Discipline, LockDiscipline, LocksHeld, LocksAreOwn, TearsHeld, TearsKnow
  <2>7. LinkDiscipline'
    BY <2>1, LinkFrame DEF Discipline
  <2> QED BY <2>3, <2>4, <2>5, <2>6, <2>7 DEF Discipline, WorkDiscipline
<1>2. CASE GoOffline(c) \/ Beat(c)
  <2>1. /\ UNCHANGED <<alloc, node, up, starting, thread, queue, tearing>>
        /\ up \subseteq online'
    BY <1>2 DEF GoOffline, Beat, Orderly, Discipline, WorkDiscipline, LooksAlive
  <2>2. WorkDiscipline'
    BY <2>1 DEF Discipline, WorkDiscipline, LooksAlive, ThreadsOwn, OneThreadPerAllocation,
                ResumeWaits, OrphansWait, StartsIdle, Busy, Undecided
  <2>3. LockDiscipline' /\ LinkDiscipline'
    BY <2>1, LockFrame, LinkFrame DEF Discipline
  <2> QED BY <2>2, <2>3 DEF Discipline
<1>3. CASE Start(c)
  <2>1. /\ c \notin up /\ up' = up \cup {c} /\ online' = online \cup {c}
        /\ starting' = starting \cup {c}
        /\ UNCHANGED <<alloc, thread, queue, tearing>>
        /\ \A d \in Conductors, a \in Allocs : <<a, c>> \notin queue[d].orphans
    BY <1>3 DEF Start, Orderly
  <2>2. StartsIdle'
    <3>1. queue[c].resume = {}
      BY <2>1 DEF Discipline, WorkDiscipline, ResumeWaits, Queues
    <3>2. \A t \in Threads : t[1] = c => ~ Busy(t)
      BY <2>1 DEF Discipline, WorkDiscipline, ThreadsOwn
    <3> QED BY <2>1, <3>1, <3>2 DEF Discipline, WorkDiscipline, StartsIdle, Busy
  <2>3. \A n \in Nodes :
          /\ node'[n].allocation = node[n].allocation /\ node'[n].instance = node[n].instance
          /\ node'[n].lock = IF node[n].lock = c THEN None ELSE node[n].lock
          /\ node[n].lock \notin {c, None} => node'[n].prov = node[n].prov
          /\ node'[n].prov # node[n].prov => node[n].prov = "deleting" /\ node'[n].prov = "error"
    BY <1>3, StartKeeps
  <2>4. LooksAlive' /\ ThreadsOwn' /\ OneThreadPerAllocation'
    BY <2>1 DEF Discipline, WorkDiscipline, LooksAlive, ThreadsOwn, OneThreadPerAllocation, Busy,
                Undecided
  <2>5. ResumeWaits'
    BY <2>1 DEF Discipline, WorkDiscipline, ResumeWaits, Busy, Undecided
  <2>6. OrphansWait'
    BY <2>1 DEF Discipline, WorkDiscipline, OrphansWait, Undecided
  <2>7. LockDiscipline'
    <3>1. None \notin up
      BY AllocationAssumptions DEF OthersTyped
    <3> QED BY <2>1, <2>3, <3>1, LockFrame DEF Discipline
  <2>8. LinkDiscipline'
    BY <2>1, <2>3, LinkFrame DEF Discipline, Torn
  <2> QED BY <2>2, <2>4, <2>5, <2>6, <2>7, <2>8 DEF Discipline, WorkDiscipline
<1>4. ASSUME NEW a \in Allocs, ResumeNext(c, a) PROVE Discipline'
  <2> DEFINE t == <<c, "resume">>
  <2>1. t \in Threads /\ t[1] = c /\ ~ Busy(t)
    BY <1>4 DEF ResumeNext, Threads, Roles, Busy
  <2>2. /\ thread' = [thread EXCEPT ![t] = Begin(a)]
        /\ UNCHANGED <<alloc, node, up, online, starting, tearing>>
        /\ a \in queue[c].resume
    BY <1>4 DEF ResumeNext
  <2>3. \A d \in Conductors : /\ d # c => queue'[d] = queue[d]
                              /\ queue'[c].resume = queue[c].resume \ {a}
                              /\ queue'[c].orphans = queue[c].orphans
    BY <1>4 DEF ResumeNext, Queues
  <2>4. Begin(a) \in KnownWorks /\ Begin(a).on = a /\ Begin(a).pc = "list"
    BY WorksTyped DEF Begin, Idle
  <2>5. /\ c \in up \ starting /\ alloc[a].affinity = c /\ Undecided(a)
        /\ \A s \in Threads : Busy(s) => thread[s].on # a
        /\ \A d \in Conductors \ {c} : a \notin queue[d].resume
    BY <2>2 DEF Discipline, WorkDiscipline, ResumeWaits, StartsIdle
  <2> HIDE DEF t
  <2>6. WorkDiscipline'
    <3>1. Undecided(a)'
      BY <2>2, <2>5 DEF Undecided
    <3>2. \A d \in Conductors : /\ queue'[d].resume \subseteq queue[d].resume \ {a}
                                /\ queue'[d].orphans \subseteq queue[d].orphans
      BY <2>3, <2>5
    <3> QED BY <2>1, <2>2, <2>4, <2>5, <3>1, <3>2, WorkStarts DEF Discipline
  <2>7. LockDiscipline' /\ LinkDiscipline'
    BY <2>1, <2>2, <2>4, LockMoves, LinkFrame DEF Discipline
  <2> QED BY <2>6, <2>7 DEF Discipline
<1>5. CASE ListOrphans(c)
  <2>1. UNCHANGED <<alloc, node, up, online, starting, thread, tearing>> /\ c \in up
    BY <1>5 DEF ListOrphans
  <2>2. \A d \in Conductors : /\ d # c => queue'[d] = queue[d]
                              /\ queue'[c].resume = queue[c].resume
                              /\ \A a \in Allocs, e \in Conductors :
                                   <<a, e>> \in queue'[c].orphans =>
                                     e \notin online /\ alloc[a].state = "allocating"
    BY <1>5 DEF ListOrphans, Queues
  <2>3. LooksAlive' /\ ThreadsOwn' /\ OneThreadPerAllocation'
    BY <2>1 DEF Discipline, WorkDiscipline, LooksAlive, ThreadsOwn, OneThreadPerAllocation, Busy,
                Undecided
  <2>4. ResumeWaits'
    BY <2>1, <2>2 DEF Discipline, WorkDiscipline, ResumeWaits, Busy, Undecided
  <2>5. OrphansWait' /\ StartsIdle'
    BY <2>1, <2>2 DEF Discipline, WorkDiscipline, OrphansWait, LooksAlive, Undecided,
                      StartsIdle, Busy, OthersTyped
  <2>6. LockDiscipline' /\ LinkDiscipline'
    BY <2>1, LockFrame, LinkFrame DEF Discipline
  <2> QED BY <2>3, <2>4, <2>5, <2>6 DEF Discipline, WorkDiscipline
<1>6. ASSUME NEW a \in Allocs, NEW old \in Conductors, TakeOver(c, a, old) PROVE Discipline'
  <2> DEFINE t == <<c, "orphans">>
             wins == Exists(a) /\ alloc[a].affinity = old
  <2>1. t \in Threads /\ t[1] = c /\ ~ Busy(t)
    BY <1>6 DEF TakeOver, Threads, Roles, Busy
  <2>2. UNCHANGED <<node, up, online, starting, tearing>> /\ <<a, old>> \in queue[c].orphans
    BY <1>6 DEF TakeOver
  <2>3. \A d \in Conductors : /\ d # c => queue'[d] = queue[d]
                              /\ queue'[c].resume = queue[c].resume
                              /\ queue'[c].orphans \subseteq queue[c].orphans
    BY <1>6 DEF TakeOver, Queues
  <2>4. Begin(a) \in KnownWorks /\ Begin(a).on = a /\ Begin(a).pc = "list"
    BY WorksTyped DEF Begin, Idle
  <2>5. /\ old \notin up /\ c \in up \ starting
        /\ alloc[a].affinity = old => Undecided(a)
    BY <1>6, <2>2 DEF Discipline, WorkDiscipline, OrphansWait, TakeOver, Allocates, Orderly
  <2>6. CASE wins
    <3>1. /\ alloc' = [alloc EXCEPT ![a].affinity = c]
          /\ thread' = [thread EXCEPT ![t] = Begin(a)]
      BY <1>6, <2>6 DEF TakeOver
    <3>2. /\ \A b \in Allocs \ {a} : alloc'[b] = alloc[b]
          /\ alloc'[a].affinity = c /\ alloc'[a].state = alloc[a].state
          /\ alloc'[a].node = alloc[a].node
      BY <3>1 DEF AllocRows
    <3>3. /\ \A s \in Threads : Busy(s) => thread[s].on # a
          /\ \A d \in Conductors : a \notin queue[d].resume
      BY <2>5, <2>6 DEF Discipline, WorkDiscipline, ThreadsOwn, ResumeWaits
    <3>4. Undecided(a)'
      BY <2>5, <2>6, <3>2 DEF Undecided
    <3> HIDE DEF t
    <3>5. WorkDiscipline'
      <4>1. \A d \in Conductors : /\ queue'[d].resume \subseteq queue[d].resume \ {a}
                                  /\ queue'[d].orphans \subseteq queue[d].orphans
        BY <2>3, <3>3
      <4> QED BY <2>1, <2>2, <2>4, <2>5, <3>1, <3>2, <3>3, <3>4, <4>1, WorkStarts DEF Discipline
    <3>6. LockDiscipline'
      BY <2>1, <2>2, <2>4, <3>1, <3>2, LockMoves DEF Discipline
    <3>7. LinkDiscipline'
      BY <2>2, <3>2, LinkFrame DEF Discipline
    <3> QED BY <3>5, <3>6, <3>7 DEF Discipline
  <2>7. CASE ~ wins
    <3>1. UNCHANGED <<alloc, thread>>
      BY <1>6, <2>7 DEF TakeOver
    <3>2. LooksAlive' /\ ThreadsOwn' /\ OneThreadPerAllocation'
      BY <2>2, <3>1 DEF Discipline, WorkDiscipline, LooksAlive, ThreadsOwn,
                        OneThreadPerAllocation, Busy, Undecided
    <3>3. ResumeWaits' /\ OrphansWait' /\ StartsIdle'
      BY <2>2, <2>3, <3>1 DEF Discipline, WorkDiscipline, ResumeWaits, OrphansWait, Busy, Undecided,
                              StartsIdle, OthersTyped
    <3>4. LockDiscipline' /\ LinkDiscipline'
      BY <2>2, <3>1, LockFrame, LinkFrame DEF Discipline
    <3> QED BY <3>2, <3>3, <3>4 DEF Discipline, WorkDiscipline
  <2> QED BY <2>6, <2>7
<1>7. CASE ListResume(c)
  <2>1. /\ UNCHANGED <<alloc, node, up, online, thread, tearing>>
        /\ c \in starting /\ starting' = starting \ {c}
    BY <1>7 DEF ListResume
  <2>2. /\ \A d \in Conductors \ {c} : queue'[d] = queue[d]
        /\ queue'[c].orphans = queue[c].orphans
        /\ \A a \in queue'[c].resume : /\ a \in Allocs
                                        /\ \/ a \in queue[c].resume
                                           \/ /\ alloc[a].state = "allocating"
                                              /\ alloc[a].affinity = c
    BY <1>7, <2>1 DEF ListResume, Queues, OthersTyped
  <2>3. c \in up /\ \A t \in Threads : t[1] = c => ~ Busy(t)
    BY <2>1 DEF Discipline, WorkDiscipline, StartsIdle, OthersTyped
  <2>4. LooksAlive' /\ ThreadsOwn' /\ OneThreadPerAllocation'
    BY <2>1 DEF Discipline, WorkDiscipline, LooksAlive, ThreadsOwn, OneThreadPerAllocation, Busy,
                Undecided
  <2>5. ResumeWaits'
    <3>1. ASSUME NEW a \in Allocs, alloc[a].affinity = c, NEW t \in Threads, Busy(t)
          PROVE  thread[t].on # a
      BY <2>3, <3>1 DEF Discipline, WorkDiscipline, ThreadsOwn
    <3> QED BY <2>1, <2>2, <2>3, <3>1 DEF Discipline, WorkDiscipline, ResumeWaits, Busy, Undecided
  <2>6. OrphansWait' /\ StartsIdle'
    BY <2>1, <2>2 DEF Discipline, WorkDiscipline, OrphansWait, Undecided, StartsIdle, Busy,
                      OthersTyped
  <2>7. LockDiscipline' /\ LinkDiscipline'
    BY <2>1, LockFrame, LinkFrame DEF Discipline
  <2> QED BY <2>4, <2>5, <2>6, <2>7 DEF Discipline, WorkDiscipline
<1> QED BY <1>1, <1>2, <1>3, <1>4, <1>5, <1>6, <1>7 DEF ConductorStep, Recovery

LEMMA StartsDisciplined == Init => Discipline
<1> SUFFICES ASSUME Init PROVE Discipline
  OBVIOUS
<1>1. \A t \in Threads : thread[t].pc = "idle" /\ thread[t].on = None
  BY DEF Init, Idle
<1>2. /\ \A c \in Conductors : queue[c].resume = {} /\ queue[c].orphans = {}
      /\ \A n \in Nodes : tearing[n].pc = "no" /\ node[n].allocation = None
      /\ \A a \in Allocs : alloc[a].state = "new" /\ alloc[a].node = None
      /\ up = online /\ starting = {}
  BY DEF Init
<1>3. WorkDiscipline
  BY <1>1, <1>2 DEF WorkDiscipline, LooksAlive, ThreadsOwn, OneThreadPerAllocation, ResumeWaits,
                    OrphansWait, StartsIdle, Busy
<1>4. LockDiscipline
  BY <1>1, <1>2 DEF LockDiscipline, LocksHeld, LocksAreOwn, TearsHeld, TearsKnow
<1>5. LinkDiscipline
  BY <1>2, AllocationAssumptions
     DEF LinkDiscipline, LinksAgree, LinkedIsActive, InstanceKept
<1> QED BY <1>3, <1>4, <1>5 DEF Discipline

LEMMA StepsDisciplined == Orderly /\ Typed /\ Discipline /\ [Next]_vars => Discipline'
<1> SUFFICES ASSUME Orderly, Typed, Discipline, [Next]_vars PROVE Discipline'
  OBVIOUS
<1>1. CASE UNCHANGED vars
  <2>1. UNCHANGED <<alloc, node, up, online, starting, thread, queue, tearing>>
    BY <1>1 DEF vars
  <2> QED BY <2>1, WorkFrame, LockFrame, LinkFrame DEF Discipline, Undecided
<1>2. CASE Next
  BY <1>2, ThreadsDiscipline, RequestsDiscipline, NodesDiscipline, ConductorsDiscipline DEF Next
<1> QED BY <1>1, <1>2

LEMMA StaysDisciplined == ASSUME Orderly PROVE Spec => [](Typed /\ Discipline)
<1>1. Init => Typed /\ Discipline
  BY StartsTyped, StartsDisciplined
<1>2. Typed /\ Discipline /\ [Next]_vars => Discipline'
  BY StepsDisciplined
<1> QED BY <1>1, <1>2, StaysTyped, PTL DEF Spec

\* The two tables name each other, whatever crashes and whoever takes over, as
\* long as Orderly holds: a tear down whose VIFs cannot be removed included.
THEOREM TheLinksAgree == ASSUME Orderly PROVE Spec => []LinksAgree
<1>1. Typed /\ Discipline => LinksAgree
  BY DEF Discipline, LinkDiscipline
<1> QED BY <1>1, StaysDisciplined, PTL

\* No two threads process a row, however many conductors die, take over and
\* come back, if those that come back list their rows before they allocate.
THEOREM RowsHaveOneThread == ASSUME Orderly PROVE Spec => []OneThreadPerAllocation
<1>1. Typed /\ Discipline => OneThreadPerAllocation
  BY DEF Discipline, WorkDiscipline
<1> QED BY <1>1, StaysDisciplined, PTL
-----------------------------------------------------------------------------
(* The conductors implement Matching. *)

Quiet == /\ \A a \in Allocs : alloc'[a].state = alloc[a].state
         /\ \A n \in Nodes : node'[n].allocation = node[n].allocation

LEMMA QuietStutters ==
    ASSUME Quiet
    PROVE  [a \in Allocs |-> Status(a)]' = [a \in Allocs |-> Status(a)]
           /\ [n \in Nodes |-> node[n].allocation]' = [n \in Nodes |-> node[n].allocation]
BY DEF Quiet, Status

\* The steps that clients see.
LEMMA RequestMatches ==
    ASSUME Typed, NEW a \in Allocs, NEW c \in Conductors, alloc[a].state = "new",
           alloc' = NewRow(c, a), UNCHANGED node
    PROVE  Abstract!Next
<1>1. Abstract!Request(a)
  BY DEF Typed, RowsTyped, AllocRows, NewRow, Status, Abstract!Request
<1> QED BY <1>1 DEF Abstract!Next

LEMMA ReleaseMatches ==
    ASSUME Typed, NEW a \in Allocs, Exists(a), alloc'[a].state = "gone",
           \A b \in Allocs \ {a} : alloc'[b].state = alloc[b].state,
           \A n \in Nodes : node'[n].allocation =
                              IF node[n].allocation = a THEN None ELSE node[n].allocation
    PROVE  Abstract!Next
<1>1. Abstract!Release(a)
  BY DEF Typed, RowsTyped, AllocRows, Exists, Status, Abstract!Release
<1> QED BY <1>1 DEF Abstract!Next

LEMMA GrantMatches ==
    ASSUME Typed, NEW a \in Allocs, NEW n \in Nodes, alloc[a].state = "allocating",
           node[n].allocation = None,
           alloc'[a].state = "active", \A b \in Allocs \ {a} : alloc'[b].state = alloc[b].state,
           node'[n].allocation = a,
           \A m \in Nodes \ {n} : node'[m].allocation = node[m].allocation
    PROVE  Abstract!Next
<1>1. Abstract!Grant(a, n)
  BY DEF Status, Abstract!Grant
<1> QED BY <1>1 DEF Abstract!Next

LEMMA FailMatches ==
    ASSUME Typed, NEW a \in Allocs, alloc[a].state = "allocating",
           alloc'[a].state = "error", \A b \in Allocs \ {a} : alloc'[b].state = alloc[b].state,
           UNCHANGED node
    PROVE  Abstract!Next
<1>1. Abstract!Fail(a)
  BY DEF Status, Abstract!Fail
<1> QED BY <1>1 DEF Abstract!Next

LEMMA RemovalMatches ==
    ASSUME Typed, NEW a \in Allocs, alloc' = DestroyedRow(a),
           \A n \in Nodes : node'[n].allocation = Unlinked(a)[n].allocation, Exists(a)
    PROVE  Abstract!Next
<1>1. /\ alloc'[a].state = "gone"
      /\ \A b \in Allocs \ {a} : alloc'[b].state = alloc[b].state
  BY DEF Typed, RowsTyped, AllocRows, DestroyedRow
<1>2. \A n \in Nodes : node'[n].allocation =
                         IF node[n].allocation = a THEN None ELSE node[n].allocation
  BY UnlinkedKeeps DEF Typed
<1> QED BY <1>1, <1>2, ReleaseMatches

LEMMA StepsMatch ==
    ASSUME Typed, Discipline, Next
    PROVE  Abstract!Next \/ Quiet
<1> USE DEF Typed, RowsTyped
<1>1. ASSUME NEW t \in Threads, ThreadStep(t) PROVE Abstract!Next \/ Quiet
  <2> DEFINE a == thread[t].on  n == thread[t].node
  <2>1. ASSUME ListCandidates(t) \/ NextAttempt(t) PROVE Quiet
    BY <2>1 DEF ListCandidates, NextAttempt, Quiet
  <2>2. ASSUME NEW m \in Nodes, TryNode(t, m) PROVE Quiet
    <3>1. /\ UNCHANGED alloc
          /\ \/ UNCHANGED node
             \/ node' = [node EXCEPT ![m] = [node[m] EXCEPT !.lock = t[1]]]
      BY <2>2 DEF TryNode
    <3> QED BY <3>1 DEF Quiet, NodeRows
  <2>3. CASE TryBackfill(t)
    BY <2>3 DEF TryBackfill, Quiet, NodeRows
  <2>4. CASE FailAllocation(t)
    <3>1. a \in Allocs /\ alloc' = FailedRow(a) /\ UNCHANGED node /\ Busy(t)
      BY <2>4 DEF FailAllocation, KnownWorks, Busy
    <3>2. Undecided(a)
      BY <3>1 DEF Discipline, WorkDiscipline, ThreadsOwn
    <3> HIDE DEF a
    <3>3. CASE alloc[a].state = "gone"
      BY <3>1, <3>3 DEF FailedRow, Exists, Quiet
    <3>4. CASE alloc[a].state = "allocating"
      <4>1. /\ alloc'[a].state = "error"
            /\ \A b \in Allocs \ {a} : alloc'[b].state = alloc[b].state
        BY <3>1, <3>4 DEF FailedRow, Exists, AllocRows
      <4> QED BY <3>1, <3>4, <4>1, FailMatches
    <3> QED BY <3>2, <3>3, <3>4 DEF Undecided
  <2>5. CASE SaveAllocation(t)
    <3>0. n \in Nodes /\ a \in Allocs /\ thread[t].pc = "locked"
      BY <2>5 DEF SaveAllocation, KnownWorks
    <3>1. CASE Links(a, n)
      <4>0. Exists(a) /\ ~ Associated(a, n)
        BY <3>1 DEF Links
      <4>1. PICK l \in {t[1], None} \cup {node[n].lock} :
              /\ alloc' = [alloc EXCEPT ![a].state = "active", ![a].node = n]
              /\ node' = [node EXCEPT ![n] = [LinkedNode(a, n) EXCEPT !.lock = l]]
        <5>1. /\ alloc' = [alloc EXCEPT ![a].state = "active", ![a].node = n]
              /\ \/ node' = [node EXCEPT ![n] = [LinkedNode(a, n) EXCEPT !.lock = None]]
                 \/ node' = [node EXCEPT ![n] = LinkedNode(a, n)]
          BY <2>5, <3>1, <4>0 DEF SaveAllocation
        <5>2. LinkedNode(a, n) = [LinkedNode(a, n) EXCEPT !.lock = node[n].lock]
          <6>1. node[n] \in NodeRows
            BY <3>0
          <6> HIDE DEF a, n
          <6> QED BY <6>1 DEF LinkedNode, NodeRows
        <5> HIDE DEF a, n
        <5>3. CASE node' = [node EXCEPT ![n] = [LinkedNode(a, n) EXCEPT !.lock = None]]
          BY <5>1, <5>3
        <5>4. CASE node' = [node EXCEPT ![n] = LinkedNode(a, n)]
          BY <5>1, <5>2, <5>4
        <5> QED BY <5>1, <5>3, <5>4
      <4>2. node[n].allocation = None /\ alloc[a].state = "allocating"
        BY <3>0, <3>1, SavesFree
      <4> HIDE DEF a, n
      <4>3. /\ alloc'[a].state = "active"
            /\ \A b \in Allocs \ {a} : alloc'[b].state = alloc[b].state
            /\ node'[n].allocation = a
            /\ \A m \in Nodes \ {n} : node'[m].allocation = node[m].allocation
        BY <3>0, <4>1 DEF AllocRows, NodeRows, LinkedNode
      <4> QED BY <3>0, <4>2, <4>3, GrantMatches
    <3>2. CASE ~ Links(a, n)
      <4>1. /\ UNCHANGED alloc
            /\ \/ node' = [node EXCEPT ![n] = [node[n] EXCEPT !.lock = None]]
               \/ node' = node
        BY <2>5, <3>2 DEF SaveAllocation
      <4> HIDE DEF a, n
      <4> QED BY <3>0, <4>1 DEF Quiet, NodeRows
    <3> QED BY <3>1, <3>2
  <2> QED BY <1>1, <2>1, <2>2, <2>3, <2>4, <2>5 DEF ThreadStep
<1>2. ASSUME Requests PROVE Abstract!Next \/ Quiet
  <2>1. ASSUME NEW c \in Conductors, NEW a \in Allocs,
               CreateAllocation(c, a) \/ \E n \in Nodes : CreateBackfill(c, a, n)
        PROVE  Abstract!Next
    <3>1. alloc[a].state = "new" /\ alloc' = NewRow(c, a) /\ UNCHANGED node
      BY <2>1 DEF CreateAllocation, CreateBackfill
    <3> QED BY <3>1, RequestMatches
  <2>2. ASSUME NEW a \in Allocs, RequestDestroy(a) PROVE Quiet
    BY <2>2 DEF RequestDestroy, Quiet
  <2>3. ASSUME NEW c \in Conductors, NEW r \in requests, HandleDestroy(c, r)
        PROVE  Abstract!Next \/ Quiet
    <3> DEFINE a == r[1]
    <3>1. a \in Allocs
      BY DEF OthersTyped
    <3>2. \/ Exists(a) /\ alloc' = DestroyedRow(a) /\ node' = Unlinked(a)
          \/ UNCHANGED <<alloc, node>>
      BY <2>3 DEF HandleDestroy
    <3> HIDE DEF a
    <3>3. CASE UNCHANGED <<alloc, node>>
      BY <3>3 DEF Quiet
    <3>4. CASE Exists(a) /\ alloc' = DestroyedRow(a) /\ node' = Unlinked(a)
      BY <3>1, <3>4, RemovalMatches
    <3> QED BY <3>2, <3>3, <3>4
  <2> QED BY <1>2, <2>1, <2>2, <2>3 DEF Requests
<1>3. ASSUME NEW n \in Nodes, NodeStep(n) PROVE Abstract!Next \/ Quiet
  <2>0. /\ node[n].allocation # None => node[n].allocation \in Allocs
        /\ tearing[n].alloc # None => tearing[n].alloc \in Allocs
    BY DEF NodeRows, Tears
  <2>1. ASSUME NEW i \in Allocs \cup {Other}, SetInstance(n, i) PROVE Quiet
    BY <2>1 DEF SetInstance, Quiet, NodeRows
  <2>2. CASE RemoveInstance(n)
    <3> DEFINE a == node[n].allocation
    <3>1. CASE a = None
      BY <2>2, <3>1 DEF RemoveInstance, Quiet, NodeRows
    <3>2. CASE a # None
      <4>1. a \in Allocs /\ Unlinked(a) \in [Nodes -> NodeRows]
        BY <2>0, <3>2, TablesTyped
      <4>2. /\ alloc' = DestroyedRow(a)
            /\ node' = [Unlinked(a) EXCEPT ![n].instance = None]
        BY <2>2, <3>2 DEF RemoveInstance
      <4>3. Exists(a)
        BY <4>1 DEF Discipline, LinkDiscipline, LinksAgree, Exists
      <4> HIDE DEF a
      <4>4. \A m \in Nodes : node'[m].allocation = Unlinked(a)[m].allocation
        BY <4>1, <4>2 DEF NodeRows
      <4> QED BY <4>1, <4>2, <4>3, <4>4, RemovalMatches
    <3> QED BY <3>1, <3>2
  <2>3. CASE DestroyNode(n)
    <3>1. /\ \A a \in Allocs : alloc[a].node # n => alloc'[a] = alloc[a]
          /\ \A a \in Allocs : alloc[a].node = n => alloc'[a].state = "gone"
          /\ node'[n].allocation = None
          /\ \A m \in Nodes \ {n} : node'[m] = node[m]
      BY <2>3 DEF DestroyNode, DestroyedRow, AllocRows
    <3>2. \A a \in Allocs : alloc[a].node = n => node[n].allocation = a
      BY AllocationAssumptions DEF Discipline, LinkDiscipline, LinksAgree, LinkedIsActive
    <3>3. \A a \in Allocs, m \in Nodes :
             node[m].allocation = a => alloc[a].node = m /\ alloc[a].state = "active"
      BY DEF Discipline, LinkDiscipline, LinksAgree
    <3>4. CASE node[n].allocation = None
      <4>1. \A a \in Allocs : alloc[a].node # n
        BY <3>2, <3>4, AllocationAssumptions
      <4> QED BY <3>1, <3>4, <4>1 DEF Quiet
    <3>5. CASE node[n].allocation # None
      <4> DEFINE a == node[n].allocation
      <4>1. a \in Allocs /\ Exists(a) /\ alloc[a].node = n
        BY <2>0, <3>3, <3>5 DEF Exists
      <4>2. /\ alloc'[a].state = "gone"
            /\ \A b \in Allocs \ {a} : alloc'[b].state = alloc[b].state
        BY <3>1, <3>2, <4>1
      <4>3. \A m \in Nodes : node'[m].allocation =
                               IF node[m].allocation = a THEN None ELSE node[m].allocation
        BY <3>1, <3>3, <4>1
      <4> HIDE DEF a
      <4> QED BY <4>1, <4>2, <4>3, ReleaseMatches
    <3> QED BY <3>4, <3>5
  <2>4. CASE SetMaintenance(n) \/ Deploy(n) \/ DeployEnds(n) \/ CleaningEnds(n) \/ RemoveLock(n)
    <3>1. /\ UNCHANGED alloc
          /\ \/ \E b : node' = [node EXCEPT ![n] = [node[n] EXCEPT !.maintenance = b]]
             \/ \E q : node' = [node EXCEPT ![n] = [node[n] EXCEPT !.prov = q]]
             \/ node' = [node EXCEPT ![n] = [node[n] EXCEPT !.lock = None]]
      BY <2>4 DEF SetMaintenance, Deploy, DeployEnds, CleaningEnds, RemoveLock
    <3> QED BY <3>1 DEF Quiet, NodeRows
  <2>5. ASSUME NEW c \in Conductors, TearDown(c, n) PROVE Quiet
    BY <2>5 DEF TearDown, Quiet, NodeRows
  <2>6. CASE DropInstance(n)
    BY <2>6 DEF DropInstance, Quiet, NodeRows
  <2>7. CASE FinishTearDown(n)
    <3> DEFINE a == tearing[n].alloc
               found == a # None /\ Exists(a)
               rows == IF found THEN Unlinked(a) ELSE node
    <3>1. alloc' = IF found THEN DestroyedRow(a) ELSE alloc
      BY <2>7 DEF FinishTearDown
    <3>2. rows \in [Nodes -> NodeRows]
      BY <2>0, TablesTyped
    <3>3. \A m \in Nodes : node'[m].allocation = rows[m].allocation
      BY <2>7, <3>2 DEF FinishTearDown, NodeRows
    <3> HIDE DEF a
    <3>4. CASE found
      <4>1. a \in Allocs
        BY <2>0, <3>4 DEF a
      <4> QED BY <3>1, <3>3, <3>4, <4>1, RemovalMatches
    <3>5. CASE ~ found
      BY <3>1, <3>3, <3>5 DEF Quiet
    <3> QED BY <3>4, <3>5
  <2> QED BY <1>3, <2>1, <2>2, <2>3, <2>4, <2>5, <2>6, <2>7 DEF NodeStep
<1>4. ASSUME NEW c \in Conductors, ConductorStep(c) PROVE Quiet
  <2>1. CASE Start(c)
    <3>1. UNCHANGED alloc
      BY <2>1 DEF Start
    <3> QED BY <2>1, <3>1, StartKeeps DEF Quiet
  <2>2. ASSUME NEW a \in Allocs, NEW old \in Conductors, TakeOver(c, a, old) PROVE Quiet
    BY <2>2 DEF TakeOver, Quiet, AllocRows
  <2>3. ASSUME \/ Crash(c) \/ GoOffline(c) \/ Beat(c) \/ ListOrphans(c) \/ ListResume(c)
               \/ \E a \in Allocs : ResumeNext(c, a)
        PROVE  Quiet
    BY <2>3 DEF Crash, GoOffline, Beat, ListOrphans, ListResume, ResumeNext, Quiet
  <2> QED BY <1>4, <2>1, <2>2, <2>3 DEF ConductorStep, Recovery
<1> QED BY <1>1, <1>2, <1>3, <1>4 DEF Next

\* The conductors together are one matchmaker, see Matching.
THEOREM AllocationsImplementMatching == ASSUME Orderly PROVE Spec => ImplementsMatching
<1>1. Init => Abstract!Init
  <2> SUFFICES ASSUME Init PROVE Abstract!Init
    OBVIOUS
  <2>1. \A a \in Allocs : Status(a) = "new"
    BY DEF Init, Status
  <2>2. \A n \in Nodes : node[n].allocation = None
    BY DEF Init
  <2> QED BY <2>1, <2>2 DEF Abstract!Init
<1>2. Typed /\ Discipline /\ [Next]_vars =>
        [Abstract!Next]_<<[a \in Allocs |-> Status(a)], [n \in Nodes |-> node[n].allocation]>>
  <2> SUFFICES ASSUME Typed, Discipline, [Next]_vars
               PROVE  Abstract!Next \/ Quiet
    BY QuietStutters
  <2>1. CASE UNCHANGED vars
    BY <2>1 DEF vars, Quiet
  <2>2. CASE Next
    BY <2>2, StepsMatch
  <2> QED BY <2>1, <2>2
<1> QED BY <1>1, <1>2, StaysDisciplined, PTL DEF Spec, ImplementsMatching, Abstract!Spec
-----------------------------------------------------------------------------
(* Nodes in use keep their allocation. *)

InUse(n) == /\ node[n].prov = "active" /\ ~ node[n].maintenance
            /\ node[n].allocation # None
StaysInUse(n) == /\ node'[n].instance = node[n].instance
                 /\ node'[n].allocation = node[n].allocation

\* Its allocation is active, and it is the only one of that allocation.
LEMMA InUseLinked ==
    ASSUME Typed, Discipline, NEW n \in Nodes, InUse(n)
    PROVE  /\ node[n].allocation \in Allocs
           /\ node[n].instance = node[n].allocation
           /\ alloc[node[n].allocation].state = "active"
           /\ alloc[node[n].allocation].node = n
           /\ \A m \in Nodes : node[m].allocation = node[n].allocation => m = n
           /\ node[n].instance # None
<1>1. node[n].allocation \in Allocs
  BY DEF InUse, Typed, RowsTyped, NodeRows
<1>2. node[n].instance = node[n].allocation
  BY DEF InUse, Discipline, LinkDiscipline, InstanceKept, Torn
<1> QED BY <1>1, <1>2, AllocationAssumptions
        DEF Discipline, LinkDiscipline, LinksAgree, InUse

LEMMA StepsKeepInUse ==
    ASSUME Orderly, "stale" \notin Trouble, Typed, Discipline, Next, NEW k \in Nodes, InUse(k)
    PROVE  StaysInUse(k)
<1> USE DEF Typed, RowsTyped
<1>0. CASE node'[k] = node[k]
  BY <1>0 DEF StaysInUse
<1>1. ASSUME NEW t \in Threads, ThreadStep(t) PROVE StaysInUse(k)
  <2> DEFINE a == thread[t].on  n == thread[t].node
  <2>1. ASSUME ListCandidates(t) \/ NextAttempt(t) \/ FailAllocation(t) PROVE UNCHANGED node
    BY <2>1 DEF ListCandidates, NextAttempt, FailAllocation
  <2>2. ASSUME NEW m \in Nodes, TryNode(t, m) PROVE StaysInUse(k)
    <3>1. \/ UNCHANGED node
          \/ node' = [node EXCEPT ![m] = [node[m] EXCEPT !.lock = t[1]]]
      BY <2>2 DEF TryNode
    <3> QED BY <3>1 DEF StaysInUse, NodeRows
  <2>3. CASE TryBackfill(t)
    BY <2>3 DEF TryBackfill, StaysInUse, NodeRows
  <2>4. CASE SaveAllocation(t)
    <3>0. n \in Nodes /\ a \in Allocs /\ thread[t].pc = "locked"
      BY <2>4 DEF SaveAllocation, KnownWorks
    <3>1. CASE Links(a, n)
      <4>1. node[n].allocation = None
        BY <3>0, <3>1, SavesFree
      <4>2. n # k
        BY <4>1 DEF InUse
      <4>3. node'[k] = node[k]
        BY <2>4, <3>0, <4>2 DEF SaveAllocation
      <4> QED BY <1>0, <4>3
    <3>2. CASE ~ Links(a, n)
      <4>1. \/ node' = [node EXCEPT ![n] = [node[n] EXCEPT !.lock = None]]
            \/ node' = node
        BY <2>4, <3>2 DEF SaveAllocation
      <4> HIDE DEF a, n
      <4> QED BY <3>0, <4>1 DEF StaysInUse, NodeRows
    <3> QED BY <3>1, <3>2
  <2> QED BY <1>0, <1>1, <2>1, <2>2, <2>3, <2>4 DEF ThreadStep
<1>2. ASSUME Requests PROVE StaysInUse(k)
  <2>1. ASSUME NEW c \in Conductors, NEW a \in Allocs,
               \/ CreateAllocation(c, a)
               \/ \E n \in Nodes : CreateBackfill(c, a, n)
        PROVE  UNCHANGED node
    BY <2>1 DEF CreateAllocation, CreateBackfill
  <2>2. ASSUME NEW a \in Allocs, RequestDestroy(a) PROVE UNCHANGED node
    BY <2>2 DEF RequestDestroy
  <2>3. ASSUME NEW c \in Conductors, NEW r \in requests, HandleDestroy(c, r)
        PROVE  StaysInUse(k)
    <3>1. r[1] \in Allocs /\ r[2] = alloc[r[1]].node
      BY <2>3 DEF OthersTyped, HandleDestroy
    <3>2. CASE UNCHANGED node
      BY <3>2 DEF StaysInUse
    <3>3. CASE node' = Unlinked(r[1]) /\ (r[2] # None => MayDeallocate(r[2]))
      <4>1. node[k].allocation # r[1]
        <5> SUFFICES ASSUME node[k].allocation = r[1] PROVE FALSE
          OBVIOUS
        <5>1. r[2] = k
          BY <3>1, InUseLinked
        <5>2. MayDeallocate(k)
          BY <3>3, <5>1, AllocationAssumptions
        <5> QED BY <5>2 DEF MayDeallocate, InUse
      <4> QED BY <1>0, <3>3, <4>1, UnlinkedKeeps
    <3> QED BY <2>3, <3>2, <3>3 DEF HandleDestroy
  <2> QED BY <1>0, <1>2, <2>1, <2>2, <2>3 DEF Requests
<1>3. ASSUME NEW n \in Nodes, NodeStep(n) PROVE StaysInUse(k)
  <2>0. /\ node[n].allocation # None => node[n].allocation \in Allocs
        /\ tearing[n].alloc # None => tearing[n].alloc \in Allocs
    BY DEF NodeRows, Tears
  <2>1. ASSUME NEW i \in Allocs \cup {Other}, SetInstance(n, i) PROVE StaysInUse(k)
    <3>1. n # k
      BY <2>1, InUseLinked DEF SetInstance
    <3> QED BY <1>0, <2>1, <3>1 DEF SetInstance
  <2>2. CASE RemoveInstance(n)
    <3> DEFINE a == node[n].allocation
    <3>1. CASE a = None
      <4>1. node' = [node EXCEPT ![n].instance = None] /\ n # k
        BY <2>2, <3>1 DEF RemoveInstance, InUse
      <4> QED BY <1>0, <4>1
    <3>2. CASE a # None
      <4>1. a \in Allocs /\ Unlinked(a) \in [Nodes -> NodeRows]
        BY <2>0, <3>2, TablesTyped
      <4>2. /\ node' = [Unlinked(a) EXCEPT ![n].instance = None]
            /\ node[n].maintenance \/ node[n].prov = "available"
        BY <2>2, <3>2 DEF RemoveInstance
      <4>3. n # k
        BY <4>2 DEF InUse
      <4>4. node[k].allocation # a
        BY <4>3, InUseLinked
      <4> HIDE DEF a
      <4>5. node'[k] = Unlinked(a)[k]
        BY <4>1, <4>2, <4>3
      <4> QED BY <1>0, <4>4, <4>5, UnlinkedKeeps
    <3> QED BY <3>1, <3>2
  <2>3. CASE DestroyNode(n)
    <3>1. n # k
      BY <2>3 DEF DestroyNode, InUse
    <3> QED BY <1>0, <2>3, <3>1 DEF DestroyNode
  <2>4. CASE SetMaintenance(n) \/ Deploy(n) \/ DeployEnds(n) \/ CleaningEnds(n) \/ RemoveLock(n)
    <3>1. \/ \E b : node' = [node EXCEPT ![n] = [node[n] EXCEPT !.maintenance = b]]
          \/ \E q : node' = [node EXCEPT ![n] = [node[n] EXCEPT !.prov = q]]
          \/ node' = [node EXCEPT ![n] = [node[n] EXCEPT !.lock = None]]
      BY <2>4 DEF SetMaintenance, Deploy, DeployEnds, CleaningEnds, RemoveLock
    <3> QED BY <3>1 DEF StaysInUse, NodeRows
  <2>5. ASSUME NEW c \in Conductors, TearDown(c, n) PROVE StaysInUse(k)
    BY <2>5 DEF TearDown, StaysInUse, NodeRows
  <2>6. CASE DropInstance(n)
    <3>1. n # k
      BY <2>6 DEF DropInstance, InUse, Discipline, LockDiscipline, TearsHeld
    <3> QED BY <1>0, <2>6, <3>1 DEF DropInstance
  <2>7. CASE FinishTearDown(n)
    <3> DEFINE a == tearing[n].alloc
               found == a # None /\ Exists(a)
               rows == IF found THEN Unlinked(a) ELSE node
    <3>1. rows \in [Nodes -> NodeRows]
      BY <2>0, TablesTyped
    <3>2. tearing[n].pc = "saved" /\ n # k
      BY <2>7 DEF FinishTearDown, InUse, Discipline, LockDiscipline, TearsHeld
    <3>3. node'[k] = rows[k]
      BY <2>7, <3>1, <3>2 DEF FinishTearDown
    <3>4. CASE found
      <4>1. node[n].allocation = a
        BY <3>2, <3>4 DEF Discipline, LockDiscipline, TearsKnow, Exists
      <4>2. node[k].allocation # a
        BY <3>2, <4>1, InUseLinked
      <4> QED BY <1>0, <3>3, <3>4, <4>2, UnlinkedKeeps
    <3>5. CASE ~ found
      BY <1>0, <3>3, <3>5
    <3> QED BY <3>4, <3>5
  <2> QED BY <1>3, <2>1, <2>2, <2>3, <2>4, <2>5, <2>6, <2>7 DEF NodeStep
<1>4. ASSUME NEW c \in Conductors, ConductorStep(c) PROVE StaysInUse(k)
  <2>1. CASE Start(c)
    BY <2>1, StartKeeps DEF StaysInUse
  <2>2. CASE Crash(c) \/ GoOffline(c) \/ Beat(c) \/ Recovery(c)
    BY <1>0, <2>2 DEF Crash, GoOffline, Beat, Recovery, ListResume, ListOrphans, ResumeNext,
                      TakeOver
  <2> QED BY <1>4, <2>1, <2>2 DEF ConductorStep
<1> QED BY <1>1, <1>2, <1>3, <1>4 DEF Next

\* A node in use outside maintenance loses its allocation to a tear down only,
\* as long as no request acts on a row that it read before.
THEOREM NodesInUseAreKept ==
    ASSUME Orderly, "stale" \notin Trouble
    PROVE  Spec => InUseIsKept
<1>1. Typed /\ Discipline /\ [Next]_vars =>
        [\A n \in Nodes :
           /\ node[n].prov = "active" /\ ~ node[n].maintenance
           /\ node[n].allocation # None
           => node'[n].instance = node[n].instance
              /\ node'[n].allocation = node[n].allocation]_vars
  BY StepsKeepInUse DEF InUse, StaysInUse
<1> QED BY <1>1, StaysDisciplined, PTL DEF Spec, InUseIsKept

=============================================================================

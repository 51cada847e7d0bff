--------------------------- MODULE ServicingProofs ---------------------------
(***************************************************************************)
(* What holds of Servicing for every list of steps a request may have.     *)
(***************************************************************************)
EXTENDS Servicing, TLAPS

----------------------------------------------------------------------------
(* Events *)

LEMMA SuccessorIs ==
    ASSUME NEW s \in States, NEW e, NEW t, <<e, t>> \in Moves(s)
    PROVE  Successor(s, e) = t /\ Allowed(s, e)
<1> DEFINE u == Successor(s, e)
<1>1. <<e, t>>[1] = e /\ <<e, t>>[2] = t /\ <<e, u>>[1] = e /\ <<e, u>>[2] = u
  OBVIOUS
<1>2. t \in States
  BY <1>1, TransitionsAreAFunction
<1>3. <<e, u>> \in Moves(s)
  BY <1>2 DEF Successor
<1> HIDE DEF u
<1>4. u = t
  BY <1>1, <1>3, TransitionsAreAFunction
<1> QED
  BY <1>2, <1>4 DEF Allowed, u

RowStates == {"active"} \cup ServiceStates

LEMMA RowStatesAreStates == RowStates \subseteq States
BY DEF RowStates, States, Stable, ServiceStates

LEMMA MovesOfServicing ==
    /\ Moves("active") =
          {<<"rebuild", "deploying">>, <<"delete", "deleting">>,
           <<"rescue", "rescuing">>, <<"service", "servicing">>}
    /\ Moves("servicing") =
          {<<"done", "active">>, <<"fail", "service failed">>,
           <<"wait", "service wait">>, <<"hold", "service hold">>}
    /\ Moves("service wait") =
          {<<"hold", "service hold">>, <<"resume", "servicing">>,
           <<"fail", "service failed">>, <<"abort", "service failed">>,
           <<"delete", "deleting">>}
    /\ Moves("service hold") =
          {<<"service", "servicing">>, <<"unhold", "service wait">>,
           <<"fail", "service failed">>, <<"abort", "service failed">>}
    /\ Moves("service failed") =
          {<<"service", "servicing">>, <<"rescue", "rescuing">>,
           <<"wait", "service wait">>, <<"hold", "service hold">>,
           <<"delete", "deleting">>, <<"abort", "active">>}
BY DEF Moves

\* The events of a servicing, and what they lead to.
Leads(s, e, t) == Successor(s, e) = t /\ Allowed(s, e)

LEMMA EventsOfServicing ==
    /\ Leads("active", "service", "servicing")
    /\ Leads("servicing", "done", "active")
    /\ Leads("servicing", "fail", "service failed")
    /\ Leads("servicing", "wait", "service wait")
    /\ Leads("servicing", "hold", "service hold")
    /\ Leads("service wait", "hold", "service hold")
    /\ Leads("service wait", "resume", "servicing")
    /\ Leads("service wait", "fail", "service failed")
    /\ Leads("service hold", "service", "servicing")
    /\ Leads("service hold", "unhold", "service wait")
    /\ Leads("service hold", "fail", "service failed")
    /\ Leads("service failed", "service", "servicing")
    /\ Leads("service failed", "abort", "active")
<1>1. {"active", "servicing", "service wait", "service hold", "service failed"} \subseteq States
  BY RowStatesAreStates DEF RowStates, ServiceStates
<1>2. ASSUME NEW s \in States, NEW e, NEW t, <<e, t>> \in Moves(s)
      PROVE  Leads(s, e, t)
  BY <1>2, SuccessorIs DEF Leads
<1>3. /\ Leads("active", "service", "servicing")
      /\ Leads("servicing", "done", "active")
      /\ Leads("servicing", "fail", "service failed")
      /\ Leads("servicing", "wait", "service wait")
      /\ Leads("servicing", "hold", "service hold")
  BY <1>1, <1>2, MovesOfServicing
<1>4. /\ Leads("service wait", "hold", "service hold")
      /\ Leads("service wait", "resume", "servicing")
      /\ Leads("service wait", "fail", "service failed")
  BY <1>1, <1>2, MovesOfServicing
<1>5. /\ Leads("service hold", "service", "servicing")
      /\ Leads("service hold", "unhold", "service wait")
      /\ Leads("service hold", "fail", "service failed")
      /\ Leads("service failed", "service", "servicing")
      /\ Leads("service failed", "abort", "active")
  BY <1>1, <1>2, MovesOfServicing
<1> QED
  BY <1>3, <1>4, <1>5

\* The states that the other events are refused in.
LEMMA Refused ==
    /\ ~Allowed("servicing", "service") /\ ~Allowed("service wait", "service")
    /\ ~Allowed("service wait", "wait") /\ ~Allowed("service wait", "done")
    /\ ~Allowed("active", "resume") /\ ~Allowed("servicing", "resume")
    /\ ~Allowed("service hold", "resume") /\ ~Allowed("service failed", "resume")
BY MovesOfServicing DEF Allowed

----------------------------------------------------------------------------
(* What the operations make of the row *)

NodeRows == [state : RowStates, maintenance : BOOLEAN, fault : BOOLEAN,
             step : {0} \cup Indices, kind : {"none"} \cup StepKinds,
             abortAfter : BOOLEAN, index : {0} \cup Indices, disabled : BOOLEAN,
             skip : BOOLEAN, polling : BOOLEAN, rebooting : BOOLEAN]

\* "m" is the row "n" in the state "t", with another step perhaps, and not in
\* the mode without a ramdisk unless "n" is.
Moved(n, m, t) ==
    /\ m \in NodeRows /\ m.state = t
    /\ m.maintenance <=> n.maintenance
    /\ m.fault <=> n.fault
    /\ m.disabled => n.disabled

\* The same, and perhaps quarantined: a fault comes with maintenance.
Spoiled(n, m, t) ==
    /\ m \in NodeRows /\ m.state = t
    /\ (n.fault => n.maintenance) => (m.fault => m.maintenance)
    /\ m.disabled => n.disabled

LEMMA MovedIsSpoiled ==
    ASSUME NEW n, NEW m, NEW t, Moved(n, m, t)
    PROVE  Spoiled(n, m, t)
BY DEF Moved, Spoiled

LEMMA MovedTwice ==
    ASSUME NEW n, NEW m, NEW l, NEW s, NEW t, Moved(n, m, s)
    PROVE  /\ Moved(m, l, t) => Moved(n, l, t)
           /\ Spoiled(m, l, t) => Spoiled(n, l, t)
BY DEF Moved, Spoiled

LEMMA FiredRow ==
    ASSUME NEW n \in NodeRows, NEW e, NEW t \in RowStates, Successor(n.state, e) = t
    PROVE  Moved(n, Fired(n, e), t)
BY DEF Fired, Moved, NodeRows

LEMMA EditedRow ==
    ASSUME NEW n \in NodeRows
    PROVE  /\ Moved(n, n, n.state)
           /\ Moved(n, WithoutStep(n), n.state) /\ Moved(n, NoFlags(n), n.state)
           /\ Moved(n, Wiped(n), n.state) /\ Moved(n, Listed(n), n.state)
           /\ Moved(n, WithoutStep(Wiped(n)), n.state)
<1>1. ASSUME NEW m \in NodeRows
      PROVE  /\ Moved(m, m, m.state)
             /\ Moved(m, WithoutStep(m), m.state) /\ Moved(m, NoFlags(m), m.state)
             /\ Moved(m, [m EXCEPT !.index = 0], m.state)
             /\ Moved(m, [m EXCEPT !.index = 0, !.disabled = FALSE], m.state)
  <2>1. Moved(m, m, m.state) /\ Moved(m, WithoutStep(m), m.state)
    BY DEF WithoutStep, Moved, NodeRows
  <2>2. Moved(m, NoFlags(m), m.state) /\ Moved(m, [m EXCEPT !.index = 0], m.state)
    BY DEF NoFlags, Moved, NodeRows
  <2>3. Moved(m, [m EXCEPT !.index = 0, !.disabled = FALSE], m.state)
    BY DEF Moved, NodeRows
  <2> QED
    BY <2>1, <2>2, <2>3
<1>2. Moved(n, Wiped(n), n.state)
  <2> DEFINE f == NoFlags(n)
  <2>1. Moved(n, f, n.state) /\ Wiped(n) = [f EXCEPT !.index = 0, !.disabled = FALSE]
    BY <1>1 DEF Wiped
  <2> HIDE DEF f
  <2>2. f \in NodeRows /\ f.state = n.state
    BY <2>1 DEF Moved
  <2> QED
    BY <1>1, <2>1, <2>2, MovedTwice
<1>3. Moved(n, Listed(n), n.state)
  <2> DEFINE w == WithoutStep(n)
  <2>1. Moved(n, w, n.state) /\ Listed(n) = [w EXCEPT !.index = 0]
    BY <1>1 DEF Listed
  <2> HIDE DEF w
  <2>2. w \in NodeRows /\ w.state = n.state
    BY <2>1 DEF Moved
  <2> QED
    BY <1>1, <2>1, <2>2, MovedTwice
<1>4. Moved(n, WithoutStep(Wiped(n)), n.state)
  <2> DEFINE w == Wiped(n)
  <2>1. Moved(n, w, n.state)
    BY <1>2
  <2> HIDE DEF w
  <2>2. Moved(w, WithoutStep(w), n.state)
    BY <1>1, <2>1 DEF Moved
  <2> QED
    BY <2>1, <2>2, MovedTwice DEF w
<1> QED
  BY <1>1, <1>2, <1>3, <1>4

LEMMA QuarantinedRow ==
    ASSUME NEW n \in NodeRows
    PROVE  Spoiled(n, Quarantined(n), n.state)
<1> DEFINE m == [n EXCEPT !.maintenance = @ \/ n.step # 0, !.fault = @ \/ n.step # 0]
           w == WithoutStep(m)
           f == NoFlags(w)
<1>1. Spoiled(n, m, n.state)
  <2>1. (n.maintenance \/ n.step # 0) \in BOOLEAN /\ (n.fault \/ n.step # 0) \in BOOLEAN
    OBVIOUS
  <2>2. PICK a \in BOOLEAN, b \in BOOLEAN :
           /\ a <=> n.maintenance \/ n.step # 0
           /\ b <=> n.fault \/ n.step # 0
           /\ m = [n EXCEPT !.maintenance = a, !.fault = b]
    BY <2>1
  <2> HIDE DEF m
  <2>3. m \in NodeRows /\ m.state = n.state /\ m.disabled = n.disabled
    BY <2>2 DEF NodeRows
  <2>4. (m.maintenance <=> a) /\ (m.fault <=> b)
    BY <2>2 DEF NodeRows
  <2>5. (n.fault => n.maintenance) => (m.fault => m.maintenance)
    BY <2>2, <2>4
  <2> QED
    BY <2>3, <2>5 DEF Spoiled
<1>2. Quarantined(n) \in {m, [f EXCEPT !.index = 0]}
  BY DEF Quarantined
<1> HIDE DEF m
<1>3. Moved(m, w, n.state)
  BY <1>1, EditedRow DEF Spoiled
<1> HIDE DEF w
<1>4. Moved(w, f, n.state)
  BY <1>3, EditedRow DEF Moved
<1> HIDE DEF f
<1>5. Moved(f, [f EXCEPT !.index = 0], n.state)
  BY <1>4 DEF Moved, NodeRows
<1>6. Moved(m, [f EXCEPT !.index = 0], n.state)
  BY <1>3, <1>4, <1>5, MovedTwice
<1>7. Spoiled(n, [f EXCEPT !.index = 0], n.state)
  BY <1>1, <1>6 DEF Spoiled, Moved
<1> QED
  BY <1>1, <1>2, <1>7

LEMMA FailedRow ==
    ASSUME NEW n \in NodeRows, n.state \in {"servicing", "service wait", "service failed"}
    PROVE  Spoiled(n, Failed(n), "service failed")
<1> DEFINE q == Quarantined(n)
<1>1. Spoiled(n, q, n.state)
  BY QuarantinedRow
<1>2. Failed(n) = IF n.state # "service failed" THEN Fired(q, "fail") ELSE q
  BY DEF Failed
<1> HIDE DEF q
<1>3. CASE n.state = "service failed"
  BY <1>1, <1>2, <1>3
<1>4. CASE n.state # "service failed"
  <2>1. q \in NodeRows /\ q.state = n.state
    BY <1>1 DEF Spoiled
  <2>2. Successor(q.state, "fail") = "service failed" /\ "service failed" \in RowStates
    BY <1>4, <2>1, EventsOfServicing DEF Leads, RowStates, ServiceStates
  <2>3. Moved(q, Failed(n), "service failed")
    BY <1>2, <1>4, <2>1, <2>2, FiredRow
  <2> QED
    BY <1>1, <2>3 DEF Spoiled, Moved
<1> QED
  BY <1>3, <1>4

----------------------------------------------------------------------------
(* The lists of steps *)

LEMMA StepsOfPlan ==
    ASSUME NEW p \in 1..Len(Plans)
    PROVE  /\ Plans[p] \in Seq(StepKinds) /\ Plans[p] # <<>>
           /\ Len(Plans[p]) \in Nat /\ 1 \in 1..Len(Plans[p])
           /\ 1..Len(Plans[p]) \subseteq Indices
           /\ \A k \in 1..Len(Plans[p]) : k \in Nat /\ Plans[p][k] \in StepKinds
<1>1. Plans[p] \in Seq(StepKinds) /\ Plans[p] # <<>>
  BY ServicingAssumption
<1>2. Len(Plans[p]) \in Nat /\ Len(Plans[p]) # 0
  BY <1>1
<1>3. 1..Len(Plans[p]) \subseteq Indices
  BY DEF Indices
<1> QED
  BY <1>1, <1>2, <1>3

LEMMA NextIndexInBounds ==
    ASSUME plan \in 1..Len(Plans), NEW n
    PROVE  NextIndex(n) \in {0} \cup Steps
BY StepsOfPlan DEF NextIndex, Steps

----------------------------------------------------------------------------
(* The invariant *)

Agents == [is : {"off", "booting"} \cup Up, cmd : {0} \cup Indices]
Jobs == [step : {0} \cup Indices, over : BOOLEAN]
Pcs == {"idle", "start", "continue", "next", "execute", "park", "finish",
        "abort", "cleanup"}

OthersTyped ==
    /\ lock \in {"free", "held", "dead"}
    /\ pc \in Pcs
    /\ at \in {0} \cup Steps
    /\ agent \in Agents
    /\ away \in BOOLEAN
    /\ job \in Jobs
    /\ casts \in Nat
    /\ recover \in BOOLEAN
    /\ plan \in 1..Len(Plans)
    /\ over \subseteq Indices
    /\ missing \in BOOLEAN
    /\ services \in 0..MaxServices
    /\ crashes \in 0..MaxCrashes

LEMMA Typed == TypeOK <=> node \in NodeRows /\ OthersTyped
BY DEF TypeOK, OthersTyped, NodeRows, RowStates, Agents, Jobs, Pcs

\* The state of the node says what the holder of the lock does (the worker that
\* unhold has started is in SERVICEWAIT), and a step that is looked up is one of
\* the plan.
Discipline ==
    /\ lock = "held" <=> pc # "idle"
    /\ pc = "start" => node.state = "servicing"
    /\ pc \in {"continue", "next", "execute", "park", "finish"}
         => node.state \in {"servicing", "service wait"}
    /\ pc = "abort" => node.state \in {"active", "service failed"}
    /\ pc = "cleanup" => node.state = "service failed"
    /\ pc \in {"next", "execute"} => at \in Steps
    /\ agent.is = "busy" => agent.cmd \in Indices

Inv == node \in NodeRows /\ OthersTyped /\ Discipline

LEMMA AgentAndJob ==
    /\ Off \in Agents /\ Booting \in Agents /\ NoJob \in Jobs
    /\ Off.is # "busy" /\ Booting.is # "busy"
BY DEF Off, Booting, NoJob, Agents, Jobs

LEMMA InvInit == Init => Inv
<1> SUFFICES ASSUME Init PROVE Inv
  OBVIOUS
<1>1. node \in NodeRows
  BY DEF Init, NodeRows, RowStates
<1>2. away \in BOOLEAN /\ recover \in BOOLEAN /\ missing \in BOOLEAN
  BY Zenon DEF Init
<1>3. plan \in 1..Len(Plans)
  <2>1. Len(Plans) \in Nat /\ Len(Plans) # 0
    BY ServicingAssumption
  <2> QED
    BY <2>1 DEF Init
<1>4. services \in 0..MaxServices /\ crashes \in 0..MaxCrashes
  BY ServicingAssumption DEF Init
<1>5. OthersTyped
  BY <1>2, <1>3, <1>4, AgentAndJob DEF Init, OthersTyped, Pcs
<1>6. Discipline
  BY DEF Init, Discipline, Off
<1> QED
  BY <1>1, <1>5, <1>6 DEF Inv

----------------------------------------------------------------------------
(* What the actions make of the row *)

LEMMA OperatorRows ==
    ASSUME node \in NodeRows
    PROVE  /\ DoNodeService =>
                 /\ node.state \in {"active", "service hold", "service failed"}
                 /\ node' \in NodeRows /\ node'.state = "servicing"
                 /\ node'.disabled \in DisableRamdisk
                 /\ (node'.fault <=> node.fault) /\ (node'.maintenance <=> node.maintenance)
           /\ Unhold => /\ node.state = "service hold"
                       /\ Moved(node, node', "service wait")
           /\ AbortLater => /\ node.state \in {"service wait", "service hold"}
                           /\ Moved(node, node', node.state)
           /\ AbortNow => \/ Acquire("abort") /\ Moved(node, node', "active")
                          \/ /\ May("no worker") /\ Briefly
                             /\ Moved(node, node', "service failed")
           /\ AbortFailed => /\ node.state = "service failed"
                            /\ Moved(node, node', "active")
           /\ UpdateMaintenance =>
                 /\ node' \in NodeRows /\ node'.state = node.state
                 /\ ~node'.fault /\ (node'.disabled <=> node.disabled)
<1>1. /\ {"active", "servicing", "service wait", "service failed"} \subseteq RowStates
      /\ node.state \in RowStates
      /\ DisableRamdisk \subseteq BOOLEAN
  BY ServicingAssumption DEF RowStates, ServiceStates, NodeRows
<1>2. ASSUME DoNodeService
      PROVE  /\ node.state \in {"active", "service hold", "service failed"}
             /\ node' \in NodeRows /\ node'.state = "servicing"
             /\ node'.disabled \in DisableRamdisk
             /\ (node'.fault <=> node.fault) /\ (node'.maintenance <=> node.maintenance)
  <2>1. PICK d \in DisableRamdisk : node' = Fired([node EXCEPT !.disabled = d], "service")
    BY <1>2 DEF DoNodeService
  <2> DEFINE n == [node EXCEPT !.disabled = d]
  <2>2. /\ n \in NodeRows /\ n.state = node.state /\ n.disabled = d
        /\ n.fault = node.fault /\ n.maintenance = node.maintenance
    BY <1>1 DEF NodeRows
  <2> HIDE DEF n
  <2>3. node.state \in {"active", "service hold", "service failed"}
    BY <1>1, <1>2, Refused DEF DoNodeService, RowStates, ServiceStates
  <2>4. Successor(n.state, "service") = "servicing"
    BY <2>2, <2>3, EventsOfServicing DEF Leads
  <2>5. node' = [n EXCEPT !.state = "servicing"]
    BY <2>1, <2>4 DEF n, Fired
  <2>6. /\ node' \in NodeRows /\ node'.state = "servicing" /\ node'.disabled = d
        /\ node'.fault = node.fault /\ node'.maintenance = node.maintenance
    BY <1>1, <2>2, <2>5 DEF NodeRows
  <2> QED
    BY <2>3, <2>6
<1>3. ASSUME Unhold
      PROVE  node.state = "service hold" /\ Moved(node, node', "service wait")
  BY <1>1, <1>3, EventsOfServicing, FiredRow DEF Unhold, Leads
<1>4. ASSUME AbortLater
      PROVE  /\ node.state \in {"service wait", "service hold"}
             /\ Moved(node, node', node.state)
  BY <1>4 DEF AbortLater, Moved, NodeRows
<1>5. ASSUME AbortNow
      PROVE  \/ Acquire("abort") /\ Moved(node, node', "active")
             \/ May("no worker") /\ Briefly /\ Moved(node, node', "service failed")
  <2> DEFINE n == Fired(node, "fail")
  <2>1. node.state \in {"service wait", "service hold"}
    BY <1>5 DEF AbortNow
  <2>2. Moved(node, n, "service failed")
    BY <1>1, <2>1, EventsOfServicing, FiredRow DEF Leads
  <2>3. \/ Acquire("abort") /\ node' = Fired(n, "abort")
        \/ May("no worker") /\ Briefly /\ node' = n
    BY <1>5 DEF AbortNow
  <2> HIDE DEF n
  <2>4. Moved(n, Fired(n, "abort"), "active")
    BY <1>1, <2>2, EventsOfServicing, FiredRow DEF Leads, Moved
  <2> QED
    BY <2>2, <2>3, <2>4, MovedTwice
<1>6. ASSUME AbortFailed
      PROVE  node.state = "service failed" /\ Moved(node, node', "active")
  BY <1>1, <1>6, EventsOfServicing, FiredRow DEF AbortFailed, Leads
<1>7. ASSUME UpdateMaintenance
      PROVE  /\ node' \in NodeRows /\ node'.state = node.state
             /\ ~node'.fault /\ (node'.disabled <=> node.disabled)
  <2>1. PICK m \in BOOLEAN : node' = [node EXCEPT !.maintenance = m, !.fault = FALSE]
    BY <1>7 DEF UpdateMaintenance
  <2> QED
    BY <2>1 DEF NodeRows
<1> QED
  BY <1>2, <1>3, <1>4, <1>5, <1>6, <1>7

\* What do_node_service may leave.
Stranded ==
    /\ node' \in NodeRows /\ node'.state = "servicing" /\ node.disabled
    /\ Invalid(node) \/ May("bad steps")
    /\ agent' = Off /\ away' = away /\ Release
Ramdisk ==
    /\ ~node'.disabled /\ agent' = Booting /\ away' = TRUE /\ Release
NoRamdisk ==
    /\ node' \in NodeRows /\ node'.state = "servicing"
    /\ agent' = Off /\ away' = away /\ Stay("next", 1)

LEMMA StartRow ==
    ASSUME node \in NodeRows, StartService, node.state = "servicing"
    PROVE  /\ (node'.fault <=> node.fault) /\ (node'.maintenance <=> node.maintenance)
           /\ \/ Stranded
              \/ Ramdisk /\ Moved(node, node', "service wait")
              \/ NoRamdisk
<1> DEFINE w == [Wiped(node) EXCEPT !.disabled = node.disabled]
<1>1. Moved(node, w, "servicing")
  <2> DEFINE v == Wiped(node)
  <2>1. Moved(node, v, "servicing") /\ w = [v EXCEPT !.disabled = node.disabled]
    BY EditedRow
  <2> HIDE DEF v
  <2> QED
    BY <2>1 DEF Moved, NodeRows
<1>2. PICK invalid \in {Invalid(node)} \cup {May("bad steps")} :
         LET n == IF invalid THEN w ELSE Listed(w)
         IN  CASE invalid /\ n.disabled ->
                    node' = n /\ agent' = Off /\ away' = away /\ Release
               [] ~n.disabled /\ (invalid \/ NeedsRamdisk) ->
                    /\ node' = Fired(n, "wait")
                    /\ agent' = Booting /\ away' = TRUE
                    /\ Release
               [] OTHER ->
                    /\ node' = [n EXCEPT !.disabled = TRUE]
                    /\ agent' = Off /\ away' = away
                    /\ Stay("next", 1)
  BY DEF StartService
<1> HIDE DEF w
<1> DEFINE n == IF invalid THEN w ELSE Listed(w)
<1>3. Moved(node, n, "servicing")
  <2>1. Moved(w, Listed(w), "servicing")
    BY <1>1, EditedRow DEF Moved
  <2> QED
    BY <1>1, <2>1, MovedTwice
<1>4. /\ invalid => Invalid(node) \/ May("bad steps")
      /\ \/ invalid /\ n.disabled /\ node' = n /\ agent' = Off /\ away' = away /\ Release
         \/ /\ ~n.disabled /\ node' = Fired(n, "wait")
            /\ agent' = Booting /\ away' = TRUE /\ Release
         \/ /\ node' = [n EXCEPT !.disabled = TRUE]
            /\ agent' = Off /\ away' = away /\ Stay("next", 1)
  BY <1>2
<1> HIDE DEF n
<1>5. CASE invalid /\ n.disabled /\ node' = n /\ agent' = Off /\ away' = away /\ Release
  BY <1>3, <1>4, <1>5 DEF Moved, Stranded
<1>6. CASE /\ ~n.disabled /\ node' = Fired(n, "wait")
           /\ agent' = Booting /\ away' = TRUE /\ Release
  <2>1. "service wait" \in RowStates /\ Successor(n.state, "wait") = "service wait"
    BY <1>3, EventsOfServicing DEF RowStates, ServiceStates, Moved, Leads
  <2>0. n \in NodeRows
    BY <1>3 DEF Moved
  <2>2. Moved(n, node', "service wait")
    BY <1>6, <2>0, <2>1, FiredRow
  <2>3. Moved(node, node', "service wait")
    BY <1>3, <2>2, MovedTwice
  <2> QED
    BY <1>6, <2>2, <2>3 DEF Moved, Ramdisk
<1>7. CASE /\ node' = [n EXCEPT !.disabled = TRUE]
           /\ agent' = Off /\ away' = away /\ Stay("next", 1)
  <2>1. /\ node' \in NodeRows /\ node'.state = "servicing"
        /\ node'.fault = n.fault /\ node'.maintenance = n.maintenance
    BY <1>3, <1>7 DEF Moved, NodeRows
  <2> QED
    BY <1>3, <1>7, <2>1 DEF Moved, NoRamdisk
<1> QED
  BY <1>4, <1>5, <1>6, <1>7

LEMMA WorkerRows ==
    ASSUME node \in NodeRows, plan \in 1..Len(Plans),
           node.state \in {"servicing", "service wait"}
    PROVE  /\ WorkerFails => Spoiled(node, node', "service failed")
           /\ ContinueService =>
                 \/ Moved(node, node', "service failed") /\ Stay("abort", 0)
                 \/ /\ Moved(node, node', node.state)
                    /\ (\E i \in Steps : Stay("next", i)) \/ Stay("finish", 0)
           /\ NextServiceStep /\ at \in Steps => Moved(node, node', node.state)
           /\ ExecuteInAgent \/ ExecutePolled => Moved(node, node', node.state)
           /\ ExecuteReserved =>
                 Moved(node, node', "service hold") \/ Moved(node, node', "service wait")
           /\ Park => \/ Moved(node, node', "service wait") /\ UNCHANGED <<agent, away>>
                      \/ /\ Spoiled(node, node', "service failed")
                         /\ MaybeTornDown(node') /\ agent' = Off
           /\ FinishService =>
                 \/ node.state = "servicing" /\ Moved(node, node', "active")
                 \/ Spoiled(node, node', "service failed")
           /\ FinishFails => Spoiled(node, node', "service failed")
<1>1. {"service failed", "service wait", "service hold", "active"} \subseteq RowStates
  BY DEF RowStates, ServiceStates
<1>2. WorkerFails => Spoiled(node, node', "service failed")
  BY FailedRow DEF WorkerFails
<1>3. ASSUME ContinueService
      PROVE  \/ Moved(node, node', "service failed") /\ Stay("abort", 0)
             \/ /\ Moved(node, node', node.state)
                /\ (\E i \in Steps : Stay("next", i)) \/ Stay("finish", 0)
  <2> DEFINE n == [node EXCEPT !.skip = TRUE, !.polling = FALSE]
             i == NextIndex(node)
  <2>1. Moved(node, n, node.state)
    BY DEF Moved, NodeRows
  <2>2. i \in {0} \cup Steps
    BY NextIndexInBounds
  <2>3. IF n.abortAfter
        THEN node' = Fired(n, "fail") /\ Stay("abort", 0)
        ELSE node' = n /\ Stay(IF i # 0 THEN "next" ELSE "finish", i)
    BY <1>3 DEF ContinueService
  <2> HIDE DEF n, i
  <2>4. n \in NodeRows /\ Leads(n.state, "fail", "service failed")
    BY <2>1, EventsOfServicing DEF Moved
  <2>5. Moved(n, Fired(n, "fail"), "service failed")
    BY <1>1, <2>4, FiredRow DEF Leads
  <2> QED
    BY <2>1, <2>2, <2>3, <2>5, MovedTwice
<1>4. ASSUME NextServiceStep, at \in Steps
      PROVE  Moved(node, node', node.state)
  <2>1. at \in Indices /\ Plans[plan][at] \in StepKinds
    BY <1>4, StepsOfPlan DEF Steps
  <2>2. PICK k \in Indices, kind \in StepKinds :
           node' = [node EXCEPT !.step = k, !.kind = kind, !.index = k,
                                !.abortAfter = FALSE, !.polling = FALSE]
    BY <1>4, <2>1 DEF NextServiceStep
  <2> QED
    BY <2>2 DEF Moved, NodeRows
<1>5. ASSUME ExecuteInAgent \/ ExecutePolled
      PROVE  Moved(node, node', node.state)
  <2>1. \/ node' = node
        \/ node' = [node EXCEPT !.skip = FALSE]
        \/ node' = [node EXCEPT !.skip = TRUE, !.polling = TRUE, !.rebooting = TRUE]
    BY <1>5 DEF ExecuteInAgent, ExecutePolled
  <2> QED
    BY <2>1 DEF Moved, NodeRows
<1>6. ASSUME ExecuteReserved
      PROVE  Moved(node, node', "service hold") \/ Moved(node, node', "service wait")
  <2>1. PICK e \in {"hold", "wait"} :
           Allowed(node.state, e) /\ node' = Fired(node, e)
    BY <1>6 DEF ExecuteReserved, Event
  <2>2. Leads(node.state, e, IF e = "hold" THEN "service hold" ELSE "service wait")
    BY <2>1, EventsOfServicing, Refused
  <2> QED
    BY <1>1, <2>1, <2>2, FiredRow DEF Leads
<1>7. ASSUME Park
      PROVE  \/ Moved(node, node', "service wait") /\ UNCHANGED <<agent, away>>
             \/ /\ Spoiled(node, node', "service failed")
                /\ MaybeTornDown(node') /\ agent' = Off
  <2>1. CASE node.state = "servicing"
    BY <1>1, <1>7, <2>1, EventsOfServicing, FiredRow DEF Park, Leads
  <2>2. CASE node.state = "service wait"
    BY <1>7, <2>2, Refused, FailedRow DEF Park
  <2> QED
    BY <2>1, <2>2
<1>8. ASSUME NEW n, n = WithoutStep(Wiped(node))
      PROVE  /\ Moved(node, n, node.state)
             /\ Spoiled(node, Failed(n), "service failed")
  <2>1. Moved(node, n, node.state)
    BY <1>8, EditedRow
  <2>2. Spoiled(n, Failed(n), "service failed")
    BY <2>1, FailedRow DEF Moved
  <2> QED
    BY <2>1, <2>2, MovedTwice
<1>9. FinishFails => Spoiled(node, node', "service failed")
  BY <1>8 DEF FinishFails
<1>10. ASSUME FinishService
       PROVE  \/ node.state = "servicing" /\ Moved(node, node', "active")
              \/ Spoiled(node, node', "service failed")
  <2> DEFINE n == WithoutStep(Wiped(node))
  <2>1. Moved(node, n, node.state) /\ Spoiled(node, Failed(n), "service failed")
    BY <1>8
  <2>2. node' = IF Allowed(n.state, "done") THEN Fired(n, "done") ELSE Failed(n)
    BY <1>10 DEF FinishService
  <2> HIDE DEF n
  <2>3. CASE node.state = "servicing"
    <3>1. Leads(n.state, "done", "active")
      BY <2>1, <2>3, EventsOfServicing DEF Moved
    <3>2. Moved(n, node', "active")
      BY <1>1, <2>1, <2>2, <3>1, FiredRow DEF Leads, Moved
    <3> QED
      BY <2>1, <2>3, <3>2, MovedTwice
  <2>4. CASE node.state = "service wait"
    <3>1. ~Allowed(n.state, "done")
      BY <2>1, <2>4, Refused DEF Moved
    <3> QED
      BY <2>1, <2>2, <3>1
  <2> QED
    BY <2>3, <2>4
<1> QED
  BY <1>2, <1>3, <1>4, <1>5, <1>6, <1>7, <1>9, <1>10

\* The worker of an abort, and the one that cleans up after a timeout.
LEMMA CleanUpRows ==
    ASSUME node \in NodeRows
    PROVE  /\ AbortService => Spoiled(node, node', node.state)
           /\ CleanUpTimeout /\ node.state = "service failed" =>
                 Spoiled(node, node', "service failed")
<1>1. Spoiled(node, WithoutStep(Wiped(node)), node.state)
  BY EditedRow, MovedIsSpoiled
<1> QED
  BY <1>1, QuarantinedRow, FailedRow DEF AbortService, CleanUpTimeout, WorkerFails

LEMMA HeartbeatRows ==
    ASSUME node \in NodeRows, Heartbeats \/ HeartbeatBreaks
    PROVE  /\ node.state = "service wait" /\ lock = "free"
           /\ UNCHANGED <<job, casts, recover, history, counters>>
           /\ \/ /\ Spoiled(node, node', "service failed") /\ UNCHANGED <<lock, pc, at>>
                 /\ \/ agent' = Off /\ MaybeTornDown(node')
                    \/ UNCHANGED <<agent, away>>
              \/ /\ Moved(node, node', "service wait") /\ agent' = Booting
                 /\ UNCHANGED <<lock, pc, at, away>>
              \/ /\ Moved(node, node', "servicing") /\ Acquire("continue")
                 /\ UNCHANGED <<agent, away>>
<1>1. {"service failed", "servicing"} \subseteq RowStates
  BY DEF RowStates, ServiceStates
<1>2. CASE HeartbeatInMaintenance \/ HeartbeatBreaks
  BY <1>2, FailedRow DEF HeartbeatInMaintenance, HeartbeatBreaks, HeartbeatFails, Heartbeat
<1>3. CASE HeartbeatStepFailed
  <2>1. Moved(node, node', "service failed")
    BY <1>1, <1>3, EventsOfServicing, FiredRow DEF HeartbeatStepFailed, Heartbeat, Leads
  <2> QED
    BY <1>3, <2>1, MovedIsSpoiled DEF HeartbeatStepFailed, Heartbeat
<1>4. CASE HeartbeatReboots
  <2>1. node' = [node EXCEPT !.rebooting = TRUE] /\ node.state = "service wait"
    BY <1>4 DEF HeartbeatReboots, Heartbeat
  <2>2. Moved(node, node', "service wait")
    BY <2>1 DEF Moved, NodeRows
  <2> QED
    BY <1>4, <2>2 DEF HeartbeatReboots, Heartbeat
<1>5. ASSUME NEW n, Moved(node, n, node.state), HeartbeatContinues(n)
      PROVE  /\ node.state = "service wait" /\ lock = "free"
             /\ UNCHANGED <<job, casts, recover, history, counters>>
             /\ Moved(node, node', "servicing") /\ Acquire("continue")
             /\ UNCHANGED <<agent, away>>
  <2>1. node.state = "service wait" /\ lock = "free" /\ node' = Fired(n, "resume")
    BY <1>5 DEF HeartbeatContinues, Heartbeat
  <2>2. n \in NodeRows /\ Leads(n.state, "resume", "servicing")
    BY <1>5, <2>1, EventsOfServicing DEF Moved
  <2>3. Moved(n, node', "servicing")
    BY <1>1, <2>1, <2>2, FiredRow DEF Leads
  <2> QED
    BY <1>5, <2>1, <2>3, MovedTwice DEF HeartbeatContinues
<1>6. CASE HeartbeatFirst \/ HeartbeatFresh \/ HeartbeatDone
  <2>1. Moved(node, [node EXCEPT !.rebooting = FALSE], node.state)
    BY DEF Moved, NodeRows
  <2>2. Moved(node, Listed(node), node.state) /\ Moved(node, node, node.state)
    BY EditedRow
  <2> QED
    BY <1>5, <1>6, <2>1, <2>2 DEF HeartbeatFirst, HeartbeatFresh, HeartbeatDone
<1> QED
  BY <1>2, <1>3, <1>4, <1>6 DEF Heartbeats

LEMMA ConductorRows ==
    ASSUME node \in NodeRows
    PROVE  /\ ContinueNodeService =>
                 \/ /\ node.state = "service wait" /\ Moved(node, node', "servicing")
                    /\ Spawn("continue")
                 \/ node' = node /\ Briefly
           /\ CheckServicewaitTimeouts =>
                 /\ node.state = "service wait" /\ Moved(node, node', "service failed")
           /\ CorrectStuckStates =>
                 \/ /\ node.state = "servicing" /\ lock = "free"
                    /\ Moved(node, node', "service failed")
                 \/ /\ node' = node
                    /\ node.state # "servicing" \/ lock # "free" \/ PassedOver
<1>1. /\ {"servicing", "service failed"} \subseteq RowStates
      /\ node.state \in {"active", "servicing", "service wait", "service hold", "service failed"}
  BY DEF RowStates, ServiceStates, NodeRows
<1>2. ASSUME node.state = "service wait"
      PROVE  /\ Moved(node, Fired(node, "resume"), "servicing")
             /\ Moved(node, Fired(node, "fail"), "service failed")
  BY <1>1, <1>2, EventsOfServicing, FiredRow DEF Leads
<1>3. ASSUME node.state = "servicing"
      PROVE  Moved(node, Fired(node, "fail"), "service failed")
  BY <1>1, <1>3, EventsOfServicing, FiredRow DEF Leads
<1>4. Allowed(node.state, "resume") => node.state = "service wait"
  BY <1>1, Refused
<1>5. ContinueNodeService =>
         \/ /\ node.state = "service wait" /\ Moved(node, node', "servicing")
            /\ Spawn("continue")
         \/ node' = node /\ Briefly
  BY <1>2, <1>4 DEF ContinueNodeService
<1>6. CorrectStuckStates =>
         \/ /\ node.state = "servicing" /\ lock = "free"
            /\ Moved(node, node', "service failed")
         \/ /\ node' = node
            /\ node.state # "servicing" \/ lock # "free" \/ PassedOver
  BY <1>3 DEF CorrectStuckStates, StuckStates
<1> QED
  BY <1>2, <1>5, <1>6 DEF CheckServicewaitTimeouts

----------------------------------------------------------------------------
(* Every step keeps the types *)

LEMMA Current ==
    ASSUME Inv
    PROVE  /\ node \in NodeRows /\ plan \in 1..Len(Plans) /\ Steps \subseteq Indices
           /\ agent \in Agents /\ (agent.is = "busy" => agent.cmd \in Indices)
           /\ away \in BOOLEAN /\ job \in Jobs /\ casts \in Nat /\ recover \in BOOLEAN
           /\ over \subseteq Indices /\ missing \in BOOLEAN
BY StepsOfPlan DEF Inv, OthersTyped, Discipline, Steps

LEMMA AgentLeft ==
    ASSUME Inv, agent' \in {agent, Off, Booting}
    PROVE  agent' \in Agents /\ (agent'.is = "busy" => agent'.cmd \in Indices)
BY AgentAndJob, Current

\* The lock is given up, or it is free and stays so: any state will do.
LEMMA ReleasingStep ==
    ASSUME Inv, node' \in NodeRows, Release \/ (lock = "free" /\ UNCHANGED <<lock, pc, at>>),
           agent' \in Agents, agent'.is = "busy" => agent'.cmd \in Indices,
           away' \in BOOLEAN, job' \in Jobs, casts' \in Nat, recover' \in BOOLEAN,
           over' \subseteq Indices, UNCHANGED <<plan, missing, counters>>
    PROVE  Inv'
<1>1. Discipline'
  BY DEF Inv, Discipline, Release
<1>2. at' \in {0} \cup Steps'
  BY DEF Inv, OthersTyped, Release, Steps
<1> QED
  BY <1>1, <1>2 DEF Inv, OthersTyped, Release, Pcs, counters

\* The holder of the lock goes on.
LEMMA WorkingStep ==
    ASSUME Inv, NEW what \in {"next", "execute", "park", "finish", "abort"},
           NEW k \in {0} \cup Steps,
           lock = "held", node' \in NodeRows, Stay(what, k),
           what = "abort" => node'.state = "service failed",
           what # "abort" => node'.state \in {"servicing", "service wait"},
           what \in {"next", "execute"} => k \in Steps,
           agent' \in Agents, agent'.is = "busy" => agent'.cmd \in Indices,
           away' \in BOOLEAN, job' \in Jobs, casts' \in Nat, over' \subseteq Indices,
           UNCHANGED <<recover, plan, missing, counters>>
    PROVE  Inv'
<1>0. Steps' = Steps
  BY DEF Steps
<1>1. Discipline'
  BY <1>0 DEF Inv, Discipline, Stay
<1> QED
  BY <1>0, <1>1 DEF Inv, OthersTyped, Stay, Pcs, counters

\* The lock is taken.
LEMMA AcquiringStep ==
    ASSUME Inv, NEW what \in {"start", "continue", "cleanup", "abort"},
           Acquire(what), node' \in NodeRows,
           what = "start" => node'.state = "servicing",
           what = "continue" => node'.state \in {"servicing", "service wait"},
           what = "cleanup" => node'.state = "service failed",
           what = "abort" => node'.state = "active",
           agent' = agent, away' = away, job' = job, casts' \in Nat, recover' = recover,
           plan' \in 1..Len(Plans), missing' \in BOOLEAN, over' = over,
           services' \in 0..MaxServices, crashes' = crashes
    PROVE  Inv'
<1>1. Discipline'
  BY DEF Inv, Discipline, Acquire
<1> QED
  BY <1>1 DEF Inv, OthersTyped, Acquire, Pcs

LEMMA OperatorStep == ASSUME Inv, Operator PROVE Inv'
<1> USE Current
<1>1. CASE DoNodeService
  <2>1. node' \in NodeRows /\ node'.state = "servicing"
    BY <1>1, OperatorRows
  <2>2. missing' \in BOOLEAN /\ plan' \in 1..Len(Plans)
    BY <1>1 DEF DoNodeService
  <2>3. services' \in 0..MaxServices
    BY <1>1, ServicingAssumption DEF DoNodeService, Inv, OthersTyped
  <2>4. Acquire("start") /\ UNCHANGED <<agent, away, job, casts, recover, over, crashes>>
    BY <1>1 DEF DoNodeService
  <2> QED
    BY <2>1, <2>2, <2>3, <2>4, AcquiringStep
<1>2. CASE Unhold \/ AbortNow \/ AbortFailed \/ AbortLater \/ UpdateMaintenance
  <2>1. UNCHANGED <<agent, away, job, casts, recover, history, counters>>
    BY <1>2 DEF Unhold, AbortNow, AbortFailed, AbortLater, UpdateMaintenance
  <2>2. /\ node' \in NodeRows
        /\ \/ Briefly
           \/ Acquire("continue") /\ node'.state = "service wait"
           \/ Acquire("abort") /\ node'.state = "active"
    BY <1>2, OperatorRows DEF Moved, Unhold, Spawn, AbortLater, AbortFailed, UpdateMaintenance
  <2>3. CASE Briefly
    BY <2>1, <2>2, <2>3, ReleasingStep DEF Briefly, history
  <2>4. CASE ~Briefly
    <3>1. services' \in 0..MaxServices /\ crashes' = crashes
      BY <2>1 DEF counters, Inv, OthersTyped
    <3> QED
      BY <2>1, <2>2, <2>4, <3>1, AcquiringStep DEF history
  <2> QED
    BY <2>3, <2>4
<1> QED
  BY <1>1, <1>2 DEF Operator

\* What the holder of the lock works on.
LEMMA AtWork ==
    ASSUME Inv
    PROVE  /\ Working("start") => node.state = "servicing"
           /\ \A what \in {"continue", "next", "execute", "park", "finish"} :
                 Working(what) => node.state \in {"servicing", "service wait"}
           /\ Working("abort") => node.state \in {"active", "service failed"}
           /\ Working("cleanup") => node.state = "service failed"
           /\ Working("next") \/ Working("execute") => at \in Steps
BY DEF Inv, Discipline, Working

LEMMA AdvanceTo ==
    ASSUME Inv, Advance, at \in Steps
    PROVE  (\E k \in Steps : Stay("next", k)) \/ Stay("finish", 0)
<1>1. Len(Plans[plan]) \in Nat /\ at \in Nat /\ at >= 1
  BY StepsOfPlan, Current DEF Steps
<1>2. CASE at < Len(Plans[plan])
  <2>1. at + 1 \in Steps
    BY <1>1, <1>2 DEF Steps
  <2> QED
    BY <1>2, <2>1 DEF Advance
<1> QED
  BY <1>2 DEF Advance

\* Where the worker of an action finds the node, and who gives the lock up.
Releasing ==
    \/ StartFails \/ ExecuteFails \/ ExecuteReserved \/ Park \/ FinishService
    \/ FinishFails \/ AbortService \/ CleanUpTimeout

LEMMA Workplace ==
    ASSUME Inv
    PROVE  /\ StartService \/ StartFails => node.state = "servicing"
           /\ ContinueService \/ NextServiceStep \/ ExecuteSync \/ ExecuteFails
              \/ ExecuteInAgent \/ ExecutePolled \/ ExecuteReserved \/ Park
              \/ FinishService \/ FinishFails => node.state \in {"servicing", "service wait"}
           /\ AbortService => node.state \in {"active", "service failed"}
           /\ CleanUpTimeout => node.state = "service failed"
           /\ NextServiceStep \/ ExecuteSync \/ ExecuteInAgent \/ ExecutePolled
              \/ ExecuteReserved => at \in Steps
           /\ Worker => lock = "held"
           /\ Releasing => Release
<1>1. /\ StartService \/ StartFails => Working("start")
      /\ ContinueService => Working("continue")
      /\ NextServiceStep => Working("next")
      /\ ExecuteSync \/ ExecuteFails \/ ExecuteInAgent \/ ExecutePolled \/ ExecuteReserved
           => Working("execute")
      /\ Park => Working("park")
      /\ FinishService \/ FinishFails => Working("finish")
      /\ AbortService => Working("abort")
      /\ CleanUpTimeout => Working("cleanup")
  BY DEF StartService, StartFails, ContinueService, NextServiceStep, ExecuteSync,
     ExecuteFails, ExecuteInAgent, ExecutePolled, ExecuteReserved, Executing, Park,
     FinishService, FinishFails, AbortService, CleanUpTimeout
<1>2. Worker => lock = "held"
  BY <1>1 DEF Worker, Working
<1>3. Releasing => Release
  BY DEF Releasing, StartFails, ExecuteFails, WorkerFails, ExecuteReserved, Park,
     FinishService, FinishFails, AbortService, CleanUpTimeout
<1> QED
  BY <1>1, <1>2, <1>3, AtWork

LEMMA AwayTyped ==
    ASSUME Inv, NEW n, MaybeTornDown(n) \/ TornDown(n)
    PROVE  away' \in BOOLEAN
<1>1. away \in BOOLEAN
  BY Current
<1>2. CASE MaybeTornDown(n)
  BY <1>1, <1>2, Zenon DEF MaybeTornDown
<1>3. CASE TornDown(n)
  BY <1>1, <1>3 DEF TornDown
<1> QED
  BY <1>2, <1>3

LEMMA WorkerReleases ==
    ASSUME Inv, Releasing
    PROVE  Inv'
<1> USE Current
<1>1. Release
  BY Workplace
<1>2. node' \in NodeRows
  <2>1. CASE StartFails \/ ExecuteFails \/ ExecuteReserved \/ Park \/ FinishService \/ FinishFails
    <3>1. node.state \in {"servicing", "service wait"}
      BY <2>1, Workplace
    <3> QED
      BY <2>1, <3>1, WorkerRows DEF StartFails, ExecuteFails, Moved, Spoiled
  <2>2. CASE AbortService \/ CleanUpTimeout
    BY <2>2, Workplace, CleanUpRows DEF Spoiled
  <2> QED
    BY <2>1, <2>2 DEF Releasing
<1>3. agent' \in {agent, Off}
  BY DEF Releasing, StartFails, ExecuteFails, WorkerFails, ExecuteReserved, Park,
     FinishService, FinishFails, AbortService, CleanUpTimeout
<1>4. agent' \in Agents /\ (agent'.is = "busy" => agent'.cmd \in Indices)
  BY <1>3, AgentLeft
<1>5. away' \in BOOLEAN
  <2>1. away' = away \/ \E n \in {node, node'} : MaybeTornDown(n) \/ TornDown(n)
    BY DEF Releasing, StartFails, ExecuteFails, WorkerFails, ExecuteReserved, Park,
       FinishService, FinishFails, AbortService, CleanUpTimeout
  <2> QED
    BY <2>1, AwayTyped
<1>6. /\ UNCHANGED <<job, casts, recover, plan, missing, counters>>
      /\ over' = over \/ (ExecuteReserved /\ over' = over \cup {at})
  BY DEF Releasing, StartFails, ExecuteFails, WorkerFails, ExecuteReserved, Park,
     FinishService, FinishFails, AbortService, CleanUpTimeout, history
<1>7. over' \subseteq Indices
  BY <1>6, Workplace
<1> QED
  BY <1>1, <1>2, <1>4, <1>5, <1>6, <1>7, ReleasingStep

LEMMA WorkerStep == ASSUME Inv, Worker PROVE Inv'
<1> USE Current
<1>0. lock = "held"
  BY Workplace
<1>1. CASE StartService
  <2>1. /\ over' \subseteq Indices /\ job' \in Jobs /\ casts' \in Nat
        /\ UNCHANGED <<recover, plan, missing, counters>>
    <3>1. over' = {} /\ UNCHANGED <<recover, plan, missing, counters>>
      BY <1>1 DEF StartService
    <3>2. (job' = NoJob /\ casts' = 0) \/ UNCHANGED <<job, casts>>
      BY <1>1 DEF StartService
    <3> QED
      BY <3>1, <3>2, AgentAndJob
  <2>2. \/ /\ node' \in NodeRows /\ agent' \in {Off, Booting}
           /\ away' \in BOOLEAN /\ Release
        \/ NoRamdisk
    BY <1>1, Workplace, StartRow DEF Stranded, Ramdisk, Moved
  <2>3. CASE NoRamdisk
    <3>1. 1 \in Steps
      BY StepsOfPlan DEF Steps
    <3> QED
      BY <1>0, <2>1, <2>3, <3>1, AgentAndJob, WorkingStep DEF NoRamdisk
  <2>4. CASE ~NoRamdisk
    BY <2>1, <2>2, <2>4, AgentLeft, ReleasingStep
  <2> QED
    BY <2>3, <2>4
<1>2. CASE ContinueService
  <2>1. UNCHANGED <<agent, away, job, casts, recover, history, counters>>
    BY <1>2 DEF ContinueService
  <2>2. node.state \in {"servicing", "service wait"}
    BY <1>2, Workplace
  <2>3. /\ node' \in NodeRows
        /\ \/ node'.state = "service failed" /\ Stay("abort", 0)
           \/ /\ node'.state \in {"servicing", "service wait"}
              /\ (\E i \in Steps : Stay("next", i)) \/ Stay("finish", 0)
    BY <1>2, <2>2, WorkerRows DEF Moved
  <2> QED
    BY <1>0, <2>1, <2>3, WorkingStep DEF history
<1>3. CASE NextServiceStep
  <2>1. node.state \in {"servicing", "service wait"} /\ at \in Steps
    BY <1>3, Workplace
  <2>2. node' \in NodeRows /\ node'.state \in {"servicing", "service wait"}
    BY <1>3, <2>1, WorkerRows DEF Moved
  <2>3. Stay("execute", at) /\ UNCHANGED <<agent, away, job, casts, recover, history, counters>>
    BY <1>3 DEF NextServiceStep
  <2> QED
    BY <1>0, <2>1, <2>2, <2>3, WorkingStep DEF history
<1>4. CASE ExecuteSync
  <2>1. node.state \in {"servicing", "service wait"} /\ at \in Steps
    BY <1>4, Workplace
  <2>2. (\E k \in Steps : Stay("next", k)) \/ Stay("finish", 0)
    BY <1>4, <2>1, AdvanceTo DEF ExecuteSync
  <2>3. /\ over' \subseteq Indices
        /\ UNCHANGED <<node, agent, away, job, casts, recover, plan, missing, counters>>
    BY <1>4, <2>1 DEF ExecuteSync
  <2> QED
    BY <1>0, <2>1, <2>2, <2>3, WorkingStep
<1>5. CASE ExecuteInAgent \/ ExecutePolled
  <2>1. node.state \in {"servicing", "service wait"} /\ at \in Indices
    BY <1>5, Workplace
  <2>2. node' \in NodeRows /\ node'.state \in {"servicing", "service wait"}
    BY <1>5, <2>1, WorkerRows DEF Moved
  <2>3. agent' \in Agents /\ (agent'.is = "busy" => agent'.cmd \in Indices)
    <3>1. CASE agent' \in {agent, Booting}
      BY <3>1, AgentLeft
    <3>2. CASE agent' = [is |-> "busy", cmd |-> at]
      BY <2>1, <3>2 DEF Agents, Up
    <3> QED
      BY <1>5, <3>1, <3>2 DEF ExecuteInAgent, ExecutePolled
  <2>4. /\ Stay("park", 0) /\ job' \in {job, [step |-> at, over |-> FALSE]}
        /\ UNCHANGED <<away, casts, recover, history, counters>>
    BY <1>5 DEF ExecuteInAgent, ExecutePolled
  <2>5. [step |-> at, over |-> FALSE] \in Jobs
    BY <2>1 DEF Jobs
  <2> QED
    BY <1>0, <2>2, <2>3, <2>4, <2>5, WorkingStep DEF history
<1> QED
  BY <1>1, <1>2, <1>3, <1>4, <1>5, WorkerReleases DEF Worker, Releasing

LEMMA ConductorStep ==
    ASSUME Inv, Heartbeats \/ HeartbeatBreaks \/ Conductor \/ CheckServicewaitTimeouts
    PROVE  Inv'
<1> USE Current
<1>1. CASE Heartbeats \/ HeartbeatBreaks
  <2>1. lock = "free" /\ UNCHANGED <<job, casts, recover, history, counters>>
    BY <1>1, HeartbeatRows
  <2>2. \/ /\ node' \in NodeRows /\ agent' \in {agent, Off, Booting}
           /\ away' = away \/ MaybeTornDown(node')
           /\ UNCHANGED <<lock, pc, at>>
        \/ /\ node' \in NodeRows /\ node'.state = "servicing" /\ Acquire("continue")
           /\ UNCHANGED <<agent, away>>
    BY <1>1, HeartbeatRows DEF Moved, Spoiled
  <2>3. CASE /\ node' \in NodeRows /\ agent' \in {agent, Off, Booting}
             /\ away' = away \/ MaybeTornDown(node')
             /\ UNCHANGED <<lock, pc, at>>
    <3>1. away' \in BOOLEAN
      BY <2>3, AwayTyped
    <3> QED
      BY <2>1, <2>3, <3>1, AgentLeft, ReleasingStep DEF history
  <2>4. CASE /\ node' \in NodeRows /\ node'.state = "servicing" /\ Acquire("continue")
             /\ UNCHANGED <<agent, away>>
    <3>1. services' \in 0..MaxServices /\ crashes' = crashes
      BY <2>1 DEF counters, Inv, OthersTyped
    <3> QED
      BY <2>1, <2>4, <3>1, AcquiringStep DEF history
  <2> QED
    BY <2>2, <2>3, <2>4
<1>2. CASE ContinueNodeService
  <2>1. casts' \in Nat /\ UNCHANGED <<agent, away, job, recover, history, counters>>
    <3>1. casts > 0 /\ casts' = casts - 1 /\ casts \in Nat
      BY <1>2 DEF ContinueNodeService
    <3>2. casts' \in Nat
      BY <3>1
    <3> QED
      BY <1>2, <3>2 DEF ContinueNodeService
  <2>2. /\ node' \in NodeRows
        /\ \/ Acquire("continue") /\ node'.state = "servicing"
           \/ Briefly
    BY <1>2, ConductorRows DEF Moved, Spawn
  <2>3. CASE Acquire("continue") /\ node'.state = "servicing"
    <3>1. services' \in 0..MaxServices /\ crashes' = crashes
      BY <2>1 DEF counters, Inv, OthersTyped
    <3> QED
      BY <2>1, <2>2, <2>3, <3>1, AcquiringStep DEF history
  <2>4. CASE Briefly
    BY <2>1, <2>2, <2>4, ReleasingStep DEF history, Briefly
  <2> QED
    BY <2>2, <2>3, <2>4
<1>3. CASE QueryJobStatus
  <2>1. casts' \in Nat /\ job' \in Jobs
    <3>1. casts' = casts + 1 /\ casts \in Nat /\ job' = NoJob
      BY <1>3 DEF QueryJobStatus
    <3> QED
      BY <3>1, AgentAndJob
  <2> QED
    BY <1>3, <2>1, ReleasingStep DEF QueryJobStatus, history, Briefly
<1>4. CASE CheckServicewaitTimeouts
  <2>1. node' \in NodeRows /\ node'.state = "service failed"
    BY <1>4, ConductorRows DEF Moved
  <2>2. /\ Acquire("cleanup") /\ UNCHANGED <<agent, away, job, casts, recover, history, counters>>
        /\ services' \in 0..MaxServices /\ crashes' = crashes
    BY <1>4 DEF CheckServicewaitTimeouts, counters, Inv, OthersTyped
  <2> QED
    BY <2>1, <2>2, AcquiringStep DEF history
<1> QED
  BY <1>1, <1>2, <1>3, <1>4 DEF Conductor

LEMMA RecoverStep == ASSUME Inv, Recover \/ Crash PROVE Inv'
<1> USE Current
<1>1. CASE Crash
  <2>1. crashes' \in 0..MaxCrashes
    BY <1>1, ServicingAssumption DEF Crash, Inv, OthersTyped
  <2>2. /\ UNCHANGED <<node, agent, away, job, casts, recover, plan, over, missing, services>>
        /\ lock' = "dead" /\ pc' = "idle" /\ at' = 0
    BY <1>1 DEF Crash, history
  <2>3. Discipline'
    BY <2>2 DEF Inv, Discipline
  <2> QED
    BY <2>1, <2>2, <2>3 DEF Inv, OthersTyped, Pcs
<1>2. CASE RemoveLock
  <2>1. /\ lock = "dead" /\ lock' = "free"
        /\ UNCHANGED <<node, pc, at, agent, away, job, casts, history, counters>>
    BY <1>2 DEF RemoveLock
  <2>2. recover' \in BOOLEAN
    BY <1>2, Zenon DEF RemoveLock
  <2>3. UNCHANGED <<plan, over, missing, services, crashes>> /\ Steps' = Steps
    BY <2>1 DEF history, counters, Steps
  <2>4. Discipline'
    BY <2>1, <2>3 DEF Inv, Discipline
  <2> QED
    BY <2>1, <2>2, <2>3, <2>4 DEF Inv, OthersTyped
<1>3. CASE CorrectStuckStates
  <2>1. recover' \in BOOLEAN /\ UNCHANGED <<lock, pc, at, agent, away, job, casts, history, counters>>
    BY <1>3 DEF CorrectStuckStates
  <2>2. node' \in NodeRows /\ (lock = "free" \/ node' = node)
    BY <1>3, ConductorRows DEF Moved
  <2>3. UNCHANGED <<plan, over, missing, services, crashes>> /\ Steps' = Steps
    BY <2>1 DEF history, counters, Steps
  <2>4. Discipline'
    BY <2>1, <2>2, <2>3 DEF Inv, Discipline
  <2> QED
    BY <2>1, <2>2, <2>3, <2>4 DEF Inv, OthersTyped
<1> QED
  BY <1>1, <1>2, <1>3 DEF Recover

LEMMA HardwareStep == ASSUME Inv, Hardware \/ AgentLost PROVE Inv'
<1> USE Current
<1>1. UNCHANGED <<node, lock, pc, at, away, casts, recover, plan, missing, counters>>
  BY DEF Hardware, AgentBoots, AgentFinishes, JobFinishes, AgentLost, history
<1>2. Steps' = Steps /\ UNCHANGED <<services, crashes>>
  BY <1>1 DEF Steps, counters
<1>3. agent' \in Agents /\ (agent'.is = "busy" => agent'.cmd \in Indices)
  <2>1. /\ [is |-> "fresh", cmd |-> 0] \in Agents
        /\ [is |-> "fresh", cmd |-> 0].is # "busy"
    BY DEF Agents, Up
  <2>2. CASE AgentBoots \/ AgentLost \/ JobFinishes
    <3>1. agent' \in {agent, [is |-> "fresh", cmd |-> 0], Off, Booting}
      BY <2>2 DEF AgentBoots, AgentLost, JobFinishes
    <3> QED
      BY <2>1, <3>1, AgentAndJob
  <2>3. CASE AgentFinishes
    <3>1. PICK outcome \in {"ok", "failed", "mismatch"} : agent' = [agent EXCEPT !.is = outcome]
      BY <2>3 DEF AgentFinishes, Outcomes
    <3> QED
      BY <3>1 DEF Agents, Up
  <2> QED
    BY <2>2, <2>3 DEF Hardware
<1>4. over' \subseteq Indices /\ job' \in Jobs
  <2>1. CASE JobFinishes
    BY <2>1 DEF JobFinishes, Jobs
  <2>2. CASE ~JobFinishes
    BY <2>2 DEF Hardware, AgentBoots, AgentFinishes, AgentLost, history
  <2> QED
    BY <2>1, <2>2
<1>5. Discipline'
  BY <1>1, <1>2, <1>3 DEF Inv, Discipline
<1> QED
  BY <1>1, <1>2, <1>3, <1>4, <1>5 DEF Inv, OthersTyped

LEMMA InvStep == ASSUME Inv, [Next]_vars PROVE Inv'
<1>1. CASE UNCHANGED vars
  <2>1. UNCHANGED <<plan, over, missing, services, crashes>> /\ Steps' = Steps
    BY <1>1 DEF vars, history, counters, Steps
  <2>2. UNCHANGED <<node, lock, pc, at, agent, away, job, casts, recover>>
    BY <1>1 DEF vars
  <2> QED
    BY <2>1, <2>2 DEF Inv, OthersTyped, Discipline
<1> QED
  BY <1>1, OperatorStep, WorkerStep, ConductorStep, RecoverStep, HardwareStep DEF Next

LEMMA Invariance == Spec => []Inv
<1>1. Inv /\ [Next]_vars => Inv'
  BY InvStep
<1> QED
  BY <1>1, InvInit, PTL DEF Spec

\* Every reachable state is well typed, whatever an operator asks for and
\* whatever goes wrong: a step that is looked up by its index is always in the
\* list of the request (_get_node_next_steps, do_next_service_step).
THEOREM TypeCorrect == Spec => []TypeOK
<1>1. Inv => TypeOK
  BY Typed DEF Inv
<1> QED
  BY <1>1, Invariance, PTL

----------------------------------------------------------------------------
(* A node in SERVICING is worked on *)

\* A worker is there, a conductor that died starts again (a take over leaves a
\* node in SERVICING alone) and comes to this node in its start, and a request that does without the ramdisk passes
\* the validation of its steps, the exception of which would end the worker and
\* nothing else (do_node_service).
Recovers ==
    /\ ~May("no worker") /\ ~May("passed over") /\ Recoveries \subseteq {"restart"}
    /\ TRUE \in DisableRamdisk =>
          /\ ~May("bad steps") /\ Late = {}
          /\ \A p \in 1..Len(Plans) : \A k \in 1..Len(Plans[p]) :
                Plans[p][k] \notin {"inband", "reboot"}

\* What is proved with it.
WorkedOn ==
    /\ ServicingIsWorkedOn
    /\ pc = "start" => node.disabled \in DisableRamdisk

\* What a step may do about it.
TakesLock == lock' # "free" /\ pc' # "start"
Settles == node'.state # "servicing" /\ pc' # "start"
Idles == node'.state = node.state /\ pc' # "start" /\ UNCHANGED <<lock, recover>>
Waits == UNCHANGED <<node, lock, pc, recover>>

LEMMA WorkedOnAfter ==
    ASSUME WorkedOn, TakesLock \/ Settles \/ Idles \/ Waits
    PROVE  WorkedOn'
BY DEF WorkedOn, ServicingIsWorkedOn, TakesLock, Settles, Idles, Waits

LEMMA FreeMeansIdle == ASSUME Inv, lock = "free" PROVE pc = "idle"
BY DEF Inv, Discipline

LEMMA StartWorksOn ==
    ASSUME Inv, WorkedOn, Recovers, StartService
    PROVE  TakesLock \/ Settles
<1> USE Current
<1>1. /\ node.state = "servicing" /\ lock = "held"
      /\ node.disabled \in DisableRamdisk
  BY Workplace DEF StartService, Working, WorkedOn, Worker
<1>2. ~Stranded
  <2> SUFFICES ASSUME Stranded PROVE FALSE
    OBVIOUS
  <2>1. node.disabled \in BOOLEAN /\ node.disabled
    BY DEF Stranded, NodeRows
  <2>2. TRUE \in DisableRamdisk
    BY <1>1, <2>1
  <2>3. ~NeedsRamdisk /\ plan \notin Late /\ ~May("bad steps")
    BY <2>2 DEF Recovers, NeedsRamdisk, Steps
  <2> QED
    BY <2>3 DEF Stranded, Invalid
<1>3. Ramdisk /\ Moved(node, node', "service wait") => Settles
  BY DEF Ramdisk, Moved, Release, Settles
<1>4. NoRamdisk => TakesLock
  BY <1>1 DEF NoRamdisk, Stay, TakesLock
<1> QED
  BY <1>1, <1>2, <1>3, <1>4, StartRow

LEMMA WorkerWorksOn ==
    ASSUME Inv, WorkedOn, Recovers, Worker
    PROVE  TakesLock \/ Settles
<1> USE Current
<1>1. lock = "held"
  BY Workplace
<1>2. CASE ContinueService
  <2>1. node.state \in {"servicing", "service wait"}
    BY <1>2, Workplace
  <2> QED
    BY <1>1, <1>2, <2>1, WorkerRows DEF Stay, TakesLock
<1>3. CASE NextServiceStep \/ ExecuteSync \/ ExecuteInAgent \/ ExecutePolled
  BY <1>1, <1>3 DEF NextServiceStep, ExecuteSync, ExecuteInAgent, ExecutePolled, Advance,
     Stay, TakesLock
<1>4. CASE StartFails \/ ExecuteFails \/ ExecuteReserved \/ Park \/ FinishService \/ FinishFails
  <2>1. node.state \in {"servicing", "service wait"} /\ Release
    BY <1>4, Workplace DEF Releasing
  <2>2. node'.state # "servicing"
    BY <1>4, <2>1, WorkerRows DEF StartFails, ExecuteFails, Moved, Spoiled
  <2> QED
    BY <2>1, <2>2 DEF Release, Settles
<1>5. CASE AbortService \/ CleanUpTimeout
  <2>1. /\ AbortService => node.state \in {"active", "service failed"}
        /\ CleanUpTimeout => node.state = "service failed"
        /\ Release
    BY <1>5, Workplace DEF Releasing
  <2>2. node'.state # "servicing"
    BY <1>5, <2>1, CleanUpRows DEF Spoiled
  <2> QED
    BY <2>1, <2>2 DEF Release, Settles
<1> QED
  BY <1>2, <1>3, <1>4, <1>5, StartWorksOn DEF Worker

LEMMA WorkedOnStep ==
    ASSUME Inv, WorkedOn, Recovers, [Next]_vars
    PROVE  WorkedOn'
<1> USE Current, FreeMeansIdle
<1>1. CASE DoNodeService
  <2>1. lock' = "held" /\ node'.disabled \in DisableRamdisk
    BY <1>1, OperatorRows DEF DoNodeService, Acquire
  <2> QED
    BY <2>1 DEF WorkedOn, ServicingIsWorkedOn
<1>2. CASE Unhold \/ AbortNow \/ AbortFailed
  <2>1. node'.state # "servicing"
    BY <1>2, OperatorRows DEF Moved
  <2>2. pc' # "start"
    BY <1>2 DEF Unhold, AbortNow, AbortFailed, Spawn, Acquire, Briefly
  <2> QED
    BY <2>1, <2>2, WorkedOnAfter DEF Settles
<1>3. CASE AbortLater \/ UpdateMaintenance
  <2>1. Briefly /\ UNCHANGED recover
    BY <1>3 DEF AbortLater, UpdateMaintenance
  <2>2. node'.state = node.state
    BY <1>3, OperatorRows DEF Moved
  <2> QED
    BY <2>1, <2>2, WorkedOnAfter DEF Briefly, Idles
<1>4. CASE Worker
  BY <1>4, WorkerWorksOn, WorkedOnAfter
<1>5. CASE Heartbeats \/ HeartbeatBreaks
  <2>1. \/ node'.state # "servicing" /\ UNCHANGED pc
        \/ lock' = "held" /\ pc' = "continue"
    BY <1>5, HeartbeatRows DEF Moved, Spoiled, Acquire
  <2>2. pc = "idle"
    BY <1>5, HeartbeatRows
  <2> QED
    BY <2>1, <2>2, WorkedOnAfter DEF TakesLock, Settles
<1>6. CASE ContinueNodeService
  <2>1. \/ lock' = "held" /\ pc' = "continue"
        \/ node' = node /\ UNCHANGED <<lock, pc>>
    BY <1>6, ConductorRows DEF Recovers, Spawn, Acquire, Briefly
  <2>2. UNCHANGED recover
    BY <1>6 DEF ContinueNodeService
  <2> QED
    BY <2>1, <2>2, WorkedOnAfter DEF TakesLock, Waits
<1>7. CASE CheckServicewaitTimeouts
  BY <1>7, ConductorRows, WorkedOnAfter DEF CheckServicewaitTimeouts, Acquire, TakesLock
<1>8. CASE QueryJobStatus \/ Hardware \/ AgentLost \/ UNCHANGED vars
  BY <1>8, WorkedOnAfter DEF QueryJobStatus, Briefly, Hardware, AgentBoots, AgentFinishes,
     JobFinishes, AgentLost, vars, Waits
<1>9. CASE Crash
  BY <1>9, WorkedOnAfter DEF Crash, TakesLock
<1>10. CASE RemoveLock
  <2>1. recover' /\ lock = "dead" /\ UNCHANGED pc
    BY <1>10 DEF RemoveLock, Recovers
  <2>2. pc' # "start"
    BY <2>1 DEF Inv, Discipline
  <2> QED
    BY <2>1, <2>2 DEF WorkedOn, ServicingIsWorkedOn
<1>11. CASE CorrectStuckStates
  <2>1. UNCHANGED <<lock, pc>>
    BY <1>11 DEF CorrectStuckStates
  <2>2. \/ lock = "free" /\ node'.state = "service failed"
        \/ node' = node /\ (node.state # "servicing" \/ lock # "free")
    BY <1>11, ConductorRows DEF Moved, Recovers, PassedOver
  <2> QED
    BY <2>1, <2>2 DEF WorkedOn, ServicingIsWorkedOn
<1> QED
  BY <1>1, <1>2, <1>3, <1>4, <1>5, <1>6, <1>7, <1>8, <1>9, <1>10, <1>11
  DEF Next, Operator, Conductor, Recover

\* No node stays in SERVICING with nobody to take it out again, wherever a
\* conductor dies, if it starts again and its start comes to the node
\* (_correct_stuck_states, which fails the nodes in STUCK_STATES_TREATED_AS_FAIL
\* that the hash ring gives it, as many as periodic_max_workers of each state).
THEOREM NobodyIsForgotten == Recovers /\ Spec => []ServicingIsWorkedOn
<1>1. Init => WorkedOn
  BY DEF Init, WorkedOn, ServicingIsWorkedOn
<1>2. Recovers /\ Inv /\ WorkedOn /\ [Next]_vars => WorkedOn'
  BY WorkedOnStep
<1>3. WorkedOn => ServicingIsWorkedOn
  BY DEF WorkedOn
<1>4. CASE Recovers
  BY <1>1, <1>2, <1>3, <1>4, Invariance, PTL DEF Spec
<1> QED
  BY <1>4

----------------------------------------------------------------------------
(* The instance gets its machine back *)

\* A fault comes with maintenance, and a machine that is away while no ramdisk
\* is asked for, or before the request has got so far, was so before.
Borrowed ==
    /\ node.fault => node.maintenance
    /\ (node.disabled \/ pc = "start") /\ away => missing

\* A step that takes the machine from nobody.
BorrowsNothing ==
    /\ (node.fault => node.maintenance) => (node'.fault => node'.maintenance)
    /\ node'.disabled => node.disabled
    /\ pc' = "start" => pc = "start"
    /\ away' => away
    /\ missing => missing'

LEMMA BorrowedAfter ==
    ASSUME Borrowed, BorrowsNothing
    PROVE  Borrowed'
BY DEF Borrowed, BorrowsNothing

\* The same, told by its effect on the row.
LEMMA BorrowsNothingOfRow ==
    ASSUME NEW t, Moved(node, node', t) \/ Spoiled(node, node', t) \/ node' = node,
           pc' = "start" => pc = "start", away' => away, missing => missing'
    PROVE  BorrowsNothing
BY MovedIsSpoiled DEF Spoiled, BorrowsNothing

LEMMA TornDownIsHome ==
    ASSUME NEW n, MaybeTornDown(n) \/ TornDown(n)
    PROVE  away' => away
BY DEF MaybeTornDown, TornDown

LEMMA WorkerBorrows ==
    ASSUME Inv, Borrowed, Worker
    PROVE  Borrowed'
<1> USE Current
<1>1. CASE StartService
  <2>1. node.state = "servicing" /\ pc = "start" /\ missing' = missing
    BY <1>1, Workplace DEF StartService, Working
  <2>2. away => missing
    BY <2>1 DEF Borrowed
  <2>3. (node'.fault => node'.maintenance) /\ pc' # "start"
    BY <1>1, <2>1, StartRow DEF Borrowed, Stranded, Ramdisk, NoRamdisk, Release, Stay
  <2>4. away' = away \/ ~node'.disabled
    BY <1>1, <2>1, StartRow DEF Stranded, Ramdisk, NoRamdisk
  <2> QED
    BY <2>1, <2>2, <2>3, <2>4 DEF Borrowed
<1>2. CASE ~StartService
  <2>1. UNCHANGED missing
    BY <1>2 DEF Worker, StartFails, ContinueService, NextServiceStep, ExecuteSync,
       ExecuteFails, WorkerFails, ExecuteInAgent, ExecutePolled, ExecuteReserved, Park,
       FinishService, FinishFails, AbortService, CleanUpTimeout, history
  <2>2. pc' # "start"
    BY <1>2 DEF Worker, StartFails, ContinueService, NextServiceStep, ExecuteSync,
       ExecuteFails, WorkerFails, ExecuteInAgent, ExecutePolled, ExecuteReserved, Park,
       FinishService, FinishFails, AbortService, CleanUpTimeout, Stay, Release, Advance
  <2>3. away' = away \/ \E n \in {node, node'} : MaybeTornDown(n) \/ TornDown(n)
    BY <1>2 DEF Worker, StartFails, ContinueService, NextServiceStep, ExecuteSync,
       ExecuteFails, WorkerFails, ExecuteInAgent, ExecutePolled, ExecuteReserved, Park,
       FinishService, FinishFails, AbortService, CleanUpTimeout
  <2>4. away' => away
    BY <2>3, TornDownIsHome
  <2>5. \/ node' = node
        \/ \E t \in RowStates : Moved(node, node', t) \/ Spoiled(node, node', t)
    <3>1. {"active", "service failed", "service wait", "service hold", node.state} \subseteq RowStates
      BY DEF RowStates, ServiceStates, NodeRows
    <3>2. CASE AbortService \/ CleanUpTimeout
      BY <3>1, <3>2, Workplace, CleanUpRows
    <3>3. CASE \/ StartFails \/ ContinueService \/ NextServiceStep \/ ExecuteFails
               \/ ExecuteInAgent \/ ExecutePolled \/ ExecuteReserved \/ Park
               \/ FinishService \/ FinishFails
      <4>1. /\ node.state \in {"servicing", "service wait"}
            /\ NextServiceStep => at \in Steps
        BY <3>3, Workplace
      <4> QED
        BY <3>1, <3>3, <4>1, WorkerRows DEF StartFails, ExecuteFails
    <3>4. CASE ExecuteSync
      BY <3>4 DEF ExecuteSync
    <3> QED
      BY <1>2, <3>2, <3>3, <3>4 DEF Worker
  <2> QED
    BY <2>1, <2>2, <2>4, <2>5, BorrowsNothingOfRow, BorrowedAfter
<1> QED
  BY <1>1, <1>2

LEMMA BorrowedStep ==
    ASSUME Inv, Borrowed, [Next]_vars
    PROVE  Borrowed'
<1> USE Current, FreeMeansIdle
<1>1. CASE DoNodeService
  <2>1. away' = away /\ missing' = away
    BY <1>1 DEF DoNodeService
  <2>2. node'.fault => node'.maintenance
    BY <1>1, OperatorRows DEF Borrowed
  <2> QED
    BY <2>1, <2>2 DEF Borrowed
<1>2. CASE Unhold \/ AbortLater \/ AbortNow \/ AbortFailed
  <2>1. UNCHANGED <<away, missing>> /\ pc' # "start"
    BY <1>2 DEF Unhold, AbortLater, AbortNow, AbortFailed, Spawn, Acquire, Briefly, history
  <2>2. \E t : Moved(node, node', t)
    BY <1>2, OperatorRows
  <2> QED
    BY <2>1, <2>2, BorrowsNothingOfRow, BorrowedAfter
<1>3. CASE UpdateMaintenance
  <2>1. UNCHANGED <<away, missing, pc>>
    BY <1>3 DEF UpdateMaintenance, Briefly, history
  <2>2. ~node'.fault /\ (node'.disabled <=> node.disabled)
    BY <1>3, OperatorRows
  <2> QED
    BY <2>1, <2>2 DEF Borrowed
<1>4. CASE Heartbeats \/ HeartbeatBreaks
  <2>1. missing' = missing
    BY <1>4, HeartbeatRows DEF history
  <2>2. pc' # "start"
    BY <1>4, HeartbeatRows DEF Acquire
  <2>3. away' = away \/ MaybeTornDown(node')
    BY <1>4, HeartbeatRows
  <2>4. away' => away
    BY <2>3, TornDownIsHome
  <2>5. \E t : Moved(node, node', t) \/ Spoiled(node, node', t)
    BY <1>4, HeartbeatRows
  <2> QED
    BY <2>1, <2>2, <2>4, <2>5, BorrowsNothingOfRow, BorrowedAfter
<1>5. CASE ContinueNodeService \/ CheckServicewaitTimeouts \/ CorrectStuckStates
  <2>1. UNCHANGED <<away, missing>>
    BY <1>5 DEF ContinueNodeService, CheckServicewaitTimeouts, CorrectStuckStates, history
  <2>2. pc' = "start" => pc = "start"
    BY <1>5 DEF ContinueNodeService, CheckServicewaitTimeouts, CorrectStuckStates, Spawn,
       Acquire, Briefly
  <2>3. node' = node \/ \E t : Moved(node, node', t)
    BY <1>5, ConductorRows
  <2> QED
    BY <2>1, <2>2, <2>3, BorrowsNothingOfRow, BorrowedAfter
<1>6. CASE QueryJobStatus \/ Hardware \/ AgentLost \/ Crash \/ RemoveLock \/ UNCHANGED vars
  <2>1. UNCHANGED <<node, away, missing>> /\ (pc' = "start" => pc = "start")
    BY <1>6 DEF QueryJobStatus, Briefly, Hardware, AgentBoots, AgentFinishes, JobFinishes,
       AgentLost, Crash, RemoveLock, vars, history
  <2> QED
    BY <2>1, BorrowsNothingOfRow, BorrowedAfter
<1> QED
  BY <1>1, <1>2, <1>3, <1>4, <1>5, <1>6, WorkerBorrows DEF Next, Operator, Conductor, Recover

LEMMA GivesBack ==
    ASSUME Inv, Borrowed, Borrowed', ~May("abort fails"), [Next]_vars,
           pc # "idle", lock' = "free", node'.state = "active", ~node'.maintenance
    PROVE  ~away' \/ missing
<1> USE Current, FreeMeansIdle
<1>1. lock = "held" /\ ~node'.fault
  BY DEF Inv, Discipline, Borrowed
<1>2. Worker
  <2>1. ~(Operator \/ ContinueNodeService \/ CheckServicewaitTimeouts \/ QueryJobStatus)
    BY <1>1 DEF Operator, DoNodeService, Unhold, AbortLater, AbortNow, AbortFailed, Spawn,
       UpdateMaintenance, ContinueNodeService, CheckServicewaitTimeouts, QueryJobStatus,
       Acquire, Briefly
  <2>2. ~(Heartbeats \/ HeartbeatBreaks)
    BY <1>1, HeartbeatRows
  <2>3. ~(Hardware \/ AgentLost \/ Crash \/ Recover \/ UNCHANGED vars)
    BY <1>1 DEF Hardware, AgentBoots, AgentFinishes, JobFinishes, AgentLost, Crash, Recover,
       RemoveLock, CorrectStuckStates, vars
  <2> QED
    BY <2>1, <2>2, <2>3 DEF Next, Conductor
<1>3. CASE AbortService
  <2>1. node' = WithoutStep(Wiped(node)) /\ TornDown(node)
    BY <1>3 DEF AbortService
  <2>2. ~node.fault
    BY <1>1, <2>1, EditedRow DEF Moved
  <2> QED
    BY <2>1, <2>2 DEF TornDown
<1>4. CASE FinishService
  <2>1. CASE node.disabled
    BY <1>4, <2>1 DEF FinishService, Borrowed
  <2>2. CASE ~node.disabled
    BY <1>1, <1>4, <2>2 DEF FinishService, TornDown
  <2> QED
    BY <2>1, <2>2
<1>5. CASE StartService
  BY <1>5, Workplace, StartRow DEF Stranded, Ramdisk, NoRamdisk, Moved
<1>6. CASE \/ StartFails \/ ContinueService \/ NextServiceStep \/ ExecuteSync \/ ExecuteFails
           \/ ExecuteInAgent \/ ExecutePolled \/ ExecuteReserved \/ Park
           \/ FinishFails \/ CleanUpTimeout
  <2>1. CASE CleanUpTimeout
    BY <2>1, Workplace, CleanUpRows DEF Spoiled
  <2>2. CASE ~CleanUpTimeout
    <3>1. /\ node.state \in {"servicing", "service wait"}
          /\ NextServiceStep => at \in Steps
      BY <1>6, <2>2, Workplace
    <3>2. ExecuteSync => node' = node
      BY DEF ExecuteSync
    <3> QED
      BY <1>6, <2>2, <3>1, <3>2, WorkerRows DEF StartFails, ExecuteFails, Moved, Spoiled
  <2> QED
    BY <2>1, <2>2
<1> QED
  BY <1>2, <1>3, <1>4, <1>5, <1>6 DEF Worker

\* The instance of a node that is back in ACTIVE, and not in maintenance, has
\* its machine, whatever the steps were, whatever failed on the way and whoever
\* died, as long as the tear down of an abort does not fail
\* (_tear_down_node_service, do_node_service_abort).
THEOREM TheMachineIsReturned == ~May("abort fails") /\ Spec => InstanceIsBack
<1>1. Init => Borrowed
  BY DEF Init, Borrowed
<1>2. Inv /\ Borrowed /\ [Next]_vars => Borrowed'
  BY BorrowedStep
<1>3. CASE ~May("abort fails")
  <2>1. Inv /\ Borrowed /\ Borrowed' /\ [Next]_vars
        => [pc # "idle" /\ lock' = "free" /\ node'.state = "active" /\ ~node'.maintenance
            => ~away' \/ missing]_vars
    BY <1>3, GivesBack
  <2> QED
    BY <1>1, <1>2, <2>1, Invariance, PTL DEF Spec, InstanceIsBack
<1> QED
  BY <1>3

=============================================================================

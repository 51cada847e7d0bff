--------------------------- MODULE CleaningProofs ---------------------------
(***************************************************************************)
(* Cleaning is type correct for every plan of clean steps; and, each under *)
(* the conditions its theorem names, a manual cleaning never makes the     *)
(* node available, an accepted abort is final, a node in CLEANING is never *)
(* left alone, the steps are executed in their order, an available node    *)
(* has had all of them, and a step that fails leaves it in maintenance.    *)
(***************************************************************************)
EXTENDS Cleaning, TLAPS

----------------------------------------------------------------------------
(* Events *)

LEMMA SuccessorIs ==
    ASSUME NEW s \in States, NEW e, NEW t, <<e, t>> \in Moves(s)
    PROVE  Successor(s, e) = t /\ Allowed(s, e)
<1> DEFINE u == Successor(s, e)
<1>1. <<e, t>>[1] = e /\ <<e, t>>[2] = t /\ <<e, u>>[1] = e /\ <<e, u>>[2] = u
  OBVIOUS
<1>2. t \in States
  BY <1>1, TransitionsAreAFunction
<1>3. <<e, u>> \in Moves(s)
  BY <1>2 DEF Successor
<1> HIDE DEF u
<1>4. u = t
  BY <1>1, <1>3, TransitionsAreAFunction
<1> QED
  BY <1>2, <1>4 DEF Allowed, u

\* The moves of a node that is cleaned.
CleaningMoves == {
    <<"manageable", <<"clean", "cleaning">>>>, <<"manageable", <<"provide", "cleaning">>>>,
    <<"cleaning", <<"done", "available">>>>, <<"cleaning", <<"manage", "manageable">>>>,
    <<"cleaning", <<"fail", "clean failed">>>>, <<"cleaning", <<"wait", "clean wait">>>>,
    <<"cleaning", <<"hold", "clean hold">>>>,
    <<"clean wait", <<"fail", "clean failed">>>>, <<"clean wait", <<"abort", "clean failed">>>>,
    <<"clean wait", <<"resume", "cleaning">>>>,
    <<"clean hold", <<"abort", "clean failed">>>>, <<"clean hold", <<"unhold", "clean wait">>>>,
    <<"clean failed", <<"manage", "manageable">>>>, <<"available", <<"manage", "manageable">>>>}

LEMMA CleaningMovesAreMoves ==
    ASSUME NEW s, NEW m, <<s, m>> \in CleaningMoves
    PROVE  s \in States /\ m \in Moves(s)
<1>1. /\ <<"clean", "cleaning">> \in Moves("manageable")
      /\ <<"provide", "cleaning">> \in Moves("manageable")
      /\ <<"manage", "manageable">> \in Moves("clean failed")
      /\ <<"manage", "manageable">> \in Moves("available")
  BY DEF Moves
<1>2. /\ <<"done", "available">> \in Moves("cleaning")
      /\ <<"manage", "manageable">> \in Moves("cleaning")
      /\ <<"fail", "clean failed">> \in Moves("cleaning")
      /\ <<"wait", "clean wait">> \in Moves("cleaning")
      /\ <<"hold", "clean hold">> \in Moves("cleaning")
  BY DEF Moves
<1>3. /\ <<"fail", "clean failed">> \in Moves("clean wait")
      /\ <<"abort", "clean failed">> \in Moves("clean wait")
      /\ <<"resume", "cleaning">> \in Moves("clean wait")
      /\ <<"abort", "clean failed">> \in Moves("clean hold")
      /\ <<"unhold", "clean wait">> \in Moves("clean hold")
  BY DEF Moves
<1>4. {"manageable", "available", "cleaning", "clean wait", "clean hold", "clean failed"}
        \subseteq States
  BY DEF States, Stable, CleanStates
<1> QED
  BY <1>1, <1>2, <1>3, <1>4 DEF CleaningMoves

NodeRows == [state : {"manageable", "available"} \cup CleanStates,
             target : {NoState, "manageable", "available"},
             maintenance : BOOLEAN, fault : BOOLEAN,
             step : {0} \cup Steps, abortAfter : BOOLEAN,
             index : {0} \cup Steps, loaded : BOOLEAN,
             skip : BOOLEAN, polling : BOOLEAN, rebooting : BOOLEAN]

\* The target that an event leads to, when it asks for the target "o".
TargetAfter(t, o) ==
    IF t \in {"manageable", "available"} THEN NoState
    ELSE IF o # NoState THEN o ELSE "available"

CanMove(n, e, t) == <<n.state, <<e, t>>>> \in CleaningMoves

LEMMA EventOfCleaning ==
    ASSUME NEW n, NEW e, NEW o, NEW t, CanMove(n, e, t)
    PROVE  /\ t \in {"manageable", "available"} \cup CleanStates
           /\ Successor(n.state, e) = t
           /\ t \notin Stable => MachineTarget(n.state, n.target, e, o) = TargetAfter(t, o)
           /\ t \in Stable => TargetAfter(t, o) = NoState
<1>1. Successor(n.state, e) = t
  BY SuccessorIs, CleaningMovesAreMoves DEF CanMove
<1>2. t \in {"manageable", "available"} \cup CleanStates
  BY DEF CanMove, CleaningMoves, CleanStates
<1>3. CASE t \in {"manageable", "available"}
  BY <1>1, <1>2, <1>3 DEF Stable, TargetAfter
<1>4. CASE t \in CleanStates
  <2>1. DefaultTarget(t) = "available" /\ t \notin Stable
    BY <1>4 DEF DefaultTarget, CleanStates, DeployStates, ServiceStates, Stable
  <2>2. MachineTarget(n.state, n.target, e, o) = IF o # NoState THEN o ELSE "available"
    BY <1>1, <2>1 DEF MachineTarget, NoState
  <2> QED
    BY <1>1, <1>4, <2>1, <2>2 DEF CleanStates, TargetAfter
<1> QED
  BY <1>2, <1>3, <1>4

----------------------------------------------------------------------------
(* What the operations make of the row *)

LEMMA StepsAreNumbers == Steps \subseteq Nat \ {0} /\ 1 \in Steps
BY CleaningAssumption DEF Steps

\* The row "m" is the row "n" with another state and target.
Moved(n, m, state, target) ==
    /\ m \in NodeRows
    /\ m.state = state /\ m.target = target
    /\ m.maintenance = n.maintenance /\ m.step = n.step /\ m.abortAfter = n.abortAfter

LEMMA Bounds == MaxCrashes \in Nat /\ MaxCleans \in Nat /\ MaxMismatches \in Nat
BY CleaningAssumption

\* The row after an event that its state allows.
LEMMA FiredRow ==
    ASSUME NEW n, NEW e, NEW o, NEW t,
           n \in NodeRows, o \in {NoState, "manageable", "available"}, CanMove(n, e, t)
    PROVE  Moved(n, Fired(n, e, o), t, TargetAfter(t, o))
<1> DEFINE target == TargetAfter(t, o)
<1>1. /\ Successor(n.state, e) = t
      /\ t \in {"manageable", "available"} \cup CleanStates
      /\ t \notin Stable => MachineTarget(n.state, n.target, e, o) = target
      /\ t \in Stable => target = NoState
  BY EventOfCleaning
<1>2. target \in {NoState, "manageable", "available"}
  BY DEF TargetAfter
<1> HIDE DEF target
<1>3. Fired(n, e, o) = [n EXCEPT !.state = t, !.target = target]
  BY <1>1 DEF Fired, AfterEvent
<1>4. Moved(n, Fired(n, e, o), t, target)
  BY <1>1, <1>2, <1>3 DEF Moved, NodeRows
<1> QED
  BY <1>4 DEF target

\* A flow that keeps its target.
Kept(n) == IF n.target = "manageable" THEN "manageable" ELSE "available"

LEMMA Targets ==
    \A n : /\ OwnTarget(n) \in {NoState, "manageable", "available"}
          /\ \A t \in CleanStates : TargetAfter(t, OwnTarget(n)) = Kept(n)
BY DEF OwnTarget, TargetAfter, Kept, CleanStates, NoState

LEMMA NoTarget ==
    /\ \A t \in CleanStates : TargetAfter(t, NoState) = "available"
    /\ \A t \in {"manageable", "available"} : \A o : TargetAfter(t, o) = NoState
BY DEF TargetAfter, CleanStates

\* The changes that leave the state and the target alone.
LEMMA EditedRow ==
    ASSUME NEW n \in NodeRows
    PROVE  /\ \A m \in {Quarantined(n), WithoutStep(n), Wiped(n), NoFlags(n),
                        WithoutStep(Wiped(n)), StepsSet(n)} :
                m \in NodeRows /\ m.state = n.state /\ m.target = n.target
           /\ \A m \in {WithoutStep(n), Wiped(n), NoFlags(n), WithoutStep(Wiped(n)), StepsSet(n)} :
                m.maintenance = n.maintenance
           /\ Quarantined(n).abortAfter = FALSE
           /\ n.step = 0 => Quarantined(n).maintenance = n.maintenance
<1> DEFINE Same(m) == /\ m \in NodeRows
                      /\ m.state = n.state /\ m.target = n.target
                      /\ m.maintenance = n.maintenance
<1>1. ASSUME NEW m \in NodeRows
      PROVE  /\ WithoutStep(m) \in NodeRows
             /\ WithoutStep(m).state = m.state /\ WithoutStep(m).target = m.target
             /\ WithoutStep(m).maintenance = m.maintenance
  BY DEF WithoutStep, NodeRows
<1>2. Same(NoFlags(n))
  BY DEF NoFlags, NodeRows
<1>3. Same(Wiped(n))
  <2> DEFINE f == NoFlags(n)
  <2>1. Same(f)
    BY <1>2
  <2>2. Wiped(n) = [f EXCEPT !.loaded = FALSE, !.index = 0]
    BY DEF Wiped
  <2> HIDE DEF f
  <2> QED
    BY <2>1, <2>2 DEF NodeRows
<1>4. Same(WithoutStep(n)) /\ Same(WithoutStep(Wiped(n)))
  BY <1>1, <1>3
<1>5. Same(StepsSet(n))
  <2> DEFINE w == WithoutStep(n)
  <2>1. Same(w)
    BY <1>4
  <2>2. StepsSet(n) = [w EXCEPT !.index = 0, !.loaded = TRUE]
    BY DEF StepsSet
  <2> HIDE DEF w
  <2> QED
    BY <2>1, <2>2 DEF NodeRows
<1>6. /\ Quarantined(n) \in NodeRows
      /\ Quarantined(n).state = n.state /\ Quarantined(n).target = n.target
      /\ Quarantined(n).abortAfter = FALSE
      /\ n.step = 0 => Quarantined(n).maintenance = n.maintenance
  <2> DEFINE f == NoFlags(n)
             q == [f EXCEPT !.index = 0, !.maintenance = n.maintenance \/ n.step # 0,
                            !.fault = n.fault \/ n.step # 0]
  <2>1. Same(f)
    BY <1>2
  <2>2. Quarantined(n) = WithoutStep(q)
    BY DEF Quarantined
  <2> HIDE DEF f
  <2>3. /\ q \in NodeRows /\ q.state = n.state /\ q.target = n.target
        /\ n.step = 0 => q.maintenance = n.maintenance
    <3> DEFINE m == n.maintenance \/ n.step # 0
               t == n.fault \/ n.step # 0
    <3>1. m \in BOOLEAN /\ t \in BOOLEAN /\ (n.step = 0 => m = n.maintenance)
      BY DEF NodeRows
    <3>2. q = [f EXCEPT !.index = 0, !.maintenance = m, !.fault = t]
      OBVIOUS
    <3> HIDE DEF m, t, q
    <3>3. q.state = f.state /\ q.target = f.target /\ q.maintenance = m
      BY <2>1, <3>2 DEF NodeRows
    <3>4. q \in NodeRows
      BY <2>1, <3>1, <3>2 DEF NodeRows
    <3> QED
      BY <2>1, <3>1, <3>3, <3>4
  <2>4. WithoutStep(q).abortAfter = FALSE
    BY <2>3 DEF WithoutStep, NodeRows
  <2> HIDE DEF q
  <2> QED
    BY <1>1, <2>2, <2>3, <2>4
<1> QED
  BY <1>2, <1>3, <1>4, <1>5, <1>6

LEMMA FailedRow ==
    ASSUME NEW n \in NodeRows, n.state \in {"cleaning", "clean wait"}
    PROVE  Failed(n) \in NodeRows /\ Failed(n).state = "clean failed"
<1> DEFINE q == Quarantined(n)
<1>1. Failed(n) = Fired(q, "fail", OwnTarget(n))
  BY DEF Failed
<1>2. q \in NodeRows /\ q.state = n.state
  BY EditedRow
<1> HIDE DEF q
<1>3. CanMove(q, "fail", "clean failed")
  BY <1>2 DEF CanMove, CleaningMoves
<1>4. OwnTarget(n) \in {NoState, "manageable", "available"}
  BY Targets
<1>5. Moved(q, Failed(n), "clean failed", TargetAfter("clean failed", OwnTarget(n)))
  BY <1>1, <1>2, <1>3, <1>4, FiredRow
<1> QED
  BY <1>5 DEF Moved

\* An event of a flow that keeps its target.
LEMMA KeptRow ==
    ASSUME NEW n, NEW e, NEW t, n \in NodeRows, t \in CleanStates, CanMove(n, e, t)
    PROVE  Moved(n, Fired(n, e, OwnTarget(n)), t, Kept(n))
<1>1. Moved(n, Fired(n, e, OwnTarget(n)), t, TargetAfter(t, OwnTarget(n)))
  BY Targets, FiredRow
<1>2. TargetAfter(t, OwnTarget(n)) = Kept(n)
  BY Targets
<1> QED
  BY <1>1, <1>2

\* An event that gives the node the default target.
LEMMA DefaultRow ==
    ASSUME NEW n, NEW e, NEW t, n \in NodeRows, CanMove(n, e, t)
    PROVE  /\ t \in CleanStates => Moved(n, Fired(n, e, NoState), t, "available")
           /\ t \in {"manageable", "available"} => Moved(n, Fired(n, e, NoState), t, NoState)
<1>1. Moved(n, Fired(n, e, NoState), t, TargetAfter(t, NoState))
  BY FiredRow
<1> QED
  BY <1>1, NoTarget

\* The row with which a worker goes on after CLEANWAIT.
LEMMA ResumedRow ==
    ASSUME NEW n \in NodeRows, n.state = "clean wait"
    PROVE  Moved(n, Resumed(n), "cleaning", Kept(n))
<1>1. CanMove(n, "resume", "cleaning")
  BY DEF CanMove, CleaningMoves
<1> QED
  BY <1>1, KeptRow DEF Resumed, CleanStates

LEMMA NextIndexInBounds ==
    ASSUME NEW n \in NodeRows
    PROVE  NextIndex(n) \in {0} \cup Steps
BY StepsAreNumbers DEF NextIndex, NodeRows

----------------------------------------------------------------------------
(* Types, and the states in which the holder of the lock works *)

Agents == [is : {"off", "booting"} \cup Up, cmd : {0} \cup Steps]
Jobs == [step : {0} \cup Steps, over : BOOLEAN]

LEMMA AgentAndJob == Off \in Agents /\ Booting \in Agents /\ NoJob \in Jobs
<1>1. "off" \in {"off", "booting"} \cup Up /\ "booting" \in {"off", "booting"} \cup Up
  OBVIOUS
<1>2. 0 \in {0} \cup Steps
  OBVIOUS
<1> QED
  BY <1>1, <1>2 DEF Off, Booting, NoJob, Agents, Jobs

LEMMA NewJob == ASSUME NEW k \in Steps PROVE [step |-> k, over |-> FALSE] \in Jobs
BY DEF Jobs

OthersTyped ==
    /\ lock \in {"free", "held", "dead"}
    /\ pc \in Pcs
    /\ at \in {0} \cup Steps
    /\ agent \in Agents
    /\ job \in Jobs
    /\ casts \in Nat
    /\ recover \in {"no", "boot", "orphan"}
    /\ flow \in {"none", "manual", "automated", "skipped"}
    /\ executed \subseteq Steps
    /\ aborted \in BOOLEAN
    /\ crashes \in 0..MaxCrashes
    /\ cleans \in 0..MaxCleans
    /\ mismatches \in 0..MaxMismatches

LEMMA Typed == TypeOK <=> node \in NodeRows /\ OthersTyped
BY DEF TypeOK, OthersTyped, NodeRows, Agents, Jobs

\* The state of the node says what the holder of the lock does, and a step
\* that is started, or that the agent is busy with, is a step of the plan.
Discipline ==
    /\ lock = "held" <=> pc # "idle"
    /\ pc \in {"start", "continue", "next", "execute", "park", "finish"}
         => node.state = "cleaning"
    /\ pc = "asleep" => node.state = "clean wait"
    /\ pc \in {"abort", "cleanup"} => node.state = "clean failed"
    /\ pc \in {"next", "execute"} => at \in Steps
    /\ agent.is = "busy" => agent.cmd \in Steps

Inv == node \in NodeRows /\ OthersTyped /\ Discipline

LEMMA InvInit == Init => Inv
<1> SUFFICES ASSUME Init PROVE Inv
  OBVIOUS
<1>1. node \in NodeRows
  BY DEF Init, NodeRows
<1>2. aborted \in BOOLEAN
  BY Zenon DEF Init
<1>3. OthersTyped
  BY <1>2, Bounds, AgentAndJob DEF Init, OthersTyped, Pcs
<1>4. Discipline
  BY DEF Init, Discipline, Off
<1> QED
  BY <1>1, <1>3, <1>4 DEF Inv

----------------------------------------------------------------------------
(* What the actions make of the row *)

LEMMA OperatorRows ==
    ASSUME node \in NodeRows
    PROVE  /\ DoNodeClean => Moved(node, node', "cleaning", "manageable")
           /\ Provide => Moved(node, node', "cleaning", "available")
           /\ Manage => Moved(node, node', "manageable", NoState)
           /\ Unhold => Moved(node, node', "clean wait", "available")
           /\ DoAbort => \/ /\ Briefly /\ node.step # 0
                            /\ node' \in NodeRows /\ node' = [node EXCEPT !.abortAfter = TRUE]
                         \/ Acquire("abort") /\ Moved(node, node', "clean failed", Kept(node))
<1>1. ASSUME DoNodeClean PROVE Moved(node, node', "cleaning", "manageable")
  <2>1. CanMove(node, "clean", "cleaning")
    BY <1>1 DEF DoNodeClean, Begin, CanMove, CleaningMoves
  <2>2. TargetAfter("cleaning", "manageable") = "manageable"
    BY DEF TargetAfter, NoState
  <2> QED
    BY <1>1, <2>1, <2>2, FiredRow DEF DoNodeClean, Begin
<1>2. ASSUME Provide PROVE Moved(node, node', "cleaning", "available")
  <2>1. CanMove(node, "provide", "cleaning")
    BY <1>2 DEF Provide, Begin, CanMove, CleaningMoves
  <2> QED
    BY <1>2, <2>1, DefaultRow DEF Provide, Begin, CleanStates
<1>3. ASSUME Manage PROVE Moved(node, node', "manageable", NoState)
  <2>1. CanMove(node, "manage", "manageable")
    BY <1>3 DEF Manage, CanMove, CleaningMoves
  <2> QED
    BY <1>3, <2>1, DefaultRow DEF Manage
<1>4. ASSUME Unhold PROVE Moved(node, node', "clean wait", "available")
  <2>1. CanMove(node, "unhold", "clean wait")
    BY <1>4 DEF Unhold, CanMove, CleaningMoves
  <2> QED
    BY <1>4, <2>1, DefaultRow DEF Unhold, CleanStates
<1>5. ASSUME DoAbort, node.step # 0 /\ node.step \notin Abortable
      PROVE  Briefly /\ node' \in NodeRows /\ node' = [node EXCEPT !.abortAfter = TRUE]
  <2>1. Briefly /\ node' = [node EXCEPT !.abortAfter = TRUE]
    BY <1>5 DEF DoAbort
  <2> QED
    BY <2>1 DEF NodeRows
<1>6. ASSUME DoAbort, ~(node.step # 0 /\ node.step \notin Abortable)
      PROVE  Acquire("abort") /\ Moved(node, node', "clean failed", Kept(node))
  <2>1. CanMove(node, "abort", "clean failed")
    BY <1>6 DEF DoAbort, CanMove, CleaningMoves
  <2> QED
    BY <1>6, <2>1, KeptRow DEF DoAbort, CleanStates
<1> QED
  BY <1>1, <1>2, <1>3, <1>4, <1>5, <1>6

LEMMA StartRows ==
    ASSUME Inv, StartCleaning
    PROVE  /\ node' \in NodeRows
           /\ \/ /\ node'.state = "available" /\ node.target # "manageable"
                 /\ flow' = "skipped" /\ UNCHANGED agent
              \/ /\ node'.state = "clean wait" /\ node'.target = Kept(node)
                 /\ node'.maintenance = node.maintenance
                 /\ flow' = flow /\ agent' = Booting
              \/ node'.state = "clean failed" /\ flow' = flow /\ agent' \in {agent, Off}
<1>1. node \in NodeRows /\ node.state = "cleaning"
  BY DEF Inv, StartCleaning, Working, Discipline
<1>2. CASE node' = Fired(WithoutStep(node), "done", NoState) /\ node.target # "manageable"
           /\ flow' = "skipped" /\ UNCHANGED agent
  <2> DEFINE n == WithoutStep(node)
  <2>1. n \in NodeRows /\ CanMove(n, "done", "available")
    BY <1>1, EditedRow DEF CanMove, CleaningMoves
  <2> HIDE DEF n
  <2>2. Moved(n, Fired(n, "done", NoState), "available", NoState)
    BY <2>1, DefaultRow
  <2> QED
    BY <1>2, <2>2 DEF Moved, n
<1>3. CASE node' = Fired([Wiped(node) EXCEPT !.loaded = node.target = "manageable"],
                         "wait", OwnTarget(node))
           /\ agent' = Booting /\ UNCHANGED flow
  <2> DEFINE n == [Wiped(node) EXCEPT !.loaded = node.target = "manageable"]
  <2>1. n \in NodeRows /\ n.state = "cleaning" /\ n.target = node.target
        /\ n.maintenance = node.maintenance
    BY <1>1 DEF Wiped, NoFlags, NodeRows
  <2>2. CanMove(n, "wait", "clean wait")
    BY <2>1 DEF CanMove, CleaningMoves
  <2> HIDE DEF n
  <2>3. OwnTarget(node) = OwnTarget(n) /\ Kept(node) = Kept(n)
    BY <2>1 DEF OwnTarget, Kept
  <2>4. Moved(n, Fired(n, "wait", OwnTarget(node)), "clean wait", Kept(node))
    BY <2>1, <2>2, <2>3, KeptRow DEF CleanStates
  <2> QED
    BY <1>3, <2>1, <2>4 DEF Moved, n
<1>4. CASE node' = Failed(node) /\ agent' \in {agent, TornDown(node')} /\ UNCHANGED flow
  BY <1>1, <1>4, FailedRow DEF TornDown
<1> QED
  BY <1>2, <1>3, <1>4 DEF StartCleaning

LEMMA ContinueRows ==
    ASSUME Inv, ContinueCleaning
    PROVE  /\ node' \in NodeRows /\ lock = "held"
           /\ agent' \in {agent, Off} /\ UNCHANGED <<job, casts, recover, history, counters>>
           /\ \/ node.abortAfter /\ node'.state = "clean failed" /\ Stay("abort", 0)
              \/ /\ ~node.abortAfter
                 /\ node'.state = "cleaning" /\ node'.target = node.target
                 /\ node'.maintenance = node.maintenance
                 /\ Stay("finish", 0) \/ \E k \in Steps : Stay("next", k)
              \/ ~node.abortAfter /\ node'.state = "clean failed" /\ Release
<1> DEFINE n == [node EXCEPT !.skip = TRUE, !.polling = FALSE]
           i == NextIndex(node)
<1>1. node \in NodeRows /\ node.state = "cleaning" /\ lock = "held"
  BY DEF Inv, ContinueCleaning, Working, Discipline
<1>2. /\ n \in NodeRows /\ n.state = "cleaning" /\ n.target = node.target
      /\ n.maintenance = node.maintenance /\ n.abortAfter = node.abortAfter
  BY <1>1 DEF NodeRows
<1>3. i # 0 => i \in Steps
  BY <1>1, NextIndexInBounds
<1>4. UNCHANGED <<job, casts, recover, history, counters>>
  BY DEF ContinueCleaning
<1>5. CASE n.abortAfter /\ node' = Fired(n, "fail", OwnTarget(n)) /\ agent' = agent
           /\ Stay("abort", 0)
  <2>1. CanMove(n, "fail", "clean failed")
    BY <1>2 DEF CanMove, CleaningMoves
  <2>2. Moved(n, node', "clean failed", Kept(n))
    BY <1>2, <1>5, <2>1, KeptRow DEF CleanStates
  <2> QED
    BY <1>1, <1>2, <1>4, <1>5, <2>2 DEF Moved
<1>6. CASE ~n.abortAfter /\ i # 0 /\ node' = n /\ agent' = agent /\ Stay("next", i)
  BY <1>1, <1>2, <1>3, <1>4, <1>6
<1>7. CASE ~n.abortAfter /\ node' = Failed(n) /\ agent' = TornDown(node') /\ Release
  BY <1>1, <1>2, <1>4, <1>7, FailedRow DEF TornDown
<1>8. CASE ~n.abortAfter /\ node' = n /\ agent' = agent /\ Stay("finish", 0)
  BY <1>1, <1>2, <1>4, <1>8
<1> QED
  BY <1>5, <1>6, <1>7, <1>8 DEF ContinueCleaning

\* The rows of the steps that are carried out: only a reserved step leaves
\* CLEANING at once.
LEMMA ExecuteRows ==
    ASSUME Inv
    PROVE  /\ NextCleanStep \/ ExecuteSync \/ ExecuteInAgent \/ ExecutePolled
                => /\ node' \in NodeRows
                   /\ node'.state = node.state /\ node'.target = node.target
                   /\ node'.maintenance = node.maintenance
           /\ ExecuteFails => node' \in NodeRows /\ node'.state = "clean failed"
           /\ ExecuteReserved =>
                \/ Plan[at] = "hold" /\ Moved(node, node', "clean hold", "available")
                \/ Plan[at] \in {"wait", "sleep"} /\ Moved(node, node', "clean wait", "available")
<1>1. node \in NodeRows
  BY DEF Inv
<1>2. ASSUME NextCleanStep \/ ExecuteSync \/ ExecuteInAgent \/ ExecutePolled
      PROVE  /\ node' \in NodeRows
             /\ node'.state = node.state /\ node'.target = node.target
             /\ node'.maintenance = node.maintenance
  <2>1. NextCleanStep => at \in Steps
    BY DEF NextCleanStep, Working, Inv, Discipline
  <2>2. \/ /\ node' = [node EXCEPT !.step = at, !.abortAfter = FALSE, !.index = at,
                                   !.polling = FALSE]
           /\ NextCleanStep
        \/ node' \in {node, [node EXCEPT !.skip = FALSE],
                      [node EXCEPT !.skip = TRUE, !.polling = TRUE, !.rebooting = TRUE]}
    BY <1>2 DEF NextCleanStep, ExecuteSync, ExecuteInAgent, ExecutePolled
  <2>3. CASE at \in Steps /\ node' = [node EXCEPT !.step = at, !.abortAfter = FALSE,
                                                 !.index = at, !.polling = FALSE]
    BY <1>1, <2>3 DEF NodeRows
  <2>4. CASE node' = node
    BY <1>1, <2>4
  <2>5. CASE node' = [node EXCEPT !.skip = FALSE]
    BY <1>1, <2>5 DEF NodeRows
  <2>6. CASE node' = [node EXCEPT !.skip = TRUE, !.polling = TRUE, !.rebooting = TRUE]
    BY <1>1, <2>6 DEF NodeRows
  <2> QED
    BY <2>1, <2>2, <2>3, <2>4, <2>5, <2>6
<1>3. ASSUME ExecuteFails PROVE node' \in NodeRows /\ node'.state = "clean failed"
  <2>1. node.state = "cleaning"
    BY <1>3 DEF ExecuteFails, Working, Inv, Discipline
  <2> QED
    BY <1>1, <1>3, <2>1, FailedRow DEF ExecuteFails
<1>4. ASSUME ExecuteReserved
      PROVE  \/ Plan[at] = "hold" /\ Moved(node, node', "clean hold", "available")
             \/ Plan[at] \in {"wait", "sleep"} /\ Moved(node, node', "clean wait", "available")
  <2>1. CanMove(node, "hold", "clean hold") /\ CanMove(node, "wait", "clean wait")
    BY <1>4 DEF ExecuteReserved, Working, Inv, Discipline, CanMove, CleaningMoves
  <2>2. /\ Moved(node, Fired(node, "hold", NoState), "clean hold", "available")
        /\ Moved(node, Fired(node, "wait", NoState), "clean wait", "available")
    BY <1>1, <2>1, DefaultRow DEF CleanStates
  <2> QED
    BY <1>4, <2>2 DEF ExecuteReserved
<1> QED
  BY <1>2, <1>3, <1>4

LEMMA EndRows ==
    ASSUME Inv
    PROVE  /\ Park => Moved(node, node', "clean wait", Kept(node))
           /\ WakeUp => Moved(node, node', "cleaning", "available")
           /\ FinishCleaning =>
                /\ node' \in NodeRows
                /\ \/ node'.state \in {"manageable", "clean failed"}
                   \/ node'.state = "available" /\ node.target # "manageable"
           /\ AbortCleaning \/ CleanUpFailed => node' \in NodeRows /\ node'.state = "clean failed"
<1>1. node \in NodeRows
  BY DEF Inv
<1>2. ASSUME Park PROVE Moved(node, node', "clean wait", Kept(node))
  <2>1. CanMove(node, "wait", "clean wait")
    BY <1>2 DEF Park, Working, Inv, Discipline, CanMove, CleaningMoves
  <2> QED
    BY <1>1, <1>2, <2>1, KeptRow DEF Park, CleanStates
<1>3. ASSUME WakeUp PROVE Moved(node, node', "cleaning", "available")
  <2>1. CanMove(node, "resume", "cleaning")
    BY <1>3 DEF WakeUp, Working, Inv, Discipline, CanMove, CleaningMoves
  <2> QED
    BY <1>1, <1>3, <2>1, DefaultRow DEF WakeUp, CleanStates
<1>4. ASSUME FinishCleaning
      PROVE  /\ node' \in NodeRows
             /\ \/ node'.state \in {"manageable", "clean failed"}
                \/ node'.state = "available" /\ node.target # "manageable"
  <2> DEFINE n == WithoutStep(Wiped(node))
  <2>1. n \in NodeRows /\ n.state = "cleaning" /\ n.target = node.target
    BY <1>1, <1>4, EditedRow DEF FinishCleaning, Working, Inv, Discipline
  <2>2. \/ node' = Failed(n)
        \/ n.target = "manageable" /\ node' = Fired(n, "manage", NoState)
        \/ n.target # "manageable" /\ node' = Fired(n, "done", NoState)
    BY <1>4 DEF FinishCleaning
  <2> HIDE DEF n
  <2>3. CanMove(n, "manage", "manageable") /\ CanMove(n, "done", "available")
    BY <2>1 DEF CanMove, CleaningMoves
  <2>4. /\ Moved(n, Fired(n, "manage", NoState), "manageable", NoState)
        /\ Moved(n, Fired(n, "done", NoState), "available", NoState)
    BY <2>1, <2>3, DefaultRow
  <2> QED
    BY <2>1, <2>2, <2>4, FailedRow DEF Moved
<1>5. ASSUME AbortCleaning \/ CleanUpFailed
      PROVE  node' \in NodeRows /\ node'.state = "clean failed"
  <2>1. node.state = "clean failed"
    BY <1>5 DEF AbortCleaning, CleanUpFailed, Working, Inv, Discipline
  <2>2. node' = WithoutStep(Wiped(node)) \/ node' = Quarantined(node)
    BY <1>5 DEF AbortCleaning, CleanUpFailed
  <2>3. /\ WithoutStep(Wiped(node)) \in NodeRows /\ WithoutStep(Wiped(node)).state = node.state
        /\ Quarantined(node) \in NodeRows /\ Quarantined(node).state = node.state
    BY <1>1, EditedRow
  <2> QED
    BY <2>1, <2>2, <2>3
<1> QED
  BY <1>2, <1>3, <1>4, <1>5

\* The heartbeats that resume the cleaning, and those that keep its step.
LEMMA HeartbeatRows ==
    ASSUME Inv
    PROVE  /\ HeartbeatInMaintenance \/ HeartbeatStepFailed \/ HeartbeatBreaks
                => /\ node' \in NodeRows /\ node'.state = "clean failed"
                   /\ agent' \in {agent, Off} /\ HeartbeatFails
           /\ HeartbeatFirst \/ HeartbeatFresh \/ HeartbeatDone \/ HeartbeatMismatch
                => /\ node' \in NodeRows
                   /\ node.state = "clean wait" /\ node'.state = "cleaning"
                   /\ node'.target = Kept(node)
                   /\ ~node.maintenance /\ ~node'.maintenance
                   /\ Acquire("continue")
                   /\ UNCHANGED <<agent, job, casts, recover, history, counters>>
           /\ HeartbeatFresh \/ HeartbeatDone
                => node'.step = node.step /\ node'.abortAfter = node.abortAfter
           /\ HeartbeatReboots
                => /\ node' \in NodeRows
                   /\ node'.state = node.state /\ node'.target = node.target
                   /\ node'.maintenance = node.maintenance
                   /\ node'.step = node.step /\ node'.abortAfter = node.abortAfter
<1>1. node \in NodeRows
  BY DEF Inv
<1>2. ASSUME HeartbeatInMaintenance \/ HeartbeatStepFailed \/ HeartbeatBreaks
      PROVE  /\ node' \in NodeRows /\ node'.state = "clean failed"
             /\ agent' \in {agent, Off} /\ HeartbeatFails
  <2>1. HeartbeatFails /\ node.state = "clean wait"
    BY <1>2 DEF HeartbeatInMaintenance, HeartbeatStepFailed, HeartbeatBreaks
  <2> QED
    BY <1>1, <2>1, FailedRow DEF HeartbeatFails, TornDown
<1>3. ASSUME NEW n \in NodeRows, HeartbeatContinues(n),
             n.state = node.state, n.target = node.target, n.maintenance = node.maintenance
      PROVE  /\ node' \in NodeRows
             /\ node.state = "clean wait" /\ node'.state = "cleaning"
             /\ node'.target = Kept(node)
             /\ ~node.maintenance /\ ~node'.maintenance
             /\ Acquire("continue")
             /\ UNCHANGED <<agent, job, casts, recover, history, counters>>
             /\ node'.step = n.step /\ node'.abortAfter = n.abortAfter
  <2>1. Moved(n, node', "cleaning", Kept(n))
    BY <1>3, ResumedRow DEF HeartbeatContinues
  <2> QED
    BY <1>3, <2>1 DEF HeartbeatContinues, Moved, Kept
<1>4. \A n \in {StepsSet(node), node, [node EXCEPT !.rebooting = FALSE],
                [node EXCEPT !.skip = FALSE]} :
        /\ n \in NodeRows
        /\ n.state = node.state /\ n.target = node.target /\ n.maintenance = node.maintenance
  BY <1>1 DEF NodeRows, StepsSet, WithoutStep
<1>5. ASSUME HeartbeatFirst \/ HeartbeatFresh \/ HeartbeatDone \/ HeartbeatMismatch
      PROVE  \E n \in {StepsSet(node), node, [node EXCEPT !.rebooting = FALSE],
                       [node EXCEPT !.skip = FALSE]} : HeartbeatContinues(n)
  BY <1>5 DEF HeartbeatFirst, HeartbeatFresh, HeartbeatDone, HeartbeatMismatch
<1>6. ASSUME HeartbeatFresh \/ HeartbeatDone
      PROVE  node'.step = node.step /\ node'.abortAfter = node.abortAfter
  <2>1. /\ [node EXCEPT !.rebooting = FALSE].step = node.step
        /\ [node EXCEPT !.rebooting = FALSE].abortAfter = node.abortAfter
    BY <1>1 DEF NodeRows
  <2> QED
    BY <1>3, <1>4, <1>6, <2>1 DEF HeartbeatFresh, HeartbeatDone
<1>7. ASSUME HeartbeatReboots
      PROVE  /\ node' \in NodeRows
             /\ node'.state = node.state /\ node'.target = node.target
             /\ node'.maintenance = node.maintenance
             /\ node'.step = node.step /\ node'.abortAfter = node.abortAfter
  BY <1>1, <1>7 DEF HeartbeatReboots, NodeRows
<1> QED
  BY <1>2, <1>3, <1>4, <1>5, <1>6, <1>7

LEMMA ConductorRows ==
    ASSUME Inv
    PROVE  /\ ContinueNodeClean =>
                \/ /\ node.state = "clean wait" /\ Moved(node, node', "cleaning", Kept(node))
                   /\ Acquire("continue") \/ (May("no worker") /\ Briefly)
                \/ node' = node /\ Briefly
           /\ CheckCleanwaitTimeouts => node' \in NodeRows /\ node'.state = "clean failed"
           /\ node.state = "cleaning" /\ node' = Fired(node, "fail", NoState)
                => node' \in NodeRows /\ node'.state = "clean failed"
<1>1. node \in NodeRows
  BY DEF Inv
<1>2. ASSUME ContinueNodeClean
      PROVE  \/ /\ node.state = "clean wait" /\ Moved(node, node', "cleaning", Kept(node))
                /\ Acquire("continue") \/ (May("no worker") /\ Briefly)
             \/ node' = node /\ Briefly
  BY <1>1, <1>2, ResumedRow DEF ContinueNodeClean
<1>3. ASSUME CheckCleanwaitTimeouts
      PROVE  node' \in NodeRows /\ node'.state = "clean failed"
  <2>1. CanMove(node, "fail", "clean failed")
    BY <1>3 DEF CheckCleanwaitTimeouts, CanMove, CleaningMoves
  <2>2. node.target \in {NoState, "manageable", "available"}
    BY <1>1 DEF NodeRows
  <2>3. Moved(node, node', "clean failed", TargetAfter("clean failed", node.target))
    BY <1>1, <1>3, <2>1, <2>2, FiredRow DEF CheckCleanwaitTimeouts
  <2> QED
    BY <2>3 DEF Moved
<1>4. ASSUME node.state = "cleaning", node' = Fired(node, "fail", NoState)
      PROVE  node' \in NodeRows /\ node'.state = "clean failed"
  <2>1. CanMove(node, "fail", "clean failed")
    BY <1>4 DEF CanMove, CleaningMoves
  <2>2. Moved(node, node', "clean failed", "available")
    BY <1>1, <1>4, <2>1, DefaultRow DEF CleanStates
  <2> QED
    BY <2>2 DEF Moved
<1> QED
  BY <1>2, <1>3, <1>4

----------------------------------------------------------------------------
(* Every step preserves the types and the discipline *)

LEMMA Current ==
    ASSUME Inv
    PROVE  /\ node \in NodeRows
           /\ agent \in Agents /\ (agent.is = "busy" => agent.cmd \in Steps)
           /\ job \in Jobs /\ casts \in Nat /\ recover \in {"no", "boot", "orphan"}
           /\ executed \subseteq Steps
BY DEF Inv, OthersTyped, Discipline

LEMMA AgentLeft ==
    ASSUME Inv, agent' \in {agent, Off, Booting}
    PROVE  agent' \in Agents /\ (agent'.is = "busy" => agent'.cmd \in Steps)
<1>1. Off.is # "busy" /\ Booting.is # "busy"
  BY DEF Off, Booting
<1> QED
  BY <1>1, AgentAndJob, Current

LEMMA TornDownAgent == \A n : TornDown(n) \in {agent, Off, Booting}
BY DEF TornDown

\* The worker gives the lock up: any state will do.
LEMMA ReleasingStep ==
    ASSUME Inv, node' \in NodeRows, Release, agent' \in {agent, Off, Booting},
           flow' \in {flow, "skipped"}, executed' \subseteq Steps,
           UNCHANGED <<job, casts, recover, aborted, counters>>
    PROVE  Inv'
<1>1. agent' \in Agents /\ (agent'.is = "busy" => agent'.cmd \in Steps)
  BY AgentLeft
<1>2. OthersTyped'
  BY <1>1 DEF Inv, OthersTyped, Release, Pcs, counters
<1>3. Discipline'
  BY <1>1 DEF Discipline, Release
<1> QED
  BY <1>2, <1>3 DEF Inv

\* It keeps the lock for more work.
LEMMA WorkingStep ==
    ASSUME Inv, NEW what \in {"next", "execute", "park", "finish", "asleep", "abort"},
           NEW k \in {0} \cup Steps,
           lock = "held", node' \in NodeRows, Stay(what, k),
           node'.state = CASE what = "asleep" -> "clean wait"
                           [] what = "abort" -> "clean failed"
                           [] OTHER -> "cleaning",
           what \in {"next", "execute"} => k \in Steps,
           agent' \in Agents, agent'.is = "busy" => agent'.cmd \in Steps,
           job' \in Jobs, executed' \subseteq Steps,
           UNCHANGED <<casts, recover, flow, aborted, counters>>
    PROVE  Inv'
<1>1. OthersTyped'
  BY DEF Inv, OthersTyped, Stay, Pcs, counters
<1>2. Discipline'
  BY DEF Discipline, Stay
<1> QED
  BY <1>1, <1>2 DEF Inv

\* The lock is free, and free again when the step is over.
LEMMA BriefStep ==
    ASSUME Inv, lock = "free", UNCHANGED <<lock, pc, at>>, node' \in NodeRows,
           agent' \in Agents, agent'.is = "busy" => agent'.cmd \in Steps,
           job' \in Jobs, casts' \in Nat, recover' \in {"no", "boot", "orphan"},
           UNCHANGED <<flow, executed, counters>>, aborted' \in BOOLEAN
    PROVE  Inv'
BY DEF Inv, OthersTyped, Discipline, counters

\* The lock is taken, and a worker started with it.
LEMMA AcquiringStep ==
    ASSUME Inv, NEW what \in {"continue", "cleanup", "abort"}, Acquire(what), node' \in NodeRows,
           node'.state = IF what = "continue" THEN "cleaning" ELSE "clean failed",
           casts' \in Nat, recover' \in {"no", "boot", "orphan"},
           UNCHANGED <<agent, job, flow, executed, counters>>, aborted' \in BOOLEAN
    PROVE  Inv'
BY DEF Inv, OthersTyped, Discipline, Acquire, Pcs, counters

LEMMA AbortedTyped == Inv => aborted \in BOOLEAN
BY DEF Inv, OthersTyped

LEMMA OperatorStep == ASSUME Inv, Operator PROVE Inv'
<1>1. CASE DoNodeClean \/ Provide
  <2>1. \E e, o : \E f \in {"manual", "automated"} : Begin(e, o, f)
    BY <1>1 DEF DoNodeClean, Provide
  <2>2. node' \in NodeRows /\ node'.state = "cleaning"
    BY <1>1, Current, OperatorRows DEF Moved
  <2>3. aborted' \in BOOLEAN
    BY <2>1, Zenon DEF Begin
  <2>4. OthersTyped'
    BY <2>1, <2>3, Bounds DEF Inv, Begin, Acquire, OthersTyped, Pcs
  <2>5. Discipline'
    BY <2>1, <2>2 DEF Inv, Begin, Acquire, Discipline
  <2> QED
    BY <2>2, <2>4, <2>5 DEF Inv
<1>2. CASE Manage \/ Unhold
  <2>1. node' \in NodeRows
    BY <1>2, Current, OperatorRows DEF Moved
  <2> QED
    BY <1>2, <2>1, Current, AbortedTyped, BriefStep DEF Manage, Unhold, Briefly, history
<1>3. CASE DoAbort
  <2>1. aborted' \in BOOLEAN
    BY <1>3, Zenon DEF DoAbort
  <2>2. \/ Briefly /\ node' \in NodeRows
        \/ Acquire("abort") /\ node' \in NodeRows /\ node'.state = "clean failed"
    BY <1>3, Current, OperatorRows DEF Moved
  <2>3. UNCHANGED <<agent, job, casts, recover, flow, executed, counters>>
    BY <1>3 DEF DoAbort
  <2>4. CASE Briefly /\ node' \in NodeRows
    <3>1. lock = "free" /\ UNCHANGED <<lock, pc, at>>
      BY <2>4 DEF Briefly
    <3>2. /\ agent' \in Agents /\ (agent'.is = "busy" => agent'.cmd \in Steps)
          /\ job' \in Jobs /\ casts' \in Nat /\ recover' \in {"no", "boot", "orphan"}
      BY <2>3, Current
    <3> QED
      BY <2>1, <2>3, <2>4, <3>1, <3>2, BriefStep
  <2>5. CASE Acquire("abort") /\ node' \in NodeRows /\ node'.state = "clean failed"
    BY <2>1, <2>3, <2>5, Current, AcquiringStep
  <2> QED
    BY <2>2, <2>4, <2>5
<1>4. CASE UpdateMaintenance
  <2>1. node' \in NodeRows
    <3> DEFINE m == ~node.maintenance
               f == node.fault /\ ~node.maintenance
    <3>1. m \in BOOLEAN /\ f \in BOOLEAN
      OBVIOUS
    <3>2. node \in NodeRows /\ node' = [node EXCEPT !.maintenance = m, !.fault = f]
      BY <1>4, Current DEF UpdateMaintenance
    <3> HIDE DEF m, f
    <3> QED
      BY <3>1, <3>2 DEF NodeRows
  <2>2. lock = "free" /\ UNCHANGED <<lock, pc, at>>
    BY <1>4 DEF UpdateMaintenance, Briefly
  <2>3. UNCHANGED <<agent, job, casts, recover, flow, executed, counters>> /\ aborted' = aborted
    BY <1>4 DEF UpdateMaintenance, history
  <2> QED
    BY <2>1, <2>2, <2>3, Current, AbortedTyped, BriefStep
<1> QED
  BY <1>1, <1>2, <1>3, <1>4 DEF Operator

LEMMA WorkerStep == ASSUME Inv, Worker PROVE Inv'
<1>1. CASE StartCleaning
  BY <1>1, Current, StartRows, ReleasingStep DEF StartCleaning
<1>2. CASE ContinueCleaning
  <2>1. agent' \in Agents /\ (agent'.is = "busy" => agent'.cmd \in Steps)
    BY <1>2, ContinueRows, AgentLeft
  <2> QED
    BY <1>2, <2>1, Current, ContinueRows, ReleasingStep, WorkingStep DEF history
<1>3. CASE NextCleanStep \/ ExecuteSync \/ ExecuteInAgent \/ ExecutePolled
  <2>1. node.state = "cleaning" /\ lock = "held" /\ at \in Steps
    BY <1>3 DEF Inv, Discipline, NextCleanStep, ExecuteSync, ExecuteInAgent, ExecutePolled, Working
  <2>2. node' \in NodeRows /\ node'.state = "cleaning"
    BY <1>3, <2>1, ExecuteRows
  <2>3. \/ Stay("execute", at) \/ Stay("finish", 0) \/ Stay("park", 0)
        \/ at + 1 \in Steps /\ Stay("next", at + 1)
    BY <1>3 DEF NextCleanStep, ExecuteSync, ExecuteInAgent, ExecutePolled, Advance
  <2>4. agent' \in Agents /\ (agent'.is = "busy" => agent'.cmd \in Steps)
    <3>1. agent' \in {agent, Booting} \/ agent' = [is |-> "busy", cmd |-> at]
      BY <1>3 DEF NextCleanStep, ExecuteSync, ExecuteInAgent, ExecutePolled
    <3>2. CASE agent' = [is |-> "busy", cmd |-> at]
      BY <2>1, <3>2 DEF Agents, Up
    <3> QED
      BY <3>1, <3>2, AgentLeft
  <2>5. job' \in Jobs
    <3>1. job' = job \/ job' = [step |-> at, over |-> FALSE]
      BY <1>3 DEF NextCleanStep, ExecuteSync, ExecuteInAgent, ExecutePolled
    <3> QED
      BY <2>1, <3>1, Current, NewJob
  <2>6. executed' \subseteq Steps /\ UNCHANGED <<casts, recover, flow, aborted, counters>>
    BY <1>3, <2>1, Current
    DEF NextCleanStep, ExecuteSync, ExecuteInAgent, ExecutePolled, history, counters
  <2> QED
    BY <2>1, <2>2, <2>3, <2>4, <2>5, <2>6, WorkingStep
<1>4. CASE ExecuteFails
  BY <1>4, Current, ExecuteRows, ReleasingStep, TornDownAgent DEF ExecuteFails, history
<1>5. CASE ExecuteReserved
  <2>1. lock = "held" /\ at \in Steps
    BY <1>5 DEF Inv, Discipline, ExecuteReserved, Working
  <2>2. node' \in NodeRows /\ (Plan[at] = "sleep" => node'.state = "clean wait")
    BY <1>5, ExecuteRows DEF Moved
  <2>3. executed' \subseteq Steps
    BY <1>5, <2>1, Current DEF ExecuteReserved
  <2>4. (Plan[at] = "sleep" /\ Stay("asleep", 0)) \/ Release
    BY <1>5 DEF ExecuteReserved
  <2> QED
    BY <1>5, <2>1, <2>2, <2>3, <2>4, Current, ReleasingStep, WorkingStep DEF ExecuteReserved
<1>6. CASE Park \/ WakeUp \/ FinishCleaning \/ AbortCleaning \/ CleanUpFailed
  <2>1. node' \in NodeRows
    BY <1>6, EndRows DEF Moved
  <2>2. agent' \in {agent, Off, Booting} /\ Release
    BY <1>6 DEF Park, WakeUp, FinishCleaning, AbortCleaning, CleanUpFailed, TornDown
  <2>3. UNCHANGED <<job, casts, recover, history, counters>>
    BY <1>6 DEF Park, WakeUp, FinishCleaning, AbortCleaning, CleanUpFailed
  <2> QED
    BY <2>1, <2>2, <2>3, Current, ReleasingStep DEF history
<1> QED
  BY <1>1, <1>2, <1>3, <1>4, <1>5, <1>6 DEF Worker

LEMMA HeartbeatStep == ASSUME Inv, Heartbeats \/ HeartbeatBreaks PROVE Inv'
<1>1. CASE HeartbeatInMaintenance \/ HeartbeatStepFailed \/ HeartbeatBreaks
  <2>1. /\ node' \in NodeRows /\ agent' \in {agent, Off} /\ HeartbeatFails
    BY <1>1, HeartbeatRows
  <2>2. agent' \in Agents /\ (agent'.is = "busy" => agent'.cmd \in Steps)
    BY <2>1, AgentLeft
  <2> QED
    BY <2>1, <2>2, Current, AbortedTyped, BriefStep DEF HeartbeatFails, Heartbeat, history
<1>2. CASE HeartbeatFirst \/ HeartbeatFresh \/ HeartbeatDone \/ HeartbeatMismatch
  <2>1. /\ node' \in NodeRows /\ node'.state = "cleaning" /\ Acquire("continue")
        /\ UNCHANGED <<agent, job, casts, recover, history, counters>>
    BY <1>2, HeartbeatRows
  <2> QED
    BY <2>1, Current, AbortedTyped, AcquiringStep DEF history
<1>3. CASE HeartbeatReboots
  <2>1. node' \in NodeRows
    BY <1>3, HeartbeatRows
  <2>2. agent' \in Agents /\ (agent'.is = "busy" => agent'.cmd \in Steps)
    BY <1>3, AgentLeft DEF HeartbeatReboots
  <2> QED
    BY <1>3, <2>1, <2>2, Current, AbortedTyped, BriefStep DEF HeartbeatReboots, Heartbeat, history
<1> QED
  BY <1>1, <1>2, <1>3 DEF Heartbeats

LEMMA ConductorStep == ASSUME Inv, Conductor \/ CheckCleanwaitTimeouts PROVE Inv'
<1>1. CASE ContinueNodeClean
  <2>1. casts' \in Nat
    <3>1. casts > 0 /\ casts' = casts - 1 /\ casts \in Nat
      BY <1>1, Current DEF ContinueNodeClean
    <3> QED
      BY <3>1
  <2>2. node' \in NodeRows /\ (Briefly \/ (Acquire("continue") /\ node'.state = "cleaning"))
    BY <1>1, Current, ConductorRows DEF Moved
  <2> QED
    BY <1>1, <2>1, <2>2, Current, AbortedTyped, BriefStep, AcquiringStep
    DEF ContinueNodeClean, Briefly, history
<1>2. CASE QueryJobStatus
  <2>1. job' = NoJob /\ casts' \in {casts, casts + 1} /\ casts \in Nat
    BY <1>2, Current DEF QueryJobStatus
  <2>2. job' \in Jobs /\ casts' \in Nat
    BY <2>1, AgentAndJob
  <2> QED
    BY <1>2, <2>2, Current, AbortedTyped, BriefStep DEF QueryJobStatus, Briefly, history
<1>3. CASE DiscardFailedJob
  BY <1>3, AgentAndJob, Current, AbortedTyped, BriefStep DEF DiscardFailedJob, Briefly, history
<1>4. CASE CheckCleanwaitTimeouts
  <2>1. node' \in NodeRows /\ node'.state = "clean failed"
    BY <1>4, ConductorRows
  <2> QED
    BY <1>4, <2>1, Current, AbortedTyped, BriefStep, AcquiringStep
    DEF CheckCleanwaitTimeouts, Briefly, history
<1> QED
  BY <1>1, <1>2, <1>3, <1>4 DEF Conductor

LEMMA RecoverStep == ASSUME Inv, Recover \/ Crash PROVE Inv'
<1>1. CASE Crash
  <2>1. crashes' \in 0..MaxCrashes
    BY <1>1, Bounds DEF Crash, Inv, OthersTyped
  <2>2. OthersTyped'
    BY <1>1, <2>1 DEF Crash, Inv, OthersTyped, Pcs, history
  <2>3. Discipline'
    BY <1>1 DEF Crash, Inv, OthersTyped, Discipline
  <2> QED
    BY <1>1, <2>2, <2>3 DEF Crash, Inv
<1>2. CASE Restart \/ CheckOrphanNodes
  BY <1>2 DEF Restart, CheckOrphanNodes, Inv, OthersTyped, Discipline, history, counters
<1>3. CASE CorrectStuckStates
  <2>1. CASE node.state = "cleaning" /\ lock = "free" /\ node' = Fired(node, "fail", NoState)
    <3>1. node' \in NodeRows
      BY <2>1, ConductorRows
    <3> QED
      BY <1>3, <2>1, <3>1, Current, AbortedTyped, BriefStep DEF CorrectStuckStates, history
  <2>2. CASE node' = node
    BY <1>3, <2>2 DEF CorrectStuckStates, Inv, OthersTyped, Discipline, history, counters
  <2> QED
    BY <1>3, <2>1, <2>2 DEF CorrectStuckStates
<1>4. CASE CleanUpOrphan
  <2>1. CASE node.state = "cleaning" /\ node' = Fired(node, "fail", NoState)
             /\ Acquire("cleanup")
    <3>1. node' \in NodeRows /\ node'.state = "clean failed"
      BY <2>1, ConductorRows
    <3> QED
      BY <1>4, <2>1, <3>1, Current, AbortedTyped, AcquiringStep DEF CleanUpOrphan, history
  <2>2. CASE UNCHANGED <<node, lock, pc, at>>
    BY <1>4, <2>2 DEF CleanUpOrphan, Inv, OthersTyped, Discipline, history, counters
  <2> QED
    BY <1>4, <2>1, <2>2 DEF CleanUpOrphan
<1> QED
  BY <1>1, <1>2, <1>3, <1>4 DEF Recover

LEMMA HardwareStep == ASSUME Inv, Hardware \/ AgentLost PROVE Inv'
<1>1. CASE AgentBoots
  <2>1. agent' \in Agents /\ agent'.is # "busy"
    BY <1>1 DEF AgentBoots, Agents, Up
  <2> QED
    BY <1>1, <2>1 DEF AgentBoots, Inv, OthersTyped, Discipline, history, counters
<1>2. CASE AgentFinishes
  <2>1. agent.cmd \in Steps
    BY <1>2 DEF AgentFinishes, Inv, Discipline
  <2>2. agent' \in Agents /\ agent'.is # "busy"
    BY <1>2, Current DEF AgentFinishes, Agents, Up
  <2>3. executed' \subseteq Steps
    BY <1>2, <2>1 DEF AgentFinishes, Inv, OthersTyped
  <2>4. mismatches' \in 0..MaxMismatches
    BY <1>2, Bounds DEF AgentFinishes, Inv, OthersTyped
  <2> QED
    BY <1>2, <2>2, <2>3, <2>4 DEF AgentFinishes, Inv, OthersTyped, Discipline
<1>3. CASE AgentLost
  <2>1. agent' \in Agents /\ (agent'.is = "busy" => agent'.cmd \in Steps)
    BY <1>3, AgentLeft DEF AgentLost
  <2> QED
    BY <1>3, <2>1 DEF AgentLost, Inv, OthersTyped, Discipline, history, counters
<1>4. CASE JobFinishes
  <2>1. job' \in Jobs /\ job.step \in Steps
    BY <1>4, Current DEF JobFinishes, Jobs
  <2>2. executed' \subseteq Steps
    BY <1>4, <2>1 DEF JobFinishes, Inv, OthersTyped
  <2> QED
    BY <1>4, <2>1, <2>2 DEF JobFinishes, Inv, OthersTyped, Discipline, counters
<1> QED
  BY <1>1, <1>2, <1>3, <1>4 DEF Hardware

LEMMA InvStep == ASSUME Inv, [Next]_vars PROVE Inv'
<1>1. CASE UNCHANGED vars
  BY <1>1 DEF vars, Inv, OthersTyped, Discipline, history, counters
<1> QED
  BY <1>1, OperatorStep, WorkerStep, HeartbeatStep, ConductorStep, RecoverStep, HardwareStep
  DEF Next

LEMMA Invariance == Spec => []Inv
BY InvInit, InvStep, PTL DEF Spec

\* The row of the node, its lock, the agent and the job keep their types, for
\* every plan of clean steps, every kind of trouble and all bounds: the index
\* of _get_node_next_steps stays in the list of steps.
THEOREM TypeCorrect == Spec => []TypeOK
<1>1. Inv => TypeOK
  BY Typed DEF Inv
<1> QED
  BY <1>1, Invariance, PTL

----------------------------------------------------------------------------
(* A manual cleaning returns the node *)

\* Without hold and wait steps: they give the node the default target.
NoReservedSteps == \A k \in Steps : Plan[k] \notin {"hold", "wait", "sleep"}

\* The target of a manual cleaning stays MANAGEABLE as long as it goes on.
TargetKept ==
    /\ pc # "asleep" /\ node.state # "clean hold"
    /\ flow = "manual" /\ node.state \in {"cleaning", "clean wait"}
         => node.target = "manageable"

LEMMA TargetKeptStep ==
    ASSUME Inv, TargetKept, NoReservedSteps, [Next]_vars
    PROVE  TargetKept'
<1> USE DEF TargetKept
<1>1. CASE Operator
  <2>1. CASE DoNodeClean
    <3>1. node'.state = "cleaning" /\ node'.target = "manageable" /\ pc' = "start"
      BY <2>1, Current, OperatorRows DEF Moved, DoNodeClean, Begin, Acquire
    <3> QED
      BY <3>1
  <2>2. CASE Provide
    <3>1. node'.state = "cleaning" /\ flow' = "automated" /\ pc' = "start"
      BY <2>2, Current, OperatorRows DEF Moved, Provide, Begin, Acquire
    <3> QED
      BY <3>1
  <2>3. CASE Manage
    BY <2>3, Current, OperatorRows DEF Moved, Manage, Briefly
  <2>4. CASE Unhold
    BY <2>4 DEF Unhold
  <2>5. CASE DoAbort
    <3>1. CASE Briefly /\ node' = [node EXCEPT !.abortAfter = TRUE]
      BY <2>5, <3>1, Current DEF Briefly, DoAbort, NodeRows
    <3>2. CASE Acquire("abort") /\ Moved(node, node', "clean failed", Kept(node))
      BY <3>2 DEF Moved, Acquire
    <3> QED
      BY <2>5, <3>1, <3>2, Current, OperatorRows
  <2>6. CASE UpdateMaintenance
    BY <2>6, Current DEF UpdateMaintenance, Briefly, NodeRows, history
  <2> QED
    BY <1>1, <2>1, <2>2, <2>3, <2>4, <2>5, <2>6 DEF Operator
<1>2. CASE Worker
  <2>1. CASE StartCleaning
    <3>1. node.state = "cleaning" /\ pc' = "idle"
      BY <2>1 DEF StartCleaning, Working, Release, Inv, Discipline
    <3> QED
      BY <2>1, <3>1, StartRows DEF Kept
  <2>2. CASE ContinueCleaning
    <3>1. node.state = "cleaning"
      BY <2>2 DEF ContinueCleaning, Working, Inv, Discipline
    <3> QED
      BY <2>2, <3>1, ContinueRows DEF Stay, Release, history
  <2>3. CASE NextCleanStep \/ ExecuteSync \/ ExecuteInAgent \/ ExecutePolled
    <3>1. node'.state = node.state /\ node'.target = node.target
      BY <2>3, ExecuteRows
    <3>2. flow' = flow /\ pc' # "asleep"
      BY <2>3 DEF NextCleanStep, ExecuteSync, ExecuteInAgent, ExecutePolled, Advance, Stay, history
    <3> QED
      BY <3>1, <3>2
  <2>4. CASE ExecuteFails
    BY <2>4, ExecuteRows DEF ExecuteFails, Release
  <2>5. CASE ExecuteReserved
    BY <2>5 DEF ExecuteReserved, Working, Inv, Discipline, NoReservedSteps
  <2>6. CASE Park
    <3>1. node'.state = "clean wait" /\ node'.target = Kept(node) /\ node.state = "cleaning"
      BY <2>6, EndRows DEF Moved, Park, Working, Inv, Discipline
    <3> QED
      BY <2>6, <3>1 DEF Park, Release, history, Kept
  <2>7. CASE WakeUp
    BY <2>7 DEF WakeUp, Working
  <2>8. CASE FinishCleaning \/ AbortCleaning \/ CleanUpFailed
    <3>1. node'.state \in {"manageable", "available", "clean failed"}
      BY <2>8, EndRows
    <3>2. pc' = "idle"
      BY <2>8 DEF FinishCleaning, AbortCleaning, CleanUpFailed, Release
    <3> QED
      BY <3>1, <3>2
  <2> QED
    BY <1>2, <2>1, <2>2, <2>3, <2>4, <2>5, <2>6, <2>7, <2>8 DEF Worker
<1>3. CASE Heartbeats \/ HeartbeatBreaks
  <2>1. CASE HeartbeatInMaintenance \/ HeartbeatStepFailed \/ HeartbeatBreaks
    BY <2>1, HeartbeatRows DEF HeartbeatFails
  <2>2. CASE HeartbeatFirst \/ HeartbeatFresh \/ HeartbeatDone \/ HeartbeatMismatch
    BY <2>2, HeartbeatRows DEF Acquire, Kept, history
  <2>3. CASE HeartbeatReboots
    BY <2>3, HeartbeatRows DEF HeartbeatReboots, history
  <2> QED
    BY <1>3, <2>1, <2>2, <2>3 DEF Heartbeats
<1>4. CASE Conductor
  <2>1. CASE ContinueNodeClean
    BY <2>1, ConductorRows DEF ContinueNodeClean, Moved, Kept, Acquire, Briefly, history
  <2>2. CASE QueryJobStatus \/ DiscardFailedJob
    BY <2>2 DEF QueryJobStatus, DiscardFailedJob, Briefly, history
  <2> QED
    BY <1>4, <2>1, <2>2 DEF Conductor
<1>5. CASE CheckCleanwaitTimeouts
  BY <1>5, ConductorRows DEF CheckCleanwaitTimeouts, Acquire, Briefly
<1>6. CASE Recover \/ Crash
  <2>1. /\ \/ node'.state = "clean failed"
           \/ node' = node
        /\ pc' \in {pc, "idle", "cleanup"} /\ flow' = flow
    BY <1>6, ConductorRows
    DEF Recover, Crash, Restart, CorrectStuckStates, CheckOrphanNodes, CleanUpOrphan, Acquire,
        history
  <2> QED
    BY <2>1
<1>7. CASE Hardware \/ AgentLost \/ UNCHANGED vars
  BY <1>7 DEF Hardware, AgentBoots, AgentFinishes, JobFinishes, AgentLost, vars, history
<1> QED
  BY <1>1, <1>2, <1>3, <1>4, <1>5, <1>6, <1>7 DEF Next

LEMMA TargetKeptInvariance == NoReservedSteps /\ Spec => []TargetKept
<1> SUFFICES ASSUME NoReservedSteps PROVE Spec => []TargetKept
  OBVIOUS
<1>1. Init => TargetKept
  BY DEF Init, TargetKept
<1>2. Inv /\ TargetKept /\ [Next]_vars => TargetKept'
  BY TargetKeptStep
<1> QED
  BY <1>1, <1>2, Invariance, PTL DEF Spec

\* The node becomes available only where the target is not MANAGEABLE.
LEMMA OnlyThenAvailable ==
    ASSUME Inv, [Next]_vars, node.state # "available", node'.state = "available"
    PROVE  node.state = "cleaning" /\ node.target # "manageable"
<1>1. CASE Operator
  BY <1>1, Current, OperatorRows DEF Operator, Moved, UpdateMaintenance, NodeRows
<1>2. CASE Worker
  <2>1. CASE StartCleaning \/ FinishCleaning
    BY <2>1, StartRows, EndRows DEF StartCleaning, FinishCleaning, Working, Inv, Discipline
  <2>2. CASE ContinueCleaning
    BY <2>2, ContinueRows
  <2>3. CASE NextCleanStep \/ ExecuteSync \/ ExecuteInAgent \/ ExecutePolled \/ ExecuteFails
             \/ ExecuteReserved
    BY <2>3, ExecuteRows DEF Moved
  <2>4. CASE Park \/ WakeUp \/ AbortCleaning \/ CleanUpFailed
    BY <2>4, EndRows DEF Moved
  <2> QED
    BY <1>2, <2>1, <2>2, <2>3, <2>4 DEF Worker
<1>3. CASE Heartbeats \/ HeartbeatBreaks
  BY <1>3, HeartbeatRows DEF Heartbeats
<1>4. CASE Conductor \/ CheckCleanwaitTimeouts
  BY <1>4, ConductorRows DEF Conductor, Moved, QueryJobStatus, DiscardFailedJob
<1>5. CASE Recover \/ Crash
  BY <1>5, ConductorRows
  DEF Recover, Crash, Restart, CorrectStuckStates, CheckOrphanNodes, CleanUpOrphan
<1>6. CASE Hardware \/ AgentLost \/ UNCHANGED vars
  BY <1>6 DEF Hardware, AgentBoots, AgentFinishes, JobFinishes, AgentLost, vars
<1> QED
  BY <1>1, <1>2, <1>3, <1>4, <1>5, <1>6 DEF Next

\* A manual cleaning of steps that are not reserved never makes the node
\* available, whatever goes wrong: do_next_clean_step, the heartbeats and the
\* recoveries keep target_provision_state as long as the node is in CLEANING
\* or CLEANWAIT.
THEOREM ManualCleaningReturnsNode == NoReservedSteps /\ Spec => ManualCleanReturns
<1>1. Inv /\ TargetKept /\ [Next]_vars
        => [node.state # "available" /\ node'.state = "available" => flow # "manual"]_vars
  BY OnlyThenAvailable DEF TargetKept
<1> QED
  BY <1>1, Invariance, TargetKeptInvariance, PTL DEF Spec, ManualCleanReturns

----------------------------------------------------------------------------
(* An accepted abort is final *)

\* As long as the agent does not change its clean steps in between.
NoMismatch == MaxMismatches = 0

AgentMatches == agent.is # "mismatch"

\* The request to abort stays on the clean step until continue_node_clean
\* reads it; until then nobody works on the node.
AbortKept ==
    /\ aborted /\ node.state \in {"cleaning", "clean wait", "clean hold"}
         => node.abortAfter /\ node.step # 0
    /\ aborted /\ node.state = "cleaning" /\ lock = "held" => pc = "continue"
    /\ pc = "asleep" => ~aborted

LEMMA AgentMatchesStep ==
    ASSUME Inv, AgentMatches, NoMismatch, [Next]_vars
    PROVE  AgentMatches'
<1>1. agent' \in {agent, Off, Booting} => AgentMatches'
  BY DEF Off, Booting, AgentMatches
<1>2. CASE Operator
  BY <1>1, <1>2 DEF Operator, DoNodeClean, Provide, Begin, Manage, Unhold, DoAbort, UpdateMaintenance
<1>3. CASE Worker
  <2>1. agent' \in {agent, Off, Booting} \/ agent' = [is |-> "busy", cmd |-> at]
    BY <1>3 DEF Worker, StartCleaning, ContinueCleaning, NextCleanStep, ExecuteSync, ExecuteFails,
                ExecuteInAgent, ExecutePolled, ExecuteReserved, Park, WakeUp, FinishCleaning,
                AbortCleaning, CleanUpFailed, TornDown
  <2> QED
    BY <1>1, <2>1 DEF AgentMatches
<1>4. CASE Heartbeats \/ HeartbeatBreaks
  <2>1. agent' \in {agent, Off, Booting}
    BY <1>4, HeartbeatRows DEF Heartbeats, HeartbeatReboots
  <2> QED
    BY <1>1, <2>1
<1>5. CASE Conductor \/ CheckCleanwaitTimeouts \/ Recover \/ Crash
  BY <1>1, <1>5 DEF Conductor, ContinueNodeClean, QueryJobStatus, DiscardFailedJob,
              CheckCleanwaitTimeouts, Recover, Crash, Restart, CorrectStuckStates,
              CheckOrphanNodes, CleanUpOrphan
<1>6. CASE AgentBoots
  BY <1>6 DEF AgentBoots, AgentMatches
<1>7. CASE AgentFinishes
  <2>1. ~(mismatches < MaxMismatches)
    BY Bounds DEF Inv, OthersTyped, NoMismatch
  <2> QED
    BY <1>7, <2>1, Current DEF AgentFinishes, Agents, AgentMatches
<1>8. CASE AgentLost \/ JobFinishes \/ UNCHANGED vars
  BY <1>1, <1>8 DEF AgentLost, JobFinishes, vars
<1> QED
  BY <1>2, <1>3, <1>4, <1>5, <1>6, <1>7, <1>8 DEF Next, Hardware

LEMMA AbortKeptStep ==
    ASSUME Inv, AbortKept, AgentMatches, [Next]_vars
    PROVE  AbortKept'
<1>1. ASSUME UNCHANGED <<aborted, pc, lock>>,
             \/ /\ node'.state = node.state
                /\ node'.step = node.step /\ node'.abortAfter = node.abortAfter
             \/ node'.state \notin {"cleaning", "clean wait", "clean hold"}
      PROVE  AbortKept'
  BY <1>1 DEF AbortKept
\* a worker is started for a cleaning that may have been asked to abort
<1>2. ASSUME UNCHANGED aborted, pc' = "continue",
             node.state = "clean wait", node'.state = "cleaning",
             aborted => node'.step = node.step /\ node'.abortAfter = node.abortAfter
      PROVE  AbortKept'
  BY <1>2 DEF AbortKept
<1> USE DEF AbortKept
<1>3. CASE Operator
  <2>1. CASE DoNodeClean \/ Provide
    BY <2>1 DEF DoNodeClean, Provide, Begin, Acquire
  <2>2. CASE Manage \/ Unhold
    <3>1. \/ node'.state = "manageable"
          \/ /\ node.state = "clean hold" /\ node'.state = "clean wait"
             /\ node'.step = node.step /\ node'.abortAfter = node.abortAfter
      BY <2>2, Current, OperatorRows DEF Moved, Unhold
    <3>2. aborted' = aborted /\ pc' = pc /\ lock = "free"
      BY <2>2 DEF Manage, Unhold, Briefly, history
    <3> QED
      BY <3>1, <3>2 DEF Inv, Discipline
  <2>3. CASE DoAbort
    <3>1. CASE Briefly /\ node.step # 0 /\ node' = [node EXCEPT !.abortAfter = TRUE]
      BY <2>3, <3>1, Current DEF Briefly, DoAbort, NodeRows, Inv, Discipline
    <3>2. CASE Acquire("abort") /\ Moved(node, node', "clean failed", Kept(node))
      BY <3>2 DEF Moved, Acquire
    <3> QED
      BY <2>3, <3>1, <3>2, Current, OperatorRows
  <2>4. CASE UpdateMaintenance
    BY <2>4, Current DEF UpdateMaintenance, Briefly, NodeRows, history, counters
  <2> QED
    BY <1>3, <2>1, <2>2, <2>3, <2>4 DEF Operator
<1>4. CASE Worker
  <2>1. CASE ContinueCleaning
    <3>1. node.state = "cleaning" /\ UNCHANGED aborted
      BY <2>1 DEF ContinueCleaning, Working, Inv, Discipline, history, counters
    <3> QED
      BY <2>1, <3>1, ContinueRows DEF Stay, Release
  <2>2. CASE ~ContinueCleaning /\ ~AbortCleaning /\ ~CleanUpFailed
    \* nobody has asked to abort
    <3>1. ~aborted /\ UNCHANGED aborted
      BY <1>4, <2>2
      DEF Worker, StartCleaning, NextCleanStep, ExecuteSync, ExecuteFails, ExecuteInAgent,
          ExecutePolled, ExecuteReserved, Park, WakeUp, FinishCleaning, Working, Inv,
          Discipline, history, counters
    <3> QED
      BY <3>1
  <2>3. CASE AbortCleaning \/ CleanUpFailed
    BY <2>3, EndRows DEF AbortCleaning, CleanUpFailed, Release
  <2> QED
    BY <2>1, <2>2, <2>3
<1>5. CASE Heartbeats \/ HeartbeatBreaks
  <2>1. CASE HeartbeatInMaintenance \/ HeartbeatStepFailed \/ HeartbeatBreaks
    BY <2>1, HeartbeatRows DEF HeartbeatFails, Heartbeat, Inv, Discipline
  <2>2. CASE HeartbeatFirst
    <3>1. UNCHANGED aborted /\ pc' = "continue" /\ node.step = 0
      BY <2>2 DEF HeartbeatFirst, HeartbeatContinues, Acquire, history
    <3>2. node.state = "clean wait" /\ node'.state = "cleaning"
      BY <2>2, HeartbeatRows
    <3> QED
      BY <1>2, <3>1, <3>2
  <2>3. CASE HeartbeatFresh \/ HeartbeatDone
    <3>1. UNCHANGED aborted /\ pc' = "continue"
      BY <2>3 DEF HeartbeatFresh, HeartbeatDone, HeartbeatContinues, Acquire, history
    <3>2. /\ node.state = "clean wait" /\ node'.state = "cleaning"
          /\ node'.step = node.step /\ node'.abortAfter = node.abortAfter
      BY <2>3, HeartbeatRows
    <3> QED
      BY <1>2, <3>1, <3>2
  <2>4. CASE HeartbeatReboots
    BY <2>4, HeartbeatRows DEF HeartbeatReboots, history, counters
  <2>5. CASE HeartbeatMismatch
    BY <2>5 DEF HeartbeatMismatch, AgentMatches
  <2> QED
    BY <1>5, <2>1, <2>2, <2>3, <2>4, <2>5 DEF Heartbeats
<1>6. CASE Conductor
  <2>1. CASE ContinueNodeClean
    <3>1. UNCHANGED aborted
      BY <2>1 DEF ContinueNodeClean, history
    <3>2. \/ /\ node.state = "clean wait" /\ node'.state = "cleaning"
             /\ node'.step = node.step /\ node'.abortAfter = node.abortAfter
             /\ pc' = "continue" \/ (lock' = "free" /\ pc' = pc)
          \/ node' = node /\ UNCHANGED <<lock, pc>>
      BY <2>1, ConductorRows DEF Moved, Acquire, Briefly
    <3>3. CASE node.state = "clean wait" /\ node'.state = "cleaning" /\ pc' = "continue"
      BY <1>2, <3>1, <3>2, <3>3
    <3>4. CASE /\ node.state = "clean wait"
               /\ node'.step = node.step /\ node'.abortAfter = node.abortAfter
               /\ lock' = "free" /\ pc' = pc
      BY <3>1, <3>4
    <3>5. CASE node' = node /\ UNCHANGED <<lock, pc>>
      BY <1>1, <3>1, <3>5
    <3> QED
      BY <3>2, <3>3, <3>4, <3>5
  <2>2. CASE QueryJobStatus \/ DiscardFailedJob
    <3>1. UNCHANGED aborted
      BY <2>2 DEF QueryJobStatus, DiscardFailedJob, history
    <3>2. node' = node /\ UNCHANGED <<lock, pc>>
      BY <2>2 DEF QueryJobStatus, DiscardFailedJob, Briefly
    <3> QED
      BY <1>1, <3>1, <3>2
  <2> QED
    BY <1>6, <2>1, <2>2 DEF Conductor
<1>7. CASE CheckCleanwaitTimeouts
  BY <1>7, ConductorRows DEF CheckCleanwaitTimeouts, Acquire, Briefly, Inv, Discipline
<1>8. CASE Recover \/ Crash
  <2>1. /\ \/ node'.state = "clean failed"
           \/ node' = node
        /\ aborted' = aborted
        /\ \/ lock' \in {"free", "dead"} /\ pc' \in {pc, "idle"}
           \/ pc' = "cleanup" /\ node'.state = "clean failed"
           \/ UNCHANGED <<lock, pc>>
    BY <1>8, ConductorRows
    DEF Recover, Crash, Restart, CorrectStuckStates, CheckOrphanNodes, CleanUpOrphan, Acquire,
        history, counters
  <2> QED
    BY <2>1 DEF Inv, Discipline
<1>9. CASE Hardware \/ AgentLost \/ UNCHANGED vars
  <2>1. UNCHANGED <<node, lock, pc, aborted>>
    BY <1>9 DEF Hardware, AgentBoots, AgentFinishes, JobFinishes, AgentLost, vars, history
  <2> QED
    BY <1>1, <2>1
<1> QED
  BY <1>3, <1>4, <1>5, <1>6, <1>7, <1>8, <1>9 DEF Next

LEMMA AbortKeptInvariance == NoMismatch /\ Spec => []AbortKept
<1> SUFFICES ASSUME NoMismatch PROVE Spec => []AbortKept
  OBVIOUS
<1>1. Init => AbortKept /\ AgentMatches
  BY DEF Init, AbortKept, AgentMatches, Off
<1>2. Inv /\ AbortKept /\ AgentMatches /\ [Next]_vars => AbortKept' /\ AgentMatches'
  BY AbortKeptStep, AgentMatchesStep
<1> QED
  BY <1>1, <1>2, Invariance, PTL DEF Spec

\* When an agent keeps its clean steps, no step is started any more once
\* abort has been accepted, whatever crashes, takes over or is repeated in
\* between: abort_after is saved with the clean step, and continue_node_clean
\* comes before the next one (_do_abort).
THEOREM AbortEndsCleaning == NoMismatch /\ Spec => AbortIsFinal
<1>1. Inv /\ AbortKept => (Working("next") => ~aborted)
  BY DEF Inv, Discipline, AbortKept, Working
<1> QED
  BY <1>1, Invariance, AbortKeptInvariance, PTL DEF AbortIsFinal

----------------------------------------------------------------------------
(* A node in CLEANING is never left alone *)

\* What leaves a node in CLEANING, and is excluded here: a wait step with
\* seconds, no worker for a continuation, somebody else's lock during a
\* recovery, a recovery that does not come to the node, a take-over of a node in
\* maintenance, a second crash.
Recoverable ==
    /\ \A k \in Steps : Plan[k] # "sleep"
    /\ "no worker" \notin Trouble /\ "lock taken" \notin Trouble
    /\ "passed over" \notin Trouble
    /\ "takeover" \in Trouble => "maintenance" \notin Trouble /\ ~ProvisionInMaintenance
    /\ MaxCrashes <= 1

\* A node that is cleaned is not in maintenance when a take-over can happen.
InService ==
    "takeover" \in Trouble /\ node.state \in {"cleaning", "clean wait", "clean hold"}
        => ~node.maintenance

\* A recovery follows a crash: there is no other one that could interrupt it.
OneCrash == recover # "no" \/ lock = "dead" => crashes >= 1

NeverAsleep == pc # "asleep"

LEMMA InServiceStep ==
    ASSUME Inv, InService, Recoverable, [Next]_vars
    PROVE  InService'
<1>1. node'.state = node.state /\ node'.maintenance = node.maintenance => InService'
  BY DEF InService
<1>2. node'.state \in {"available", "manageable", "clean failed"} => InService'
  BY DEF InService
<1>3. ASSUME node'.maintenance = node.maintenance,
             node.state \in {"cleaning", "clean wait", "clean hold"}
      PROVE  InService'
  BY <1>3 DEF InService
<1>4. CASE Operator
  <2>1. CASE DoNodeClean
    <3>1. ~node.maintenance /\ node'.maintenance = node.maintenance
      BY <2>1, Current, OperatorRows DEF DoNodeClean, Moved
    <3> QED
      BY <3>1 DEF InService
  <2>2. CASE Provide
    <3>1. node'.maintenance = node.maintenance /\ (node.maintenance => ProvisionInMaintenance)
      BY <2>2, Current, OperatorRows DEF Provide, Moved
    <3> QED
      BY <3>1 DEF InService, Recoverable
  <2>3. CASE Manage
    BY <1>2, <2>3, Current, OperatorRows DEF Moved
  <2>4. CASE Unhold
    BY <1>3, <2>4, Current, OperatorRows DEF Moved, Unhold
  <2>5. CASE DoAbort
    <3>1. \/ node'.state = node.state /\ node'.maintenance = node.maintenance
          \/ node'.state = "clean failed"
      BY <2>5, Current, OperatorRows DEF Moved, NodeRows
    <3> QED
      BY <1>1, <1>2, <3>1
  <2>6. CASE UpdateMaintenance
    <3>1. node' = [node EXCEPT !.maintenance = ~@, !.fault = @ /\ ~node.maintenance]
          /\ (node.maintenance \/ "maintenance" \in Trouble)
      BY <2>6 DEF UpdateMaintenance, May
    <3>2. node \in NodeRows
      BY Current
    <3>3. node'.state = node.state /\ (node.maintenance => ~node'.maintenance)
      BY <3>1, <3>2 DEF NodeRows
    <3> QED
      BY <3>1, <3>3 DEF InService, Recoverable
  <2> QED
    BY <1>4, <2>1, <2>2, <2>3, <2>4, <2>5, <2>6 DEF Operator
<1>5. CASE Worker
  <2>1. CASE StartCleaning \/ ContinueCleaning
    <3>1. node.state = "cleaning"
      BY <2>1 DEF StartCleaning, ContinueCleaning, Working, Inv, Discipline
    <3> QED
      BY <1>2, <1>3, <2>1, <3>1, StartRows, ContinueRows
  <2>2. CASE NextCleanStep \/ ExecuteSync \/ ExecuteInAgent \/ ExecutePolled \/ ExecuteFails
             \/ ExecuteReserved
    <3>1. node.state = "cleaning"
      BY <2>2 DEF NextCleanStep, ExecuteSync, ExecuteInAgent, ExecutePolled, ExecuteFails,
                  ExecuteReserved, Working, Inv, Discipline
    <3> QED
      BY <1>2, <1>3, <2>2, <3>1, ExecuteRows DEF Moved
  <2>3. CASE Park \/ WakeUp \/ FinishCleaning \/ AbortCleaning \/ CleanUpFailed
    <3>1. Park \/ WakeUp => node.state \in {"cleaning", "clean wait"}
      BY DEF Park, WakeUp, Working, Inv, Discipline
    <3> QED
      BY <1>2, <1>3, <2>3, <3>1, EndRows DEF Moved
  <2> QED
    BY <1>5, <2>1, <2>2, <2>3 DEF Worker
<1>6. CASE Heartbeats \/ HeartbeatBreaks
  <2>1. \/ node'.state = "clean failed"
        \/ node'.state = node.state /\ node'.maintenance = node.maintenance
        \/ ~node'.maintenance
    BY <1>6, HeartbeatRows DEF Heartbeats
  <2> QED
    BY <1>1, <1>2, <2>1 DEF InService
<1>7. CASE Conductor \/ CheckCleanwaitTimeouts \/ Recover \/ Crash
  <2>1. \/ node' = node
        \/ node.state = "clean wait" /\ node'.maintenance = node.maintenance
        \/ node'.state = "clean failed"
    BY <1>7, ConductorRows
    DEF Conductor, QueryJobStatus, DiscardFailedJob, Moved, Recover, Crash, Restart,
        CorrectStuckStates, CheckOrphanNodes, CleanUpOrphan
  <2> QED
    BY <1>1, <1>2, <1>3, <2>1
<1>8. CASE Hardware \/ AgentLost \/ UNCHANGED vars
  BY <1>1, <1>8 DEF Hardware, AgentBoots, AgentFinishes, JobFinishes, AgentLost, vars
<1> QED
  BY <1>4, <1>5, <1>6, <1>7, <1>8 DEF Next

LEMMA OneCrashStep ==
    ASSUME Inv, OneCrash, [Next]_vars
    PROVE  OneCrash'
<1>1. crashes \in Nat
  BY Bounds DEF Inv, OthersTyped
<1>2. CASE Crash
  BY <1>1, <1>2 DEF Crash, OneCrash
<1>3. CASE Restart \/ CheckOrphanNodes
  BY <1>3 DEF Restart, CheckOrphanNodes, OneCrash, counters
<1>4. ASSUME ~Crash, ~Restart, ~CheckOrphanNodes
      PROVE  crashes' = crashes /\ recover' \in {recover, "no"} /\ (lock' = "dead" => lock = "dead")
  <2>1. CASE Operator
    BY <2>1 DEF Operator, DoNodeClean, Provide, Begin, Manage, Unhold, DoAbort,
                UpdateMaintenance, Briefly, Acquire, counters
  <2>2. CASE Worker
    <3>1. UNCHANGED <<recover, crashes>>
      BY <2>2 DEF Worker, StartCleaning, ContinueCleaning, NextCleanStep, ExecuteSync,
          ExecuteFails, ExecuteInAgent, ExecutePolled, ExecuteReserved, Park, WakeUp,
          FinishCleaning, AbortCleaning, CleanUpFailed, counters
    <3>2. lock' = lock \/ lock' = "free"
      BY <2>2 DEF Worker, StartCleaning, ContinueCleaning, NextCleanStep, ExecuteSync,
          ExecuteFails, ExecuteInAgent, ExecutePolled, ExecuteReserved, Park, WakeUp,
          FinishCleaning, AbortCleaning, CleanUpFailed, Stay, Release, Advance
    <3> QED
      BY <3>1, <3>2
  <2>3. CASE Heartbeats \/ HeartbeatBreaks
    BY <2>3 DEF Heartbeats, HeartbeatInMaintenance, HeartbeatStepFailed, HeartbeatBreaks,
        HeartbeatFails, HeartbeatFirst, HeartbeatFresh, HeartbeatDone, HeartbeatReboots,
        HeartbeatMismatch, HeartbeatContinues, Acquire, counters
  <2>4. CASE Conductor \/ CheckCleanwaitTimeouts
    BY <2>4 DEF Conductor, ContinueNodeClean, QueryJobStatus, DiscardFailedJob,
        CheckCleanwaitTimeouts, Acquire, Briefly, counters
  <2>5. CASE CorrectStuckStates \/ CleanUpOrphan
    BY <2>5 DEF CorrectStuckStates, CleanUpOrphan, Acquire, counters
  <2>6. CASE Hardware \/ AgentLost \/ UNCHANGED vars
    BY <2>6 DEF Hardware, AgentBoots, AgentFinishes, JobFinishes, AgentLost, vars, counters
  <2> QED
    BY <1>4, <2>1, <2>2, <2>3, <2>4, <2>5, <2>6 DEF Next, Recover
<1> QED
  BY <1>2, <1>3, <1>4 DEF OneCrash

LEMMA NeverAsleepStep ==
    ASSUME Inv, NeverAsleep, Recoverable, [Next]_vars
    PROVE  NeverAsleep'
<1> USE DEF NeverAsleep
<1>1. CASE Operator
  BY <1>1 DEF Operator, DoNodeClean, Provide, Begin, Manage, Unhold, DoAbort,
              UpdateMaintenance, Briefly, Acquire
<1>2. CASE Worker
  <2>1. CASE ExecuteReserved
    <3>1. at \in Steps
      BY <2>1 DEF ExecuteReserved, Working, Inv, Discipline
    <3> QED
      BY <2>1, <3>1 DEF ExecuteReserved, Recoverable, Release
  <2> QED
    BY <1>2, <2>1 DEF Worker, StartCleaning, ContinueCleaning, NextCleanStep, ExecuteSync,
        ExecuteFails, ExecuteInAgent, ExecutePolled, Park, WakeUp, FinishCleaning,
        AbortCleaning, CleanUpFailed, Stay, Release, Advance
<1>3. CASE Heartbeats \/ HeartbeatBreaks
  BY <1>3 DEF Heartbeats, HeartbeatInMaintenance, HeartbeatStepFailed, HeartbeatBreaks,
      HeartbeatFails, HeartbeatFirst, HeartbeatFresh, HeartbeatDone, HeartbeatReboots,
      HeartbeatMismatch, HeartbeatContinues, Acquire
<1>4. CASE Conductor \/ CheckCleanwaitTimeouts
  BY <1>4 DEF Conductor, ContinueNodeClean, QueryJobStatus, DiscardFailedJob,
      CheckCleanwaitTimeouts, Acquire, Briefly
<1>5. CASE Recover \/ Crash
  BY <1>5 DEF Recover, Restart, CorrectStuckStates, CheckOrphanNodes, CleanUpOrphan, Crash, Acquire
<1>6. CASE Hardware \/ AgentLost \/ UNCHANGED vars
  BY <1>6 DEF Hardware, AgentBoots, AgentFinishes, JobFinishes, AgentLost, vars
<1> QED
  BY <1>1, <1>2, <1>3, <1>4, <1>5, <1>6 DEF Next

LEMMA WorkedOnStep ==
    ASSUME Inv, CleaningIsWorkedOn, InService, OneCrash, NeverAsleep, Recoverable, [Next]_vars
    PROVE  CleaningIsWorkedOn'
<1>1. node'.state # "cleaning" => CleaningIsWorkedOn'
  BY DEF CleaningIsWorkedOn
<1>2. lock' # "free" => CleaningIsWorkedOn'
  BY DEF CleaningIsWorkedOn
<1>3. node'.state = node.state /\ UNCHANGED <<lock, recover>> => CleaningIsWorkedOn'
  BY DEF CleaningIsWorkedOn
<1>4. CASE Operator
  <2>1. CASE DoNodeClean \/ Provide
    BY <1>2, <2>1 DEF DoNodeClean, Provide, Begin, Acquire
  <2>2. CASE Manage \/ Unhold \/ DoAbort
    <3>1. \/ node'.state \in {"manageable", "clean wait", "clean failed"}
          \/ node'.state = node.state /\ node.state # "cleaning"
      BY <2>2, Current, OperatorRows DEF Moved, DoAbort, NodeRows
    <3> QED
      BY <1>1, <3>1
  <2>3. CASE UpdateMaintenance
    <3>1. node'.state = node.state
      BY <2>3, Current DEF UpdateMaintenance, NodeRows
    <3> QED
      BY <1>3, <2>3, <3>1 DEF UpdateMaintenance, Briefly
  <2> QED
    BY <1>4, <2>1, <2>2, <2>3 DEF Operator
<1>5. CASE Worker
  \* the lock is kept, or the node leaves CLEANING
  <2>1. CASE StartCleaning \/ ContinueCleaning
    BY <1>1, <1>2, <2>1, StartRows, ContinueRows DEF Stay
  <2>2. CASE NextCleanStep \/ ExecuteSync \/ ExecuteInAgent \/ ExecutePolled
    BY <1>2, <2>2 DEF NextCleanStep, ExecuteSync, ExecuteInAgent, ExecutePolled, Working, Stay,
                      Advance
  <2>3. CASE ExecuteFails \/ ExecuteReserved \/ Park
    BY <1>1, <2>3, ExecuteRows, EndRows DEF Moved
  <2>4. CASE WakeUp
    BY <2>4 DEF WakeUp, Working, NeverAsleep
  <2>5. CASE FinishCleaning \/ AbortCleaning \/ CleanUpFailed
    BY <1>1, <2>5, EndRows
  <2> QED
    BY <1>5, <2>1, <2>2, <2>3, <2>4, <2>5 DEF Worker
<1>6. CASE Heartbeats \/ HeartbeatBreaks
  <2>1. CASE HeartbeatReboots
    <3>1. node'.state = node.state /\ node.state = "clean wait"
      BY <2>1, HeartbeatRows DEF HeartbeatReboots
    <3> QED
      BY <1>1, <3>1
  <2> QED
    BY <1>1, <1>2, <1>6, <2>1, HeartbeatRows DEF Heartbeats, Acquire
<1>7. CASE Conductor
  <2>1. CASE ContinueNodeClean
    <3>1. UNCHANGED recover
      BY <2>1 DEF ContinueNodeClean
    <3>2. lock' # "free" \/ (node' = node /\ UNCHANGED lock)
      BY <2>1, ConductorRows DEF Recoverable, May, Acquire, Briefly
    <3> QED
      BY <1>2, <1>3, <3>1, <3>2
  <2>2. CASE QueryJobStatus \/ DiscardFailedJob
    BY <1>3, <2>2 DEF QueryJobStatus, DiscardFailedJob, Briefly
  <2> QED
    BY <1>7, <2>1, <2>2 DEF Conductor
<1>8. CASE CheckCleanwaitTimeouts
  BY <1>1, <1>8, ConductorRows
<1>9. CASE Recover
  <2>1. CASE Restart
    BY <2>1 DEF Restart, CleaningIsWorkedOn
  \* the node is not in maintenance: it is failed later
  <2>2. CASE CheckOrphanNodes
    <3>1. node' = node
      BY <2>2 DEF CheckOrphanNodes
    <3>2. node.state = "cleaning" => recover' = "orphan"
      BY <2>2 DEF CheckOrphanNodes, May, InService
    <3> QED
      BY <3>1, <3>2 DEF CleaningIsWorkedOn
  \* nobody else takes the lock while it is free
  <2>3. CASE CorrectStuckStates
    <3>1. \/ node.state = "cleaning" /\ node' = Fired(node, "fail", NoState)
          \/ node' = node /\ (node.state # "cleaning" \/ lock # "free") /\ lock' = lock
      BY <2>3 DEF CorrectStuckStates, PassedOver, Recoverable, May
    <3> QED
      BY <1>1, <1>2, <3>1, ConductorRows
  <2>4. CASE CleanUpOrphan
    <3>1. \/ node.state = "cleaning" /\ node' = Fired(node, "fail", NoState)
          \/ node' = node /\ (node.state # "cleaning" \/ lock # "free") /\ lock' = lock
      BY <2>4 DEF CleanUpOrphan, PassedOver, Recoverable, May
    <3> QED
      BY <1>1, <1>2, <3>1, ConductorRows
  <2> QED
    BY <1>9, <2>1, <2>2, <2>3, <2>4 DEF Recover
\* a recovery cannot be interrupted: that would be the second crash
<1>10. CASE Crash
  <2>1. recover = "no" /\ lock # "dead"
    <3>1. crashes \in Nat /\ MaxCrashes \in Nat
      BY Bounds DEF Inv, OthersTyped
    <3>2. crashes < MaxCrashes /\ MaxCrashes <= 1
      BY <1>10 DEF Crash, Recoverable
    <3>3. ~(crashes >= 1)
      BY <3>1, <3>2
    <3> QED
      BY <3>3 DEF OneCrash
  <2> QED
    BY <1>2, <1>10, <2>1 DEF Crash
<1>11. CASE Hardware \/ AgentLost \/ UNCHANGED vars
  BY <1>3, <1>11 DEF Hardware, AgentBoots, AgentFinishes, JobFinishes, AgentLost, vars
<1> QED
  BY <1>4, <1>5, <1>6, <1>7, <1>8, <1>9, <1>10, <1>11 DEF Next

\* A node in CLEANING has a worker or a recovery that has begun, under the
\* conditions of Recoverable: continue_node_clean, _correct_stuck_states and
\* _check_orphan_nodes leave it alone only where these do not hold: among them
\* is that a recovery comes to the node, which the code does not promise.
THEOREM CleaningIsNeverLeft == Recoverable /\ Spec => []CleaningIsWorkedOn
<1> SUFFICES ASSUME Recoverable PROVE Spec => []CleaningIsWorkedOn
  OBVIOUS
<1>1. Init => CleaningIsWorkedOn /\ InService /\ OneCrash /\ NeverAsleep
  BY DEF Init, CleaningIsWorkedOn, InService, OneCrash, NeverAsleep
<1>2. Inv /\ CleaningIsWorkedOn /\ InService /\ OneCrash /\ NeverAsleep /\ [Next]_vars
        => (CleaningIsWorkedOn /\ InService /\ OneCrash /\ NeverAsleep)'
  BY WorkedOnStep, InServiceStep, OneCrashStep, NeverAsleepStep
<1> QED
  BY <1>1, <1>2, Invariance, PTL DEF Spec

----------------------------------------------------------------------------
(* The progress of the steps *)

\* What disturbs it, and is excluded here: an agent that comes back without its
\* commands, a job that fails unnoticed, and, for a further cleaning, what a
\* polled step, a worker that was missing or a recovery has left behind.
Undisturbed ==
    /\ ~May("agent restarts") /\ ~May("job fails")
    /\ MaxCleans > 1 =>
          /\ \A k \in Steps : Plan[k] # "poll"
          /\ ~May("no worker") /\ ~May("restart") /\ ~May("takeover")

\* A row "m" that is at the same step as the row "n", and one that is at none,
\* quarantined if there was one.
Steady(n, m) ==
    /\ m.step = n.step /\ m.index = n.index /\ m.skip = n.skip /\ m.polling = n.polling
    /\ m.fault = n.fault /\ m.maintenance = n.maintenance
SteadyTo(n, m, state) == m \in NodeRows /\ m.state = state /\ Steady(n, m)
Cleared(n, m) ==
    /\ m.step = 0
    /\ (n.fault => n.maintenance) => (m.fault => m.maintenance)
    /\ n.step # 0 => m.maintenance
Emptied(n, m) == m.step = 0 /\ m.index = 0 /\ m.skip = n.skip /\ m.polling = n.polling
                 /\ m.fault = n.fault /\ m.maintenance = n.maintenance

LEMMA FiredSteady ==
    ASSUME NEW n, NEW e, NEW o, NEW t,
           n \in NodeRows, o \in {NoState, "manageable", "available"}, CanMove(n, e, t)
    PROVE  SteadyTo(n, Fired(n, e, o), t)
<1> DEFINE m == Fired(n, e, o)
           row == AfterEvent(n.state, n.target, e, o, FALSE)
<1>1. m \in NodeRows /\ m.state = t
  BY FiredRow DEF Moved
<1>2. m = [n EXCEPT !.state = row.state, !.target = row.target]
  BY DEF Fired
<1> HIDE DEF row
<1>3. Steady(n, m)
  BY <1>2 DEF Steady, NodeRows
<1> QED
  BY <1>1, <1>3 DEF SteadyTo

LEMMA KeptSteady ==
    ASSUME NEW n, NEW e, NEW t, n \in NodeRows, t \in CleanStates, CanMove(n, e, t)
    PROVE  SteadyTo(n, Fired(n, e, OwnTarget(n)), t)
<1>1. OwnTarget(n) \in {NoState, "manageable", "available"}
  BY Targets
<1> QED
  BY <1>1, FiredSteady

LEMMA ClearedRow ==
    ASSUME NEW n \in NodeRows
    PROVE  /\ Cleared(n, Quarantined(n)) /\ Quarantined(n) \in NodeRows
           /\ Quarantined(n).state = n.state
           /\ Quarantined(n).fault = (n.fault \/ n.step # 0)
           /\ Quarantined(n).maintenance = (n.maintenance \/ n.step # 0)
<1> DEFINE f == NoFlags(n)
           m == n.maintenance \/ n.step # 0
           t == n.fault \/ n.step # 0
           q == [f EXCEPT !.index = 0, !.maintenance = m, !.fault = t]
<1>1. f \in NodeRows /\ f.state = n.state
  BY DEF NoFlags, NodeRows
<1>2. m \in BOOLEAN /\ t \in BOOLEAN
  OBVIOUS
<1>3. Quarantined(n) = WithoutStep(q)
  BY DEF Quarantined
<1> HIDE DEF f, m, t
<1>4. q \in NodeRows /\ q.maintenance = m /\ q.fault = t /\ q.state = f.state
  BY <1>1, <1>2 DEF NodeRows
<1> HIDE DEF q
<1>5. /\ WithoutStep(q) \in NodeRows /\ WithoutStep(q).step = 0
      /\ WithoutStep(q).maintenance = m /\ WithoutStep(q).fault = t
      /\ WithoutStep(q).state = q.state
  BY <1>4 DEF WithoutStep, NodeRows
<1>6. (n.fault => n.maintenance) => (t => m)
  BY DEF t, m
<1>7. n.step # 0 => m
  BY DEF m
<1> QED
  BY <1>1, <1>3, <1>4, <1>5, <1>6, <1>7 DEF Cleared, m, t

LEMMA FailedClears ==
    ASSUME NEW n \in NodeRows, n.state \in {"cleaning", "clean wait"}
    PROVE  Cleared(n, Failed(n)) /\ Failed(n).state = "clean failed"
<1> DEFINE q == Quarantined(n)
<1>1. Failed(n) = Fired(q, "fail", OwnTarget(n))
  BY DEF Failed
<1>2. q \in NodeRows /\ q.state = n.state /\ Cleared(n, q)
  BY ClearedRow
<1> HIDE DEF q
<1>3. CanMove(q, "fail", "clean failed")
  BY <1>2 DEF CanMove, CleaningMoves
<1>4. OwnTarget(n) \in {NoState, "manageable", "available"}
  BY Targets
<1>5. SteadyTo(q, Failed(n), "clean failed")
  BY <1>1, <1>2, <1>3, <1>4, FiredSteady
<1> QED
  BY <1>2, <1>5 DEF SteadyTo, Steady, Cleared

LEMMA EmptiedRow ==
    ASSUME NEW n \in NodeRows
    PROVE  /\ StepsSet(n) \in NodeRows /\ StepsSet(n).state = n.state
           /\ StepsSet(n).target = n.target
           /\ Emptied(n, StepsSet(n))
           /\ \A w \in {WithoutStep(Wiped(n))} :
                /\ w \in NodeRows /\ w.state = n.state /\ w.step = 0
                /\ w.fault = n.fault /\ w.maintenance = n.maintenance
           /\ WithoutStep(n).step = 0
           /\ WithoutStep(n).fault = n.fault /\ WithoutStep(n).maintenance = n.maintenance
<1>1. \A m \in NodeRows : /\ WithoutStep(m) \in NodeRows /\ WithoutStep(m).step = 0
                          /\ WithoutStep(m).index = m.index /\ WithoutStep(m).state = m.state
                          /\ WithoutStep(m).target = m.target
                          /\ WithoutStep(m).skip = m.skip /\ WithoutStep(m).polling = m.polling
                          /\ WithoutStep(m).fault = m.fault
                          /\ WithoutStep(m).maintenance = m.maintenance
  BY DEF WithoutStep, NodeRows
<1>2. /\ StepsSet(n) \in NodeRows /\ StepsSet(n).state = n.state /\ StepsSet(n).target = n.target
      /\ Emptied(n, StepsSet(n))
  <2> DEFINE w == WithoutStep(n)
  <2>1. /\ w \in NodeRows /\ w.step = 0 /\ w.state = n.state /\ w.target = n.target
        /\ w.skip = n.skip /\ w.polling = n.polling
        /\ w.fault = n.fault /\ w.maintenance = n.maintenance
    BY <1>1
  <2>2. StepsSet(n) = [w EXCEPT !.index = 0, !.loaded = TRUE]
    BY DEF StepsSet
  <2> HIDE DEF w
  <2> QED
    BY <2>1, <2>2 DEF NodeRows, Emptied
<1>3. /\ Wiped(n) \in NodeRows /\ Wiped(n).state = n.state
      /\ Wiped(n).fault = n.fault /\ Wiped(n).maintenance = n.maintenance
  BY DEF Wiped, NoFlags, NodeRows
<1>4. /\ WithoutStep(n).step = 0 /\ WithoutStep(n).fault = n.fault
      /\ WithoutStep(n).maintenance = n.maintenance
  BY <1>1
<1>5. \A w \in {WithoutStep(Wiped(n))} :
        /\ w \in NodeRows /\ w.state = n.state /\ w.step = 0
        /\ w.fault = n.fault /\ w.maintenance = n.maintenance
  BY <1>1, <1>3
<1> QED
  BY <1>2, <1>4, <1>5

\* Its fields but the step, and its maintenance with the fault.
SameFlags(n, m) == m.index = n.index /\ m.skip = n.skip /\ m.polling = n.polling
SameFault(n, m) == m.fault = n.fault /\ m.maintenance = n.maintenance
FaultKept(n, m) == (n.fault => n.maintenance) => (m.fault => m.maintenance)

LEMMA NoTargetSteady ==
    ASSUME NEW n, NEW e, NEW t, n \in NodeRows, CanMove(n, e, t)
    PROVE  SteadyTo(n, Fired(n, e, NoState), t)
<1>1. NoState \in {NoState, "manageable", "available"}
  OBVIOUS
<1> QED
  BY <1>1, FiredSteady

LEMMA OperatorSteps ==
    ASSUME Inv
    PROVE  /\ DoNodeClean \/ Provide => SteadyTo(node, node', "cleaning")
           /\ Manage => SteadyTo(node, node', "manageable")
           /\ Unhold => SteadyTo(node, node', "clean wait")
           /\ DoAbort => \/ Briefly /\ SteadyTo(node, node', node.state)
                         \/ Acquire("abort") /\ SteadyTo(node, node', "clean failed")
           /\ UpdateMaintenance =>
                /\ node'.state = node.state /\ node'.step = node.step
                /\ SameFlags(node, node') /\ FaultKept(node, node')
<1>1. node \in NodeRows
  BY Current
<1>2. ASSUME DoNodeClean PROVE SteadyTo(node, node', "cleaning")
  <2>1. CanMove(node, "clean", "cleaning") /\ node' = Fired(node, "clean", "manageable")
    BY <1>2 DEF DoNodeClean, Begin, CanMove, CleaningMoves
  <2>2. "manageable" \in {NoState, "manageable", "available"}
    OBVIOUS
  <2> QED
    BY <1>1, <2>1, <2>2, FiredSteady
<1>3. ASSUME Provide PROVE SteadyTo(node, node', "cleaning")
  <2>1. CanMove(node, "provide", "cleaning") /\ node' = Fired(node, "provide", NoState)
    BY <1>3 DEF Provide, Begin, CanMove, CleaningMoves
  <2> QED
    BY <1>1, <2>1, NoTargetSteady
<1>4. ASSUME Manage PROVE SteadyTo(node, node', "manageable")
  <2>1. CanMove(node, "manage", "manageable") /\ node' = Fired(node, "manage", NoState)
    BY <1>4 DEF Manage, CanMove, CleaningMoves
  <2> QED
    BY <1>1, <2>1, NoTargetSteady
<1>5. ASSUME Unhold PROVE SteadyTo(node, node', "clean wait")
  <2>1. CanMove(node, "unhold", "clean wait") /\ node' = Fired(node, "unhold", NoState)
    BY <1>5 DEF Unhold, CanMove, CleaningMoves
  <2> QED
    BY <1>1, <2>1, NoTargetSteady
<1>6. ASSUME DoAbort
      PROVE  \/ Briefly /\ SteadyTo(node, node', node.state)
             \/ Acquire("abort") /\ SteadyTo(node, node', "clean failed")
  <2>1. CanMove(node, "abort", "clean failed") /\ "clean failed" \in CleanStates
    BY <1>6 DEF DoAbort, CanMove, CleaningMoves, CleanStates
  <2>2. SteadyTo(node, Fired(node, "abort", OwnTarget(node)), "clean failed")
    BY <1>1, <2>1, KeptSteady
  <2>3. SteadyTo(node, [node EXCEPT !.abortAfter = TRUE], node.state)
    BY <1>1 DEF SteadyTo, Steady, NodeRows
  <2> QED
    BY <1>6, <2>2, <2>3 DEF DoAbort
<1>7. ASSUME UpdateMaintenance
      PROVE  /\ node'.state = node.state /\ node'.step = node.step
             /\ SameFlags(node, node') /\ FaultKept(node, node')
  <2> DEFINE m == ~node.maintenance
             f == node.fault /\ ~node.maintenance
  <2>1. node' = [node EXCEPT !.maintenance = m, !.fault = f]
    BY <1>7 DEF UpdateMaintenance
  <2>2. (node.fault => node.maintenance) => (f => m)
    OBVIOUS
  <2> HIDE DEF m, f
  <2>3. node'.maintenance = m /\ node'.fault = f
    BY <1>1, <2>1 DEF NodeRows
  <2>4. node'.state = node.state /\ node'.step = node.step /\ SameFlags(node, node')
    BY <1>1, <2>1 DEF NodeRows, SameFlags
  <2> QED
    BY <2>2, <2>3, <2>4 DEF FaultKept
<1> QED
  BY <1>2, <1>3, <1>4, <1>5, <1>6, <1>7

LEMMA StartSteps ==
    ASSUME Inv, StartCleaning
    PROVE  /\ Release /\ UNCHANGED <<job, casts, recover, executed, aborted, counters>>
           /\ FaultKept(node, node')
           /\ \/ /\ node'.state = "available" /\ flow' = "skipped" /\ agent' = agent
                 /\ node'.step = 0
              \/ /\ node'.state = "clean wait" /\ flow' = flow /\ agent' = Booting
                 /\ node'.step = node.step /\ node'.index = 0
                 /\ node'.skip = TRUE /\ node'.polling = FALSE
              \/ /\ node'.state = "clean failed" /\ flow' = flow
                 /\ agent' \in {agent, TornDown(node')} /\ Cleared(node, node')
<1>1. node \in NodeRows /\ node.state = "cleaning"
  BY DEF Inv, StartCleaning, Working, Discipline
<1>2. Release /\ UNCHANGED <<job, casts, recover, executed, aborted, counters>>
  BY DEF StartCleaning
<1>3. CASE node' = Fired(WithoutStep(node), "done", NoState) /\ flow' = "skipped"
           /\ UNCHANGED agent
  <2> DEFINE n == WithoutStep(node)
  <2>1. n \in NodeRows /\ n.state = "cleaning" /\ n.step = 0 /\ SameFault(node, n)
    BY <1>1, EditedRow, EmptiedRow DEF SameFault
  <2> HIDE DEF n
  <2>2. CanMove(n, "done", "available")
    BY <2>1 DEF CanMove, CleaningMoves
  <2>3. SteadyTo(n, node', "available")
    BY <1>3, <2>1, <2>2, NoTargetSteady DEF n
  <2> QED
    BY <1>2, <1>3, <2>1, <2>3 DEF SteadyTo, Steady, SameFault, FaultKept
<1>4. CASE node' = Fired([Wiped(node) EXCEPT !.loaded = node.target = "manageable"],
                         "wait", OwnTarget(node))
           /\ agent' = Booting /\ UNCHANGED flow
  <2> DEFINE n == [Wiped(node) EXCEPT !.loaded = node.target = "manageable"]
             o == OwnTarget(node)
  <2>1. /\ n \in NodeRows /\ n.state = "cleaning" /\ n.step = node.step /\ n.index = 0
        /\ n.skip = TRUE /\ n.polling = FALSE /\ SameFault(node, n)
    BY <1>1 DEF Wiped, NoFlags, NodeRows, SameFault
  <2>2. o \in {NoState, "manageable", "available"}
    BY Targets
  <2> HIDE DEF n, o
  <2>3. CanMove(n, "wait", "clean wait")
    BY <2>1 DEF CanMove, CleaningMoves
  <2>4. node' = Fired(n, "wait", o)
    BY <1>4 DEF n, o
  <2>5. SteadyTo(n, node', "clean wait")
    BY <2>1, <2>2, <2>3, <2>4, FiredSteady
  <2> QED
    BY <1>2, <1>4, <2>1, <2>5 DEF SteadyTo, Steady, SameFault, FaultKept
<1>5. CASE node' = Failed(node) /\ agent' \in {agent, TornDown(node')} /\ UNCHANGED flow
  <2>1. Cleared(node, node') /\ node'.state = "clean failed"
    BY <1>1, <1>5, FailedClears
  <2> QED
    BY <1>2, <1>5, <2>1 DEF Cleared, FaultKept
<1> QED
  BY <1>3, <1>4, <1>5 DEF StartCleaning

LEMMA ContinueSteps ==
    ASSUME Inv, ContinueCleaning
    PROVE  /\ UNCHANGED <<job, casts, recover, history, counters>>
           /\ FaultKept(node, node')
           /\ \/ /\ node'.state = "clean failed" /\ node'.step # 0
                 /\ Stay("abort", 0) /\ agent' = agent
              \/ /\ node'.state = "cleaning" /\ node'.step = node.step
                 /\ node'.index = node.index
                 /\ node'.skip = TRUE /\ node'.polling = FALSE
                 /\ agent' = agent
                 /\ \/ NextIndex(node) # 0 /\ Stay("next", NextIndex(node))
                    \/ NextIndex(node) = 0 /\ Stay("finish", 0)
              \/ /\ node'.state = "clean failed" /\ Cleared(node, node')
                 /\ Release /\ agent' = TornDown(node')
<1> DEFINE n == [node EXCEPT !.skip = TRUE, !.polling = FALSE]
           i == NextIndex(node)
<1>1. node \in NodeRows /\ node.state = "cleaning"
  BY DEF Inv, ContinueCleaning, Working, Discipline
<1>2. /\ n \in NodeRows /\ n.state = "cleaning" /\ n.step = node.step /\ n.index = node.index
      /\ n.skip = TRUE /\ n.polling = FALSE /\ SameFault(node, n)
  BY <1>1 DEF NodeRows, SameFault
<1>3. /\ UNCHANGED <<job, casts, recover, history, counters>>
      /\ \/ n.step # 0 /\ node' = Fired(n, "fail", OwnTarget(n)) /\ agent' = agent /\ Stay("abort", 0)
         \/ i # 0 /\ node' = n /\ agent' = agent /\ Stay("next", i)
         \/ node' = Failed(n) /\ agent' = TornDown(node') /\ Release
         \/ i = 0 /\ node' = n /\ agent' = agent /\ Stay("finish", 0)
  BY DEF ContinueCleaning
<1> HIDE DEF n, i
<1>4. FaultKept(node, n)
  BY <1>2 DEF SameFault, FaultKept
<1>5. CASE n.step # 0 /\ node' = Fired(n, "fail", OwnTarget(n)) /\ agent' = agent /\ Stay("abort", 0)
  <2>1. CanMove(n, "fail", "clean failed") /\ "clean failed" \in CleanStates
    BY <1>2 DEF CanMove, CleaningMoves, CleanStates
  <2>2. SteadyTo(n, node', "clean failed")
    BY <1>2, <1>5, <2>1, KeptSteady
  <2> QED
    BY <1>2, <1>3, <1>4, <1>5, <2>2 DEF SteadyTo, Steady, FaultKept
<1>6. CASE i # 0 /\ node' = n /\ agent' = agent /\ Stay("next", i)
  BY <1>2, <1>3, <1>4, <1>6 DEF i
<1>7. CASE node' = Failed(n) /\ agent' = TornDown(node') /\ Release
  <2>1. Cleared(n, node') /\ node'.state = "clean failed"
    BY <1>2, <1>7, FailedClears
  <2>2. Cleared(node, node')
    BY <1>2, <2>1 DEF Cleared, SameFault
  <2> QED
    BY <1>3, <1>7, <2>1, <2>2 DEF Cleared, FaultKept
<1>8. CASE i = 0 /\ node' = n /\ agent' = agent /\ Stay("finish", 0)
  BY <1>2, <1>3, <1>4, <1>8 DEF i
<1> QED
  BY <1>3, <1>5, <1>6, <1>7, <1>8

LEMMA ExecuteSteps ==
    ASSUME Inv
    PROVE  /\ NextCleanStep =>
                /\ node'.state = node.state /\ node'.step = at /\ node'.index = at
                /\ node'.skip = node.skip /\ node'.polling = FALSE /\ FaultKept(node, node')
           /\ ExecuteFails => node'.state = "clean failed" /\ Cleared(node, node')
           /\ ExecuteInAgent =>
                \/ node' = node /\ agent.is \in Up \ {"busy"} /\ agent' = [is |-> "busy", cmd |-> at]
                \/ /\ node'.state = node.state /\ node'.step = node.step
                   /\ node'.index = node.index /\ node'.skip = FALSE
                   /\ node'.polling = node.polling /\ FaultKept(node, node')
                   /\ agent' = agent
           /\ ExecutePolled =>
                /\ node'.state = node.state /\ node'.step = node.step
                /\ node'.index = node.index /\ node'.skip = TRUE
                /\ node'.polling = TRUE /\ FaultKept(node, node')
           /\ ExecuteReserved =>
                SteadyTo(node, node', "clean hold") \/ SteadyTo(node, node', "clean wait")
<1>1. node \in NodeRows
  BY DEF Inv
<1>2. ASSUME NextCleanStep
      PROVE  /\ node'.state = node.state /\ node'.step = at /\ node'.index = at
             /\ node'.skip = node.skip /\ node'.polling = FALSE /\ FaultKept(node, node')
  BY <1>1, <1>2 DEF NextCleanStep, NodeRows, FaultKept
<1>3. ASSUME ExecuteFails PROVE node'.state = "clean failed" /\ Cleared(node, node')
  <2>1. node.state = "cleaning"
    BY <1>3 DEF ExecuteFails, Working, Inv, Discipline
  <2> QED
    BY <1>1, <1>3, <2>1, FailedClears DEF ExecuteFails
<1>4. ASSUME ExecuteInAgent
      PROVE  \/ node' = node /\ agent.is \in Up \ {"busy"} /\ agent' = [is |-> "busy", cmd |-> at]
             \/ /\ node'.state = node.state /\ node'.step = node.step
                /\ node'.index = node.index /\ node'.skip = FALSE
                /\ node'.polling = node.polling /\ FaultKept(node, node')
                /\ agent' = agent
  BY <1>1, <1>4 DEF ExecuteInAgent, NodeRows, FaultKept
<1>5. ASSUME ExecutePolled
      PROVE  /\ node'.state = node.state /\ node'.step = node.step
             /\ node'.index = node.index /\ node'.skip = TRUE
             /\ node'.polling = TRUE /\ FaultKept(node, node')
  BY <1>1, <1>5 DEF ExecutePolled, NodeRows, FaultKept
<1>6. ASSUME ExecuteReserved
      PROVE  SteadyTo(node, node', "clean hold") \/ SteadyTo(node, node', "clean wait")
  <2>1. CanMove(node, "hold", "clean hold") /\ CanMove(node, "wait", "clean wait")
    BY <1>6 DEF ExecuteReserved, Working, Inv, Discipline, CanMove, CleaningMoves
  <2>2. /\ SteadyTo(node, Fired(node, "hold", NoState), "clean hold")
        /\ SteadyTo(node, Fired(node, "wait", NoState), "clean wait")
    BY <1>1, <2>1, NoTargetSteady
  <2> QED
    BY <1>6, <2>2 DEF ExecuteReserved
<1> QED
  BY <1>2, <1>3, <1>4, <1>5, <1>6

LEMMA EndSteps ==
    ASSUME Inv
    PROVE  /\ Park => SteadyTo(node, node', "clean wait")
           /\ WakeUp => SteadyTo(node, node', "cleaning")
           /\ FinishCleaning =>
                /\ node'.step = 0 /\ FaultKept(node, node')
                /\ node'.state \in {"manageable", "available", "clean failed"}
           /\ AbortCleaning =>
                /\ node'.state = "clean failed" /\ node'.step = 0 /\ FaultKept(node, node')
                /\ \/ Cleared(node, node')
                   \/ SameFault(node, node') /\ agent' = TornDown(node)
           /\ CleanUpFailed => node'.state = "clean failed" /\ Cleared(node, node')
<1>1. node \in NodeRows
  BY DEF Inv
<1>2. ASSUME Park PROVE SteadyTo(node, node', "clean wait")
  <2>1. CanMove(node, "wait", "clean wait") /\ "clean wait" \in CleanStates
    BY <1>2 DEF Park, Working, Inv, Discipline, CanMove, CleaningMoves, CleanStates
  <2> QED
    BY <1>1, <1>2, <2>1, KeptSteady DEF Park
<1>3. ASSUME WakeUp PROVE SteadyTo(node, node', "cleaning")
  <2>1. CanMove(node, "resume", "cleaning")
    BY <1>3 DEF WakeUp, Working, Inv, Discipline, CanMove, CleaningMoves
  <2> QED
    BY <1>1, <1>3, <2>1, NoTargetSteady DEF WakeUp
<1>4. ASSUME FinishCleaning
      PROVE  /\ node'.step = 0 /\ FaultKept(node, node')
             /\ node'.state \in {"manageable", "available", "clean failed"}
  <2> DEFINE n == WithoutStep(Wiped(node))
  <2>0. node.state = "cleaning"
    BY <1>4 DEF FinishCleaning, Working, Inv, Discipline
  <2>1. n \in NodeRows /\ n.state = "cleaning" /\ n.step = 0 /\ SameFault(node, n)
    BY <1>1, <2>0, EmptiedRow DEF SameFault
  <2>2. \/ node' = Failed(n)
        \/ node' = Fired(n, "manage", NoState)
        \/ node' = Fired(n, "done", NoState)
    BY <1>4 DEF FinishCleaning
  <2> HIDE DEF n
  <2>3. CanMove(n, "manage", "manageable") /\ CanMove(n, "done", "available")
    BY <2>1 DEF CanMove, CleaningMoves
  <2>4. /\ SteadyTo(n, Fired(n, "manage", NoState), "manageable")
        /\ SteadyTo(n, Fired(n, "done", NoState), "available")
    BY <2>1, <2>3, NoTargetSteady
  <2>5. CASE node' = Failed(n)
    <3>1. Cleared(n, node') /\ node'.state = "clean failed"
      BY <2>1, <2>5, FailedClears
    <3> QED
      BY <2>1, <3>1 DEF Cleared, SameFault, FaultKept
  <2>6. CASE SteadyTo(n, node', "manageable") \/ SteadyTo(n, node', "available")
    BY <2>1, <2>6 DEF SteadyTo, Steady, SameFault, FaultKept
  <2> QED
    BY <2>2, <2>4, <2>5, <2>6
<1>5. ASSUME AbortCleaning
      PROVE  /\ node'.state = "clean failed" /\ node'.step = 0 /\ FaultKept(node, node')
             /\ \/ Cleared(node, node')
                \/ SameFault(node, node') /\ agent' = TornDown(node)
  <2>1. node.state = "clean failed"
    BY <1>5 DEF AbortCleaning, Working, Inv, Discipline
  <2>2. CASE node' = Quarantined(node)
    <3>1. Cleared(node, node') /\ node'.state = node.state
      BY <1>1, <2>2, ClearedRow
    <3> QED
      BY <2>1, <3>1 DEF Cleared, FaultKept
  <2>3. CASE node' = WithoutStep(Wiped(node)) /\ agent' = TornDown(node)
    <3>1. node'.state = node.state /\ node'.step = 0 /\ SameFault(node, node')
      BY <1>1, <2>3, EmptiedRow DEF SameFault
    <3> QED
      BY <2>1, <2>3, <3>1 DEF SameFault, FaultKept
  <2> QED
    BY <1>5, <2>2, <2>3 DEF AbortCleaning
<1>6. ASSUME CleanUpFailed PROVE node'.state = "clean failed" /\ Cleared(node, node')
  <2>1. node.state = "clean failed" /\ node' = Quarantined(node)
    BY <1>6 DEF CleanUpFailed, Working, Inv, Discipline
  <2> QED
    BY <1>1, <2>1, ClearedRow
<1> QED
  BY <1>2, <1>3, <1>4, <1>5, <1>6

LEMMA HeartbeatSteps ==
    ASSUME Inv
    PROVE  /\ HeartbeatInMaintenance \/ HeartbeatStepFailed \/ HeartbeatBreaks
                => /\ node'.state = "clean failed" /\ Cleared(node, node')
                   /\ agent' = TornDown(node') /\ HeartbeatFails
           /\ HeartbeatFirst \/ HeartbeatFresh \/ HeartbeatDone \/ HeartbeatMismatch
                => /\ node.state = "clean wait" /\ node'.state = "cleaning"
                   /\ FaultKept(node, node') /\ Acquire("continue")
                   /\ UNCHANGED <<agent, job, casts, recover, history, counters>>
           /\ HeartbeatFirst => node.step = 0 /\ node'.step = 0 /\ node'.index = 0
           /\ HeartbeatFresh \/ HeartbeatDone
                => node'.step = node.step /\ SameFlags(node, node')
           /\ HeartbeatMismatch
                => \/ node'.step = 0 /\ node'.index = 0
                   \/ node'.step = node.step /\ node'.index = node.index /\ node'.skip = FALSE
           /\ HeartbeatReboots
                => /\ node'.state = node.state /\ node'.step = node.step
                   /\ node'.index = node.index /\ node'.skip = node.skip
                   /\ node'.polling = FALSE /\ FaultKept(node, node')
<1>1. node \in NodeRows
  BY DEF Inv
<1>2. ASSUME HeartbeatInMaintenance \/ HeartbeatStepFailed \/ HeartbeatBreaks
      PROVE  /\ node'.state = "clean failed" /\ Cleared(node, node')
             /\ agent' = TornDown(node') /\ HeartbeatFails
  <2>1. HeartbeatFails /\ node.state = "clean wait"
    BY <1>2 DEF HeartbeatInMaintenance, HeartbeatStepFailed, HeartbeatBreaks
  <2> QED
    BY <1>1, <2>1, FailedClears DEF HeartbeatFails
<1>3. ASSUME NEW n \in NodeRows, HeartbeatContinues(n), n.state = node.state, SameFault(node, n)
      PROVE  /\ node.state = "clean wait" /\ node'.state = "cleaning"
             /\ FaultKept(node, node') /\ Acquire("continue")
             /\ UNCHANGED <<agent, job, casts, recover, history, counters>>
             /\ node'.step = n.step /\ node'.index = n.index
             /\ node'.skip = n.skip /\ node'.polling = n.polling
  <2>1. n.state = "clean wait" /\ node' = Fired(n, "resume", OwnTarget(n))
    BY <1>3 DEF HeartbeatContinues, Resumed
  <2>2. CanMove(n, "resume", "cleaning") /\ "cleaning" \in CleanStates
    BY <2>1 DEF CanMove, CleaningMoves, CleanStates
  <2>3. SteadyTo(n, node', "cleaning")
    BY <2>1, <2>2, KeptSteady
  <2>4. FaultKept(node, node')
    BY <1>3, <2>3 DEF SteadyTo, Steady, SameFault, FaultKept
  <2> QED
    BY <1>3, <2>3, <2>4 DEF HeartbeatContinues, SteadyTo, Steady
<1>4. /\ StepsSet(node) \in NodeRows /\ StepsSet(node).state = node.state
      /\ StepsSet(node).step = 0 /\ StepsSet(node).index = 0
      /\ SameFault(node, StepsSet(node))
  BY <1>1, EmptiedRow DEF Emptied, SameFault
<1>5. \A n \in {node, [node EXCEPT !.rebooting = FALSE]} :
        /\ n \in NodeRows /\ n.state = node.state /\ n.step = node.step
        /\ SameFlags(node, n) /\ SameFault(node, n)
  BY <1>1 DEF NodeRows, SameFlags, SameFault
<1>6. \A n \in {[node EXCEPT !.skip = FALSE]} :
        /\ n \in NodeRows /\ n.state = node.state /\ n.step = node.step
        /\ n.index = node.index /\ n.skip = FALSE /\ SameFault(node, n)
  BY <1>1 DEF NodeRows, SameFault
<1>7. HeartbeatFirst => node.step = 0 /\ HeartbeatContinues(StepsSet(node))
  BY DEF HeartbeatFirst
<1>8. HeartbeatFresh \/ HeartbeatDone =>
        \E n \in {node, [node EXCEPT !.rebooting = FALSE]} : HeartbeatContinues(n)
  BY DEF HeartbeatFresh, HeartbeatDone
<1>9. HeartbeatMismatch =>
        \E n \in {[node EXCEPT !.skip = FALSE], StepsSet(node)} : HeartbeatContinues(n)
  BY DEF HeartbeatMismatch
<1>10. ASSUME HeartbeatReboots
       PROVE  /\ node'.state = node.state /\ node'.step = node.step
              /\ node'.index = node.index /\ node'.skip = node.skip
              /\ node'.polling = FALSE /\ FaultKept(node, node')
  BY <1>1, <1>10 DEF HeartbeatReboots, NodeRows, FaultKept
<1>11. ASSUME HeartbeatFirst
       PROVE  /\ node.state = "clean wait" /\ node'.state = "cleaning"
              /\ FaultKept(node, node') /\ Acquire("continue")
              /\ UNCHANGED <<agent, job, casts, recover, history, counters>>
              /\ node.step = 0 /\ node'.step = 0 /\ node'.index = 0
  BY <1>3, <1>4, <1>7, <1>11
<1>12. ASSUME HeartbeatFresh \/ HeartbeatDone
       PROVE  /\ node.state = "clean wait" /\ node'.state = "cleaning"
              /\ FaultKept(node, node') /\ Acquire("continue")
              /\ UNCHANGED <<agent, job, casts, recover, history, counters>>
              /\ node'.step = node.step /\ SameFlags(node, node')
  BY <1>3, <1>5, <1>8, <1>12 DEF SameFlags
<1>13. ASSUME HeartbeatMismatch
       PROVE  /\ node.state = "clean wait" /\ node'.state = "cleaning"
              /\ FaultKept(node, node') /\ Acquire("continue")
              /\ UNCHANGED <<agent, job, casts, recover, history, counters>>
              /\ \/ node'.step = 0 /\ node'.index = 0
                 \/ node'.step = node.step /\ node'.index = node.index /\ node'.skip = FALSE
  BY <1>3, <1>4, <1>6, <1>9, <1>13
<1> QED
  BY <1>2, <1>10, <1>11, <1>12, <1>13

LEMMA ConductorSteps ==
    ASSUME Inv
    PROVE  /\ ContinueNodeClean =>
                \/ /\ node.state = "clean wait" /\ SteadyTo(node, node', "cleaning")
                   /\ Acquire("continue") \/ (May("no worker") /\ Briefly)
                \/ node' = node /\ Briefly
           /\ CheckCleanwaitTimeouts => SteadyTo(node, node', "clean failed")
           /\ node.state = "cleaning" /\ node' = Fired(node, "fail", NoState)
                => SteadyTo(node, node', "clean failed")
<1>1. node \in NodeRows
  BY DEF Inv
<1>2. ASSUME node.state = "clean wait" PROVE SteadyTo(node, Resumed(node), "cleaning")
  <2>1. CanMove(node, "resume", "cleaning") /\ "cleaning" \in CleanStates
    BY <1>2 DEF CanMove, CleaningMoves, CleanStates
  <2> QED
    BY <1>1, <2>1, KeptSteady DEF Resumed
<1>3. ASSUME CheckCleanwaitTimeouts PROVE SteadyTo(node, node', "clean failed")
  <2>1. CanMove(node, "fail", "clean failed")
    BY <1>3 DEF CheckCleanwaitTimeouts, CanMove, CleaningMoves
  <2>2. node.target \in {NoState, "manageable", "available"}
    BY <1>1 DEF NodeRows
  <2> QED
    BY <1>1, <1>3, <2>1, <2>2, FiredSteady DEF CheckCleanwaitTimeouts
<1>4. ASSUME node.state = "cleaning", node' = Fired(node, "fail", NoState)
      PROVE  SteadyTo(node, node', "clean failed")
  <2>1. CanMove(node, "fail", "clean failed")
    BY <1>4 DEF CanMove, CleaningMoves
  <2> QED
    BY <1>1, <1>4, <2>1, NoTargetSteady
<1> QED
  BY <1>2, <1>3, <1>4 DEF ContinueNodeClean

\* A fault comes with maintenance, from which the operator releases the node
\* together with the fault.
LEMMA FaultStep ==
    ASSUME Inv, [Next]_vars
    PROVE  FaultKept(node, node')
<1>1. \A n, m, s : SteadyTo(n, m, s) \/ Cleared(n, m) \/ m = n => FaultKept(n, m)
  BY DEF SteadyTo, Steady, Cleared, FaultKept
<1>2. CASE Operator
  BY <1>1, <1>2, OperatorSteps DEF Operator
<1>3. CASE StartCleaning \/ ContinueCleaning
  BY <1>3, StartSteps, ContinueSteps
<1>4. CASE \/ NextCleanStep \/ ExecuteSync \/ ExecuteFails \/ ExecuteInAgent
           \/ ExecutePolled \/ ExecuteReserved
  BY <1>1, <1>4, ExecuteSteps DEF ExecuteSync
<1>5. CASE Park \/ WakeUp \/ FinishCleaning \/ AbortCleaning \/ CleanUpFailed
  BY <1>1, <1>5, EndSteps
<1>6. CASE Heartbeats \/ HeartbeatBreaks
  BY <1>1, <1>6, HeartbeatSteps DEF Heartbeats
<1>7. CASE Conductor \/ CheckCleanwaitTimeouts
  BY <1>1, <1>7, ConductorSteps DEF Conductor, QueryJobStatus, DiscardFailedJob
<1>8. CASE Recover \/ Crash
  <2>1. node' = node \/ (node.state = "cleaning" /\ node' = Fired(node, "fail", NoState))
    BY <1>8 DEF Recover, Crash, Restart, CorrectStuckStates, CheckOrphanNodes, CleanUpOrphan
  <2> QED
    BY <1>1, <2>1, ConductorSteps
<1>9. CASE Hardware \/ AgentLost \/ UNCHANGED vars
  BY <1>1, <1>9 DEF Hardware, AgentBoots, AgentFinishes, JobFinishes, AgentLost, vars
<1> QED
  BY <1>2, <1>3, <1>4, <1>5, <1>6, <1>7, <1>8, <1>9 DEF Next, Worker

\* Nothing is left of an earlier cleaning where the next one begins.
Nothing == node.step = 0 /\ job.step = 0 /\ casts = 0
Settled ==
    \/ node.state \in {"manageable", "available"}
    \/ node.state = "clean failed" /\ lock = "free"
Unbegun == node.state = "manageable" /\ pc = "idle" /\ Nothing
Clean == job.step = 0 /\ casts = 0 /\ recover = "no" /\ (Settled => node.step = 0)
Tidy ==
    /\ pc = "start" => Nothing
    /\ MaxCleans <= 1 /\ cleans = 0 => Unbegun
    /\ MaxCleans > 1 => Clean

LEMMA UnbegunStep ==
    ASSUME Inv, Unbegun, [Next]_vars, ~DoNodeClean, ~Provide
    PROVE  Unbegun'
<1> USE DEF Unbegun, Nothing
<1>1. CASE Operator
  <2>1. UpdateMaintenance
    BY <1>1 DEF Operator, Manage, Unhold, DoAbort
  <2>2. node'.state = node.state /\ node'.step = node.step
    BY <2>1, OperatorSteps
  <2> QED
    BY <2>1, <2>2 DEF UpdateMaintenance, Briefly
<1>2. CASE Worker
  BY <1>2 DEF Worker, StartCleaning, ContinueCleaning, NextCleanStep, ExecuteSync, ExecuteFails,
     ExecuteInAgent, ExecutePolled, ExecuteReserved, Park, WakeUp, FinishCleaning, AbortCleaning,
     CleanUpFailed, Working
<1>3. CASE Heartbeats \/ HeartbeatBreaks
  BY <1>3 DEF Heartbeats, HeartbeatInMaintenance, HeartbeatStepFailed, HeartbeatBreaks,
     HeartbeatFirst, HeartbeatFresh, HeartbeatDone, HeartbeatReboots, HeartbeatMismatch,
     HeartbeatContinues
<1>4. CASE Conductor \/ CheckCleanwaitTimeouts
  BY <1>4 DEF Conductor, ContinueNodeClean, QueryJobStatus, DiscardFailedJob,
     CheckCleanwaitTimeouts
<1>5. CASE Recover \/ Crash
  <2>1. node' = node /\ pc' = "idle" /\ UNCHANGED <<job, casts>>
    BY <1>5 DEF Recover, Crash, Restart, CorrectStuckStates, CheckOrphanNodes, CleanUpOrphan
  <2> QED
    BY <2>1
<1>6. CASE Hardware \/ AgentLost \/ UNCHANGED vars
  BY <1>6 DEF Hardware, AgentBoots, AgentFinishes, JobFinishes, AgentLost, vars
<1> QED
  BY <1>1, <1>2, <1>3, <1>4, <1>5, <1>6 DEF Next

LEMMA StartingStep ==
    ASSUME Inv, pc = "start", Nothing, [Next]_vars, pc' = "start"
    PROVE  Nothing'
<1> USE DEF Nothing
<1>1. lock = "held" /\ node.state = "cleaning"
  BY DEF Inv, Discipline
<1>2. CASE Operator
  BY <1>1, <1>2 DEF Operator, DoNodeClean, Provide, Begin, Manage, Unhold, DoAbort,
     UpdateMaintenance, Acquire, Briefly
<1>3. CASE Worker
  <2>1. StartCleaning
    BY <1>3 DEF Worker, ContinueCleaning, NextCleanStep, ExecuteSync, ExecuteFails,
       ExecuteInAgent, ExecutePolled, ExecuteReserved, Park, WakeUp, FinishCleaning,
       AbortCleaning, CleanUpFailed, Working
  <2> QED
    BY <2>1 DEF StartCleaning, Release
<1>4. CASE Heartbeats \/ HeartbeatBreaks
  BY <1>1, <1>4 DEF Heartbeats, HeartbeatInMaintenance, HeartbeatStepFailed, HeartbeatBreaks,
     HeartbeatFirst, HeartbeatFresh, HeartbeatDone, HeartbeatReboots, HeartbeatMismatch,
     HeartbeatContinues
<1>5. CASE Conductor \/ CheckCleanwaitTimeouts
  BY <1>1, <1>5 DEF Conductor, ContinueNodeClean, QueryJobStatus, DiscardFailedJob,
     CheckCleanwaitTimeouts
<1>6. CASE Recover \/ Crash
  <2>1. node' = node /\ UNCHANGED <<job, casts>>
    BY <1>1, <1>6 DEF Recover, Crash, Restart, CorrectStuckStates, CheckOrphanNodes,
       CleanUpOrphan, Acquire
  <2> QED
    BY <2>1
<1>7. CASE Hardware \/ AgentLost \/ UNCHANGED vars
  BY <1>7 DEF Hardware, AgentBoots, AgentFinishes, JobFinishes, AgentLost, vars
<1> QED
  BY <1>2, <1>3, <1>4, <1>5, <1>6, <1>7 DEF Next

\* A step keeps the node clean that clears its step, leaves it in a cleaning,
\* or leaves it alone.
LEMMA CleanAfter ==
    ASSUME Clean, job'.step = 0, casts' = 0, recover' = "no",
           \/ node'.step = 0
           \/ node'.state \in {"cleaning", "clean wait", "clean hold"}
           \/ node'.state = "clean failed" /\ lock' # "free"
           \/ Settled /\ node'.step = node.step
    PROVE  Clean'
BY DEF Clean, Settled

LEMMA CleanStep ==
    ASSUME Inv, Clean, Undisturbed, MaxCleans > 1, [Next]_vars
    PROVE  Clean'
<1>0. /\ \A k \in Steps : Plan[k] # "poll"
      /\ ~May("no worker") /\ ~May("restart") /\ ~May("takeover")
  BY DEF Undisturbed
<1>00. job.step = 0 /\ casts = 0 /\ recover = "no"
  BY DEF Clean
<1> DEFINE Same == job' = job /\ casts' = casts /\ recover' = recover
<1>1. CASE Operator
  <2>1. Same
    BY <1>1 DEF Operator, DoNodeClean, Provide, Begin, Manage, Unhold, DoAbort, UpdateMaintenance
  <2>2. CASE DoNodeClean \/ Provide \/ Unhold
    BY <1>00, <2>1, <2>2, OperatorSteps, CleanAfter DEF SteadyTo
  <2>3. CASE Manage
    <3>1. Settled /\ node'.step = node.step
      BY <2>3, OperatorSteps DEF Manage, Briefly, SteadyTo, Steady, Settled
    <3> QED
      BY <1>00, <2>1, <3>1, CleanAfter
  <2>4. CASE DoAbort
    <3>1. node.state \in {"clean wait", "clean hold"}
      BY <2>4 DEF DoAbort
    <3>2. \/ node'.state = node.state
          \/ node'.state = "clean failed" /\ lock' # "free"
      BY <2>4, OperatorSteps DEF SteadyTo, Acquire
    <3> QED
      BY <1>00, <2>1, <3>1, <3>2, CleanAfter
  <2>5. CASE UpdateMaintenance
    <3>1. node'.state = node.state /\ node'.step = node.step /\ lock' = lock
      BY <2>5, OperatorSteps DEF UpdateMaintenance, Briefly
    <3> QED
      BY <1>00, <2>1, <3>1 DEF Clean, Settled
  <2> QED
    BY <1>1, <2>2, <2>3, <2>4, <2>5 DEF Operator
<1>2. CASE Worker
  <2>1. ~ExecutePolled
    BY <1>0 DEF ExecutePolled, Working, Inv, Discipline
  <2>2. Same
    BY <1>2, <2>1 DEF Worker, StartCleaning, ContinueCleaning, NextCleanStep, ExecuteSync,
       ExecuteFails, ExecuteInAgent, ExecuteReserved, Park, WakeUp, FinishCleaning,
       AbortCleaning, CleanUpFailed
  <2>3. CASE StartCleaning
    BY <1>00, <2>2, <2>3, StartSteps, CleanAfter DEF Cleared
  <2>4. CASE ContinueCleaning
    <3>1. lock = "held"
      BY <2>4 DEF ContinueCleaning, Working
    <3>2. \/ node'.step = 0 \/ node'.state = "cleaning"
          \/ node'.state = "clean failed" /\ lock' # "free"
      BY <2>4, <3>1, ContinueSteps DEF Cleared, Stay
    <3> QED
      BY <1>00, <2>2, <3>2, CleanAfter
  <2>5. CASE NextCleanStep \/ ExecuteSync \/ ExecuteInAgent
    <3>1. node.state = "cleaning"
      BY <2>5 DEF NextCleanStep, ExecuteSync, ExecuteInAgent, Working, Inv, Discipline
    <3>2. node'.state = "cleaning"
      BY <2>5, <3>1, ExecuteSteps DEF ExecuteSync
    <3> QED
      BY <1>00, <2>2, <3>2, CleanAfter
  <2>6. CASE ExecuteFails \/ ExecuteReserved
    BY <1>00, <2>2, <2>6, ExecuteSteps, CleanAfter DEF Cleared, SteadyTo
  <2>7. CASE Park \/ WakeUp \/ FinishCleaning \/ AbortCleaning \/ CleanUpFailed
    BY <1>00, <2>2, <2>7, EndSteps, CleanAfter DEF Cleared, SteadyTo
  <2> QED
    BY <1>2, <2>1, <2>3, <2>4, <2>5, <2>6, <2>7 DEF Worker
<1>3. CASE Heartbeats \/ HeartbeatBreaks
  <2>1. CASE HeartbeatInMaintenance \/ HeartbeatStepFailed \/ HeartbeatBreaks
    <3>1. Same /\ node'.step = 0
      BY <2>1, HeartbeatSteps DEF HeartbeatFails, Cleared
    <3> QED
      BY <1>00, <3>1, CleanAfter
  <2>2. CASE HeartbeatFirst \/ HeartbeatFresh \/ HeartbeatDone \/ HeartbeatMismatch
    BY <1>00, <2>2, HeartbeatSteps, CleanAfter
  <2>3. CASE HeartbeatReboots
    <3>1. Same /\ node.state = "clean wait"
      BY <2>3 DEF HeartbeatReboots
    <3>2. node'.state = "clean wait"
      BY <2>3, <3>1, HeartbeatSteps
    <3> QED
      BY <1>00, <3>1, <3>2, CleanAfter
  <2> QED
    BY <1>3, <2>1, <2>2, <2>3 DEF Heartbeats
<1>4. CASE Conductor
  BY <1>00, <1>4 DEF Conductor, ContinueNodeClean, QueryJobStatus, DiscardFailedJob
<1>5. CASE CheckCleanwaitTimeouts
  <2>1. Same /\ lock' = "held"
    BY <1>0, <1>5 DEF CheckCleanwaitTimeouts, Acquire
  <2>2. node'.state = "clean failed"
    BY <1>5, ConductorSteps DEF SteadyTo
  <2> QED
    BY <1>00, <2>1, <2>2, CleanAfter
<1>6. CASE Recover
  BY <1>0, <1>00, <1>6 DEF Recover, Restart, CorrectStuckStates, CheckOrphanNodes, CleanUpOrphan
<1>7. CASE Crash
  <2>1. lock' = "dead" /\ node' = node /\ Same
    BY <1>00, <1>7 DEF Crash
  <2> QED
    BY <1>00, <2>1 DEF Clean, Settled
<1>8. CASE Hardware \/ AgentLost \/ UNCHANGED vars
  <2>1. Same /\ node' = node /\ lock' = lock
    BY <1>00, <1>8 DEF Hardware, AgentBoots, AgentFinishes, JobFinishes, AgentLost, vars
  <2> QED
    BY <2>1 DEF Clean, Settled
<1> QED
  BY <1>1, <1>2, <1>3, <1>4, <1>5, <1>6, <1>7, <1>8 DEF Next

LEMMA TidyStep ==
    ASSUME Inv, Tidy, Undisturbed, [Next]_vars
    PROVE  Tidy'
<1>0. cleans \in Nat /\ MaxCleans \in Nat /\ cleans <= MaxCleans
  BY Bounds DEF Inv, OthersTyped
<1>1. CASE DoNodeClean \/ Provide
  <2>1. \E e, o, f : Begin(e, o, f)
    BY <1>1 DEF DoNodeClean, Provide
  <2>2. /\ cleans < MaxCleans /\ cleans' = cleans + 1 /\ node.state = "manageable"
        /\ UNCHANGED <<job, casts>>
    BY <2>1 DEF Begin
  <2>3. node'.step = node.step
    BY <1>1, OperatorSteps DEF SteadyTo, Steady
  <2>4. Nothing
    <3>1. CASE MaxCleans <= 1
      <4>1. cleans = 0
        BY <1>0, <2>2, <3>1
      <4> QED
        BY <3>1, <4>1 DEF Tidy, Unbegun
    <3>2. CASE MaxCleans > 1
      BY <2>2, <3>2 DEF Tidy, Clean, Settled, Nothing
    <3> QED
      BY <1>0, <3>1, <3>2
  <2>5. Nothing'
    BY <2>2, <2>3, <2>4 DEF Nothing
  <2>6. cleans' # 0
    BY <1>0, <2>2
  <2>7. MaxCleans > 1 => Clean'
    BY CleanStep DEF Tidy
  <2> QED
    BY <2>5, <2>6, <2>7 DEF Tidy
<1>2. CASE ~(DoNodeClean \/ Provide)
  <2>1. cleans' = cleans
    BY <1>2 DEF Next, Operator, Manage, Unhold, DoAbort, UpdateMaintenance, Worker,
       StartCleaning, ContinueCleaning, NextCleanStep, ExecuteSync, ExecuteFails,
       ExecuteInAgent, ExecutePolled, ExecuteReserved, Park, WakeUp, FinishCleaning,
       AbortCleaning, CleanUpFailed, Heartbeats, HeartbeatInMaintenance, HeartbeatStepFailed,
       HeartbeatBreaks, HeartbeatFails, HeartbeatFirst, HeartbeatFresh, HeartbeatDone,
       HeartbeatReboots, HeartbeatMismatch, HeartbeatContinues, Conductor, ContinueNodeClean,
       QueryJobStatus, DiscardFailedJob, CheckCleanwaitTimeouts, Recover, Restart,
       CorrectStuckStates, CheckOrphanNodes, CleanUpOrphan, Crash, Hardware, AgentBoots,
       AgentFinishes, JobFinishes, AgentLost, counters, vars
  <2>2. MaxCleans <= 1 /\ cleans' = 0 => Unbegun'
    BY <1>2, <2>1, UnbegunStep DEF Tidy
  <2>3. MaxCleans > 1 => Clean'
    BY CleanStep DEF Tidy
  <2>4. pc' = "start" => pc = "start"
    BY <1>2 DEF Next, Operator, Manage, Unhold, DoAbort, UpdateMaintenance, Worker,
       StartCleaning, ContinueCleaning, NextCleanStep, ExecuteSync, ExecuteFails,
       ExecuteInAgent, ExecutePolled, ExecuteReserved, Park, WakeUp, FinishCleaning,
       AbortCleaning, CleanUpFailed, Heartbeats, HeartbeatInMaintenance, HeartbeatStepFailed,
       HeartbeatBreaks, HeartbeatFails, HeartbeatFirst, HeartbeatFresh, HeartbeatDone,
       HeartbeatReboots, HeartbeatMismatch, HeartbeatContinues, Conductor, ContinueNodeClean,
       QueryJobStatus, DiscardFailedJob, CheckCleanwaitTimeouts, Recover, Restart,
       CorrectStuckStates, CheckOrphanNodes, CleanUpOrphan, Crash, Hardware, AgentBoots,
       AgentFinishes, JobFinishes, AgentLost, Acquire, Briefly, Release, Stay, Advance, vars
  <2>5. pc' = "start" => Nothing'
    BY <2>4, StartingStep DEF Tidy
  <2> QED
    BY <2>2, <2>3, <2>5 DEF Tidy
<1> QED
  BY <1>1, <1>2

----------------------------------------------------------------------------
(* How far a cleaning has come *)

\* The steps before the step "k" are over.
Before(k) == \A j \in Steps : j < k => j \in executed

\* The cleaning waits, for the agent, for a job of the BMC or for the operator;
\* or it goes on.
Waits == node.state \in {"clean wait", "clean hold"} \/ pc = "park"
Goes == pc \in {"continue", "next", "execute", "finish"}

\* What the row says of the steps is true of the machine.
OnTrack ==
    /\ node.index = node.step
    /\ Before(node.step)
    /\ agent.is = "ok" => agent.cmd \in executed

Polled ==
    /\ job.step # 0 \/ casts > 0 => node.polling /\ node.step # 0
    /\ casts > 0 => casts = 1 /\ job.step = 0 /\ node.step \in executed
    /\ job.step # 0 => job.step = node.step /\ (job.over => node.step \in executed)

Asked ==
    /\ agent.is = "busy" => agent.cmd = node.step
    /\ node.step = 0 \/ node.polling => agent.is \in {"off", "booting", "fresh"}
    /\ node.step # 0 /\ agent.is \in {"booting", "fresh"} /\ ~node.polling /\ node.skip
         => node.step \in executed

GoesOn ==
    /\ agent.is # "busy" /\ job.step = 0 /\ casts = 0
    /\ pc = "continue" => (node.skip /\ node.step # 0 => node.step \in executed)
    /\ pc \in {"next", "execute"} => Before(at) /\ node.skip /\ ~node.polling
    /\ pc = "execute" => node.step = at
    /\ pc = "finish" => executed = Steps

Progress ==
    /\ Waits => OnTrack /\ Polled /\ Asked
    /\ Goes => OnTrack /\ GoesOn

\* A step that leaves the cleaning, or does not enter it.
LEMMA LeavingStep ==
    ASSUME node'.state \notin {"clean wait", "clean hold"},
           pc' \in {"idle", "start", "abort", "cleanup", "asleep"}
    PROVE  Progress'
BY DEF Progress, Waits, Goes

\* A step aside: nothing changes but that the agent may get lost.
LEMMA AsideStep ==
    ASSUME Progress, node'.state = node.state, node'.step = node.step, SameFlags(node, node'),
           pc' = pc, at' = at, job' = job, casts' = casts, executed' = executed,
           agent' \in {agent, Off}
    PROVE  Progress'
<1>0. Off.is = "off"
  BY DEF Off
<1>1. OnTrack => OnTrack'
  BY <1>0 DEF OnTrack, Before, SameFlags
<1>2. Polled => Polled'
  BY DEF Polled, SameFlags
<1>3. Asked => Asked'
  BY <1>0 DEF Asked, SameFlags
<1>4. GoesOn => GoesOn'
  BY <1>0 DEF GoesOn, Before, SameFlags
<1>5. (Waits' => Waits) /\ (Goes' => Goes)
  BY DEF Waits, Goes
<1> QED
  BY <1>1, <1>2, <1>3, <1>4, <1>5 DEF Progress

\* From one waiting to another.
LEMMA WaitingStep ==
    ASSUME Progress, Waits, pc' \in {"idle", "asleep"},
           node'.step = node.step, SameFlags(node, node'),
           UNCHANGED <<job, casts, executed, agent>>
    PROVE  Progress'
<1>1. OnTrack /\ Polled /\ Asked
  BY DEF Progress
<1>2. OnTrack'
  BY <1>1 DEF OnTrack, Before, SameFlags
<1>3. Polled' /\ Asked'
  BY <1>1 DEF Polled, Asked, SameFlags
<1>4. ~Goes'
  BY DEF Goes
<1> QED
  BY <1>2, <1>3, <1>4 DEF Progress

\* A waiting cleaning that goes on.
LEMMA ResumingStep ==
    ASSUME Inv, Progress, Waits, pc' = "continue", node'.state = "cleaning",
           agent' = agent, executed' = executed, job' = job, casts' = 0,
           agent.is # "busy", job.step = 0,
           \/ node'.step = 0 /\ node'.index = 0
           \/ /\ node'.step = node.step /\ node'.index = node.index
              /\ node'.skip /\ node.step # 0 => node.step \in executed
    PROVE  Progress'
<1>1. OnTrack
  BY DEF Progress
<1>2. \A j \in Steps : ~(j < 0)
  BY StepsAreNumbers
<1>3. OnTrack'
  BY <1>1, <1>2 DEF OnTrack, Before
<1>4. GoesOn'
  BY DEF GoesOn
<1>5. ~Waits'
  BY DEF Waits
<1> QED
  BY <1>3, <1>4, <1>5 DEF Progress

LEMMA FreeMeansIdle == Inv /\ Briefly => pc = "idle" /\ pc' = "idle" /\ at' = at
BY DEF Inv, Discipline, Briefly

LEMMA SteadyFlags ==
    \A n, m, s : SteadyTo(n, m, s) => m.state = s /\ m.step = n.step /\ SameFlags(n, m)
BY DEF SteadyTo, Steady, SameFlags

LEMMA ProgressOperator ==
    ASSUME Inv, Progress, Operator
    PROVE  Progress'
<1>1. CASE DoNodeClean \/ Provide
  <2>1. pc' = "start" /\ node'.state = "cleaning"
    BY <1>1, OperatorSteps DEF DoNodeClean, Provide, Begin, Acquire, SteadyTo
  <2> QED
    BY <2>1, LeavingStep
<1>2. CASE Manage
  BY <1>2, OperatorSteps, FreeMeansIdle, LeavingStep DEF Manage, SteadyTo
<1>3. CASE Unhold
  <2>1. Waits /\ pc' = "idle" /\ UNCHANGED <<job, casts, executed, agent>>
    BY <1>3, FreeMeansIdle DEF Unhold, Waits, history
  <2>2. node'.step = node.step /\ SameFlags(node, node')
    BY <1>3, OperatorSteps, SteadyFlags
  <2> QED
    BY <2>1, <2>2, WaitingStep
<1>4. CASE DoAbort
  <2>1. UNCHANGED <<job, casts, executed, agent>>
    BY <1>4 DEF DoAbort
  <2>2. CASE Briefly /\ SteadyTo(node, node', node.state)
    <3>1. pc' = pc /\ at' = at
      BY <2>2 DEF Briefly
    <3> QED
      BY <2>1, <2>2, <3>1, SteadyFlags, AsideStep
  <2>3. CASE Acquire("abort") /\ SteadyTo(node, node', "clean failed")
    BY <2>3, LeavingStep DEF Acquire, SteadyTo
  <2> QED
    BY <1>4, <2>2, <2>3, OperatorSteps
<1>5. CASE UpdateMaintenance
  <2>1. UNCHANGED <<pc, at, job, casts, executed, agent>>
    BY <1>5 DEF UpdateMaintenance, Briefly, history
  <2>2. node'.state = node.state /\ node'.step = node.step /\ SameFlags(node, node')
    BY <1>5, OperatorSteps
  <2> QED
    BY <2>1, <2>2, AsideStep
<1> QED
  BY <1>1, <1>2, <1>3, <1>4, <1>5 DEF Operator

LEMMA NextIndexIs ==
    ASSUME NEW n \in NodeRows, n.index = n.step
    PROVE  \/ n.step = 0 /\ NextIndex(n) = 1
           \/ n.step # 0 /\ ~n.skip /\ NextIndex(n) = n.step
           \/ n.step # 0 /\ n.skip /\ n.step + 1 \in Steps /\ NextIndex(n) = n.step + 1
           \/ n.step # 0 /\ n.skip /\ n.step + 1 \notin Steps /\ NextIndex(n) = 0
BY StepsAreNumbers DEF NextIndex, NodeRows

\* When a step is over, so are those before the next one, or all of them.
LEMMA NextBefore ==
    ASSUME NEW k \in Steps, Before(k), k \in executed, executed \subseteq Steps
    PROVE  /\ \A j \in Steps : j < k + 1 => j \in executed
           /\ k + 1 \notin Steps => executed = Steps
<1>1. Len(Plan) \in Nat
  BY CleaningAssumption
<1>2. \A j \in Steps : j < k + 1 => j \in executed
  BY StepsAreNumbers DEF Before
<1>3. ASSUME k + 1 \notin Steps, NEW j \in Steps PROVE j < k + 1
  BY <1>1, <1>3 DEF Steps
<1> QED
  BY <1>2, <1>3

LEMMA ProgressStart ==
    ASSUME Inv, Progress, Tidy, StartCleaning
    PROVE  Progress'
<1>1. Nothing /\ pc' = "idle" /\ UNCHANGED <<job, casts, executed>>
  BY StartSteps DEF StartCleaning, Working, Tidy, Release
<1>2. CASE node'.state \in {"available", "clean failed"}
  BY <1>1, <1>2, LeavingStep
<1>3. CASE /\ node'.state = "clean wait" /\ agent' = Booting
           /\ node'.step = node.step /\ node'.index = 0
           /\ node'.skip = TRUE /\ node'.polling = FALSE
  <2>1. agent'.is = "booting"
    BY <1>3 DEF Booting
  <2>2. \A j \in Steps : ~(j < 0)
    BY StepsAreNumbers
  <2>3. node'.step = 0 /\ node'.index = 0 /\ job'.step = 0 /\ casts' = 0
    BY <1>1, <1>3 DEF Nothing
  <2>4. OnTrack'
    BY <2>1, <2>2, <2>3 DEF OnTrack, Before
  <2>5. Polled' /\ Asked'
    BY <2>1, <2>3 DEF Polled, Asked
  <2>6. ~Goes'
    BY <1>1 DEF Goes
  <2> QED
    BY <2>4, <2>5, <2>6 DEF Progress
<1> QED
  BY <1>2, <1>3, StartSteps

LEMMA ProgressContinue ==
    ASSUME Inv, Progress, ContinueCleaning
    PROVE  Progress'
<1>1. /\ node \in NodeRows /\ pc = "continue" /\ OnTrack /\ GoesOn
      /\ UNCHANGED <<job, casts, executed>>
  BY DEF ContinueCleaning, Working, Inv, Progress, Goes, history
<1>2. CASE node'.state = "clean failed" /\ (Stay("abort", 0) \/ Release)
  BY <1>2, LeavingStep DEF Stay, Release
<1>3. CASE /\ node'.state = "cleaning" /\ node'.step = node.step /\ node'.index = node.index
           /\ node'.skip = TRUE /\ node'.polling = FALSE /\ agent' = agent
           /\ \/ NextIndex(node) # 0 /\ Stay("next", NextIndex(node))
              \/ NextIndex(node) = 0 /\ Stay("finish", 0)
  <2>0. node.step \in {0} \cup Steps /\ executed \subseteq Steps /\ node.index = node.step
    BY <1>1 DEF NodeRows, OnTrack, Inv, OthersTyped
  <2>1. OnTrack'
    BY <1>1, <1>3 DEF OnTrack, Before
  <2>2. ASSUME NextIndex(node) # 0
        PROVE  \A j \in Steps : j < NextIndex(node) => j \in executed
    <3>1. CASE node.step = 0 /\ NextIndex(node) = 1
      BY <3>1, StepsAreNumbers
    <3>2. CASE NextIndex(node) = node.step
      BY <1>1, <3>2 DEF OnTrack, Before
    <3>3. CASE node.step # 0 /\ node.skip /\ NextIndex(node) = node.step + 1
      <4>1. node.step \in executed /\ node.step \in Steps /\ Before(node.step)
        BY <1>1, <2>0, <3>3 DEF GoesOn, OnTrack
      <4> QED
        BY <2>0, <3>3, <4>1, NextBefore
    <3> QED
      BY <1>1, <2>0, <2>2, <3>1, <3>2, <3>3, NextIndexIs
  <2>3. ASSUME NextIndex(node) = 0 PROVE executed = Steps
    <3>1. node.step # 0 /\ node.skip /\ node.step + 1 \notin Steps
      BY <1>1, <2>0, <2>3, NextIndexIs, StepsAreNumbers
    <3>2. node.step \in executed /\ node.step \in Steps /\ Before(node.step)
      BY <1>1, <2>0, <3>1 DEF GoesOn, OnTrack
    <3> QED
      BY <2>0, <3>1, <3>2, NextBefore
  <2>4. GoesOn'
    <3>1. CASE NextIndex(node) # 0 /\ Stay("next", NextIndex(node))
      BY <1>1, <1>3, <2>2, <3>1 DEF GoesOn, Stay, Before
    <3>2. CASE NextIndex(node) = 0 /\ Stay("finish", 0)
      BY <1>1, <1>3, <2>3, <3>2 DEF GoesOn, Stay
    <3> QED
      BY <1>3, <3>1, <3>2
  <2>5. ~Waits'
    BY <1>3 DEF Waits, Stay
  <2> QED
    BY <2>1, <2>4, <2>5 DEF Progress
<1> QED
  BY <1>2, <1>3, ContinueSteps

LEMMA ProgressExecute ==
    ASSUME Inv, Progress,
           NextCleanStep \/ ExecuteSync \/ ExecuteFails \/ ExecuteInAgent \/ ExecutePolled
           \/ ExecuteReserved
    PROVE  Progress'
<1>1. /\ Goes /\ OnTrack /\ GoesOn /\ node.state = "cleaning" /\ at \in Steps
      /\ node.index = node.step
  BY DEF NextCleanStep, ExecuteSync, ExecuteFails, ExecuteInAgent, ExecutePolled,
     ExecuteReserved, Working, Inv, Discipline, Progress, Goes, OnTrack
<1>2. /\ agent.is # "busy" /\ job.step = 0 /\ casts = 0
      /\ node.skip /\ ~node.polling /\ Before(at) /\ executed \subseteq Steps
  BY <1>1 DEF GoesOn, NextCleanStep, ExecuteSync, ExecuteFails, ExecuteInAgent, ExecutePolled,
     ExecuteReserved, Working, Inv, OthersTyped
<1>3. at # 0 /\ (pc = "execute" => node.step = at)
  BY <1>1, StepsAreNumbers DEF GoesOn
<1>4. CASE NextCleanStep
  <2>1. /\ node'.state = "cleaning" /\ node'.step = at /\ node'.index = at
        /\ node'.skip = node.skip /\ node'.polling = FALSE
    BY <1>1, <1>4, ExecuteSteps
  <2>2. /\ pc' = "execute" /\ at' = at /\ UNCHANGED <<agent, job, casts, executed>>
    BY <1>4 DEF NextCleanStep, Stay, history
  <2>3. OnTrack'
    BY <1>1, <1>2, <2>1, <2>2 DEF OnTrack, Before
  <2>4. GoesOn'
    BY <1>2, <2>1, <2>2 DEF GoesOn, Before
  <2>5. ~Waits'
    BY <2>1, <2>2 DEF Waits
  <2> QED
    BY <2>3, <2>4, <2>5 DEF Progress
<1>5. CASE ExecuteSync
  <2>1. /\ node' = node /\ agent' = agent /\ job' = job /\ casts' = casts
        /\ executed' = executed \cup {at} /\ node.step = at
        /\ \/ at + 1 \in Steps /\ pc' = "next" /\ at' = at + 1
           \/ at + 1 \notin Steps /\ pc' = "finish"
    BY <1>3, <1>5 DEF ExecuteSync, Advance, Stay, Working
  <2>2. /\ \A j \in Steps : j < at + 1 => j \in executed'
        /\ at + 1 \notin Steps => executed' = Steps
    <3>1. \A j \in Steps : j < at + 1 => j < at \/ j = at
      BY <1>1, StepsAreNumbers
    <3>2. Len(Plan) \in Nat
      BY CleaningAssumption
    <3>3. at + 1 \notin Steps => \A j \in Steps : j < at + 1
      BY <1>1, <3>2 DEF Steps
    <3>4. \A j \in Steps : j < at + 1 => j \in executed'
      BY <1>2, <2>1, <3>1 DEF Before
    <3>5. executed' \subseteq Steps
      BY <1>1, <1>2, <2>1
    <3> QED
      BY <3>3, <3>4, <3>5
  <2>3. OnTrack'
    BY <1>1, <2>1 DEF OnTrack, Before
  <2>4. GoesOn'
    BY <1>2, <2>1, <2>2 DEF GoesOn, Before
  <2>5. ~Waits'
    BY <1>1, <2>1 DEF Waits
  <2> QED
    BY <2>3, <2>4, <2>5 DEF Progress
<1>6. CASE ExecuteFails
  BY <1>6, ExecuteSteps, LeavingStep DEF ExecuteFails, Release
<1>7. CASE ExecuteInAgent
  <2>1. /\ pc' = "park" /\ UNCHANGED <<job, casts, executed>> /\ node.step = at
        /\ node.skip = TRUE /\ node.polling = FALSE
    BY <1>1, <1>2, <1>3, <1>7 DEF ExecuteInAgent, Stay, Working, history, Inv, NodeRows
  <2>2. node'.step = node.step /\ node'.index = node.index /\ node'.polling = FALSE
    BY <1>7, <2>1, ExecuteSteps
  <2>3. \/ agent' = [is |-> "busy", cmd |-> at]
        \/ node'.skip = FALSE /\ agent' = agent
    BY <1>7, ExecuteSteps
  <2>4. OnTrack'
    BY <1>1, <2>1, <2>2, <2>3 DEF OnTrack, Before
  <2>5. Polled'
    BY <1>2, <2>1 DEF Polled
  <2>6. Asked'
    BY <1>2, <1>3, <2>1, <2>2, <2>3 DEF Asked
  <2>7. ~Goes'
    BY <2>1 DEF Goes
  <2> QED
    BY <2>4, <2>5, <2>6, <2>7 DEF Progress
<1>8. CASE ExecutePolled
  <2>1. /\ pc' = "park" /\ casts' = casts /\ executed' = executed /\ node.step = at
        /\ job' = [step |-> at, over |-> FALSE] /\ agent' = Booting
    BY <1>3, <1>8 DEF ExecutePolled, Stay, Working, history
  <2>2. job'.step = at /\ job'.over = FALSE /\ agent'.is = "booting"
    BY <2>1 DEF Booting
  <2>3. node'.step = node.step /\ node'.index = node.index /\ node'.polling = TRUE
    BY <1>8, ExecuteSteps
  <2>4. OnTrack'
    BY <1>1, <2>1, <2>2, <2>3 DEF OnTrack, Before
  <2>5. Polled'
    BY <1>2, <1>3, <2>1, <2>2, <2>3 DEF Polled
  <2>6. Asked'
    BY <2>2, <2>3 DEF Asked
  <2>7. ~Goes'
    BY <2>1 DEF Goes
  <2> QED
    BY <2>4, <2>5, <2>6, <2>7 DEF Progress
<1>9. CASE ExecuteReserved
  <2>1. /\ pc' \in {"idle", "asleep"} /\ UNCHANGED <<agent, job, casts>> /\ node.step = at
        /\ executed' = executed \cup {at}
    BY <1>3, <1>9 DEF ExecuteReserved, Stay, Release, Working
  <2>2. node'.step = node.step /\ SameFlags(node, node')
    BY <1>9, ExecuteSteps, SteadyFlags
  <2>3. OnTrack'
    BY <1>1, <2>1, <2>2 DEF OnTrack, Before, SameFlags
  <2>4. Polled'
    BY <1>2, <2>1 DEF Polled
  <2>5. Asked'
    BY <1>2, <1>3, <2>1, <2>2 DEF Asked, SameFlags
  <2>6. ~Goes'
    BY <2>1 DEF Goes
  <2> QED
    BY <2>3, <2>4, <2>5, <2>6 DEF Progress
<1> QED
  BY <1>4, <1>5, <1>6, <1>7, <1>8, <1>9

LEMMA ProgressEnd ==
    ASSUME Inv, Progress, Park \/ WakeUp \/ FinishCleaning \/ AbortCleaning \/ CleanUpFailed
    PROVE  Progress'
<1>1. CASE Park
  <2>1. Waits /\ pc' = "idle" /\ UNCHANGED <<job, casts, executed, agent>>
    BY <1>1 DEF Park, Working, Release, Waits, history
  <2>2. node'.step = node.step /\ SameFlags(node, node')
    BY <1>1, EndSteps, SteadyFlags
  <2> QED
    BY <2>1, <2>2, WaitingStep
<1>2. CASE WakeUp \/ FinishCleaning \/ AbortCleaning \/ CleanUpFailed
  <2>1. pc' = "idle"
    BY <1>2 DEF WakeUp, FinishCleaning, AbortCleaning, CleanUpFailed, Release
  <2>2. node'.state \in {"cleaning", "manageable", "available", "clean failed"}
    BY <1>2, EndSteps DEF SteadyTo
  <2> QED
    BY <2>1, <2>2, LeavingStep
<1> QED
  BY <1>1, <1>2

LEMMA ProgressHeartbeat ==
    ASSUME Inv, Progress, Heartbeats \/ HeartbeatBreaks
    PROVE  Progress'
<1>0. node \in NodeRows
  BY DEF Inv
<1>1. CASE HeartbeatInMaintenance \/ HeartbeatStepFailed \/ HeartbeatBreaks
  <2>1. HeartbeatFails /\ node'.state = "clean failed"
    BY <1>1, HeartbeatSteps
  <2>2. pc' = "idle"
    BY <2>1 DEF HeartbeatFails, Heartbeat, Inv, Discipline
  <2> QED
    BY <2>1, <2>2, LeavingStep
<1>2. CASE HeartbeatFirst \/ HeartbeatFresh \/ HeartbeatDone \/ HeartbeatMismatch
  <2>1. /\ Waits /\ pc' = "continue" /\ node'.state = "cleaning"
        /\ UNCHANGED <<agent, executed, job, casts>>
    BY <1>2, HeartbeatSteps DEF Waits, Acquire, history
  <2>2. OnTrack /\ Polled /\ Asked
    BY <2>1 DEF Progress
  <2>3. CASE HeartbeatFirst
    <3>1. node.step = 0 /\ node'.step = 0 /\ node'.index = 0
      BY <2>3, HeartbeatSteps
    <3>2. agent.is # "busy" /\ job.step = 0 /\ casts = 0
      BY <2>2, <3>1, Current DEF Polled, Asked
    <3> QED
      BY <2>1, <3>1, <3>2, ResumingStep
  <2>4. CASE HeartbeatFresh \/ HeartbeatDone
    <3>1. /\ node.step # 0 /\ ~node.polling
          /\ agent.is = "fresh" \/ (agent.is = "ok" /\ agent.cmd = node.step)
      BY <2>4 DEF HeartbeatFresh, HeartbeatDone
    <3>2. node'.step = node.step /\ node'.index = node.index /\ node'.skip = node.skip
      BY <2>4, HeartbeatSteps DEF SameFlags
    <3>3. agent.is # "busy" /\ job.step = 0 /\ casts = 0
      BY <2>2, <3>1, Current DEF Polled
    <3>4. node.skip => node.step \in executed
      BY <2>2, <3>1 DEF Asked, OnTrack
    <3> QED
      BY <2>1, <3>2, <3>3, <3>4, ResumingStep
  <2>5. CASE HeartbeatMismatch
    <3>1. ~node.polling /\ agent.is = "mismatch"
      BY <2>5 DEF HeartbeatMismatch
    <3>2. agent.is # "busy" /\ job.step = 0 /\ casts = 0
      BY <2>2, <3>1, Current DEF Polled
    <3>3. \/ node'.step = 0 /\ node'.index = 0
          \/ node'.step = node.step /\ node'.index = node.index /\ ~node'.skip
      BY <2>5, HeartbeatSteps
    <3> QED
      BY <2>1, <3>2, <3>3, ResumingStep
  <2> QED
    BY <1>2, <2>3, <2>4, <2>5
<1>3. CASE HeartbeatReboots
  <2>1. /\ Waits /\ node.step # 0 /\ ~node.polling /\ agent.is = "ok" /\ agent.cmd = node.step
        /\ agent' = Booting /\ UNCHANGED <<job, casts, executed, pc, lock>> /\ lock = "free"
    BY <1>3 DEF HeartbeatReboots, Heartbeat, Waits, history
  <2>2. /\ node'.step = node.step /\ node'.index = node.index /\ node'.skip = node.skip
        /\ node'.polling = FALSE
    BY <1>3, HeartbeatSteps
  <2>3. OnTrack /\ Polled /\ node.step \in executed
    BY <2>1 DEF Progress, OnTrack
  <2>4. agent'.is = "booting"
    BY <2>1 DEF Booting
  <2>5. OnTrack'
    BY <2>1, <2>2, <2>3, <2>4 DEF OnTrack, Before
  <2>6. Polled'
    BY <2>1, <2>2, <2>3 DEF Polled
  <2>7. Asked'
    BY <2>1, <2>2, <2>3, <2>4 DEF Asked
  <2>8. ~Goes'
    BY <2>1 DEF Goes, Inv, Discipline
  <2> QED
    BY <2>5, <2>6, <2>7, <2>8 DEF Progress
<1> QED
  BY <1>1, <1>2, <1>3 DEF Heartbeats

LEMMA ProgressConductor ==
    ASSUME Inv, Progress, Conductor \/ CheckCleanwaitTimeouts
    PROVE  Progress'
<1>1. CASE ContinueNodeClean
  <2>1. casts > 0 /\ casts' = casts - 1 /\ UNCHANGED <<agent, job, executed>>
    BY <1>1 DEF ContinueNodeClean, history
  <2>2. CASE /\ node.state = "clean wait" /\ SteadyTo(node, node', "cleaning")
             /\ Acquire("continue")
    <3>1. Waits /\ OnTrack /\ Polled /\ Asked
      BY <2>2 DEF Waits, Progress
    <3>2. casts = 1 /\ job.step = 0 /\ node.step \in executed /\ node.polling /\ node.step # 0
      BY <2>1, <3>1 DEF Polled
    <3>3. agent.is # "busy" /\ casts' = 0
      BY <2>1, <3>1, <3>2 DEF Asked
    <3>4. node'.step = node.step /\ node'.index = node.index /\ node'.state = "cleaning"
      BY <2>2, SteadyFlags DEF SameFlags
    <3>5. pc' = "continue"
      BY <2>2 DEF Acquire
    <3> QED
      BY <2>1, <3>1, <3>2, <3>3, <3>4, <3>5, ResumingStep
  <2>3. CASE SteadyTo(node, node', "cleaning") /\ Briefly
    <3>1. node'.state = "cleaning" /\ pc' = "idle"
      BY <2>3, FreeMeansIdle DEF SteadyTo
    <3> QED
      BY <3>1, LeavingStep
  <2>4. CASE node' = node /\ Briefly
    <3>1. pc' = "idle" /\ pc = "idle"
      BY <2>4, FreeMeansIdle
    <3>2. ASSUME Waits' PROVE OnTrack' /\ Polled' /\ Asked'
      <4>1. OnTrack /\ Polled /\ Asked
        BY <2>4, <3>1, <3>2 DEF Waits, Progress
      <4>2. casts = 1
        BY <2>1, <4>1 DEF Polled
      <4>3. OnTrack' /\ Asked'
        BY <2>1, <2>4, <4>1 DEF OnTrack, Before, Asked
      <4>4. Polled'
        BY <2>1, <2>4, <4>1, <4>2 DEF Polled
      <4> QED
        BY <4>3, <4>4
    <3>3. ~Goes'
      BY <3>1 DEF Goes
    <3> QED
      BY <3>2, <3>3 DEF Progress
  <2> QED
    BY <1>1, <2>2, <2>3, <2>4, ConductorSteps
<1>2. CASE QueryJobStatus
  <2>1. /\ node' = node /\ node.state = "clean wait" /\ job.step # 0
        /\ job'.step = 0 /\ UNCHANGED <<agent, executed>> /\ pc' = "idle"
    BY <1>2, FreeMeansIdle DEF QueryJobStatus, NoJob, history
  <2>0. job.over /\ (node.step # 0 => casts' = casts + 1)
    BY <1>2 DEF QueryJobStatus
  <2>2. OnTrack /\ Polled /\ Asked
    <3>1. Waits
      BY <2>1 DEF Waits
    <3> QED
      BY <3>1 DEF Progress
  <2>3. node.polling = TRUE /\ node.step # 0 /\ node.step \in executed /\ casts = 0
    <3>1. casts \in Nat /\ node.polling \in BOOLEAN
      BY Current DEF NodeRows
    <3>0. job.step # 0
      BY <2>1
    <3>2. casts = 0
      BY <2>2, <3>0, <3>1 DEF Polled
    <3> QED
      BY <2>0, <2>1, <2>2, <3>1, <3>2 DEF Polled
  <2>4. job'.step = 0 /\ casts' = 1
    <3>1. casts + 1 = 1
      BY <2>3
    <3>2. casts' = casts + 1 /\ job'.step = 0
      BY <2>0, <2>1, <2>3
    <3> QED
      BY <3>1, <3>2
  <2>5. OnTrack' /\ Asked'
    BY <2>1, <2>2 DEF OnTrack, Before, Asked
  <2>6. Polled'
    BY <2>1, <2>3, <2>4 DEF Polled
  <2>7. ~Goes'
    BY <2>1 DEF Goes
  <2> QED
    BY <2>5, <2>6, <2>7 DEF Progress
<1>3. CASE DiscardFailedJob
  <2>1. node' = node /\ node.state = "clean failed" /\ pc' = "idle"
    BY <1>3, FreeMeansIdle DEF DiscardFailedJob
  <2> QED
    BY <2>1, LeavingStep
<1>4. CASE CheckCleanwaitTimeouts
  <2>1. node'.state = "clean failed"
    BY <1>4, ConductorSteps DEF SteadyTo
  <2>2. pc' \in {"idle", "cleanup"}
    BY <1>4, FreeMeansIdle DEF CheckCleanwaitTimeouts, Acquire
  <2> QED
    BY <2>1, <2>2, LeavingStep
<1> QED
  BY <1>1, <1>2, <1>3, <1>4 DEF Conductor

LEMMA ProgressRecover ==
    ASSUME Inv, Progress, Recover \/ Crash
    PROVE  Progress'
<1>1. SameFlags(node, node) /\ UNCHANGED <<agent, job, casts, executed>>
  BY DEF SameFlags, Recover, Crash, Restart, CorrectStuckStates, CheckOrphanNodes,
     CleanUpOrphan, history
<1>2. CASE node' = node /\ UNCHANGED <<pc, at>>
  BY <1>1, <1>2, AsideStep
<1>3. CASE Crash /\ pc' = "idle" /\ at' = 0 /\ lock = "held"
  <2>1. node' = node
    BY <1>3 DEF Crash
  <2>2. CASE node.state \in {"clean wait", "clean hold"}
    BY <1>1, <1>3, <2>1, <2>2, WaitingStep DEF Waits
  <2>3. CASE node.state \notin {"clean wait", "clean hold"}
    BY <1>3, <2>1, <2>3, LeavingStep
  <2> QED
    BY <2>2, <2>3
<1>4. CASE /\ node.state = "cleaning" /\ node' = Fired(node, "fail", NoState)
           /\ pc' = "cleanup" \/ (lock = "free" /\ pc' = pc)
  <2>1. node'.state = "clean failed"
    BY <1>4, ConductorSteps DEF SteadyTo
  <2>2. pc' \in {"cleanup", "idle"}
    BY <1>4 DEF Inv, Discipline
  <2> QED
    BY <2>1, <2>2, LeavingStep
<1>5. CASE Recover
  <2>1. \/ node' = node /\ UNCHANGED <<pc, at>>
        \/ /\ node.state = "cleaning" /\ node' = Fired(node, "fail", NoState)
           /\ pc' = "cleanup" \/ (lock = "free" /\ pc' = pc)
    BY <1>5 DEF Recover, Restart, CorrectStuckStates, CheckOrphanNodes, CleanUpOrphan, Acquire
  <2> QED
    BY <1>2, <1>4, <2>1
<1>6. CASE Crash
  <2>1. node' = node
    BY <1>6 DEF Crash
  <2> QED
    BY <1>2, <1>3, <1>6, <2>1 DEF Crash
<1> QED
  BY <1>5, <1>6

LEMMA ProgressHardware ==
    ASSUME Inv, Progress, Undisturbed, Hardware \/ AgentLost
    PROVE  Progress'
<1>1. CASE AgentBoots
  <2>1. /\ agent.is = "booting" /\ agent'.is = "fresh"
        /\ UNCHANGED <<node, pc, at, job, casts, executed>>
    BY <1>1 DEF AgentBoots, history
  <2>2. /\ OnTrack => OnTrack'
        /\ Polled => Polled'
        /\ Asked => Asked'
        /\ GoesOn => GoesOn'
    BY <2>1 DEF OnTrack, Before, Polled, Asked, GoesOn
  <2>3. (Waits' => Waits) /\ (Goes' => Goes)
    BY <2>1 DEF Waits, Goes
  <2> QED
    BY <2>2, <2>3 DEF Progress
<1>2. CASE AgentFinishes
  <2>1. /\ agent.is = "busy" /\ UNCHANGED <<node, pc, at, job, casts>>
        /\ executed \subseteq executed'
        /\ \/ agent'.is = "ok" /\ agent'.cmd = agent.cmd /\ agent.cmd \in executed'
           \/ agent'.is \in {"failed", "mismatch"}
    BY <1>2, Current DEF AgentFinishes, Agents
  <2>2. ~Goes
    BY <2>1 DEF Progress, GoesOn
  <2>3. Waits => node.step # 0 /\ ~node.polling
    BY <2>1 DEF Progress, Asked
  <2>4. OnTrack => OnTrack'
    BY <2>1 DEF OnTrack, Before
  <2>5. Polled => Polled'
    BY <2>1 DEF Polled
  <2>6. Waits => Asked'
    BY <2>1, <2>3 DEF Asked
  <2>7. (Waits' => Waits) /\ ~Goes'
    BY <2>1, <2>2 DEF Waits, Goes
  <2> QED
    BY <2>4, <2>5, <2>6, <2>7 DEF Progress
<1>3. CASE JobFinishes
  <2>1. /\ job.step # 0 /\ job'.step = job.step /\ job'.over = TRUE
        /\ executed' = executed \cup {job.step}
        /\ UNCHANGED <<node, pc, at, casts, agent>>
    BY <1>3, Current DEF JobFinishes, Jobs, Undisturbed
  <2>2. ~Goes
    BY <2>1 DEF Progress, GoesOn
  <2>3. OnTrack => OnTrack'
    BY <2>1 DEF OnTrack, Before
  <2>4. Polled => Polled'
    BY <2>1 DEF Polled
  <2>5. Asked => Asked'
    BY <2>1 DEF Asked
  <2>6. (Waits' => Waits) /\ ~Goes'
    BY <2>1, <2>2 DEF Waits, Goes
  <2> QED
    BY <2>3, <2>4, <2>5, <2>6 DEF Progress
<1>4. CASE AgentLost
  <2>1. agent' = Off /\ UNCHANGED <<node, pc, at, job, casts, executed>>
    BY <1>4 DEF AgentLost, Undisturbed, history
  <2> QED
    BY <2>1, AsideStep DEF SameFlags
<1> QED
  BY <1>1, <1>2, <1>3, <1>4 DEF Hardware

LEMMA ProgressStep ==
    ASSUME Inv, Progress, Tidy, Undisturbed, [Next]_vars
    PROVE  Progress'
<1>1. CASE Worker
  BY <1>1, ProgressStart, ProgressContinue, ProgressExecute, ProgressEnd DEF Worker
<1>2. CASE UNCHANGED vars
  <2>1. UNCHANGED <<node, pc, at, job, casts, executed, agent>>
    BY <1>2 DEF vars, history
  <2> QED
    BY <2>1, AsideStep DEF SameFlags
<1> QED
  BY <1>1, <1>2, ProgressOperator, ProgressHeartbeat, ProgressConductor, ProgressRecover,
     ProgressHardware DEF Next

LEMMA ProgressInvariance == Undisturbed /\ Spec => [](Tidy /\ Progress)
<1> SUFFICES ASSUME Undisturbed PROVE Spec => [](Tidy /\ Progress)
  OBVIOUS
<1>1. Init => Tidy /\ Progress
  <2> SUFFICES ASSUME Init PROVE Tidy /\ Progress
    OBVIOUS
  <2>1. node.state = "manageable" /\ node.step = 0
    BY DEF Init
  <2>2. pc = "idle" /\ job.step = 0 /\ casts = 0 /\ recover = "no"
    BY DEF Init, NoJob
  <2> QED
    BY <2>1, <2>2 DEF Tidy, Nothing, Unbegun, Clean, Progress, Waits, Goes
<1>2. Inv /\ Tidy /\ Progress /\ [Next]_vars => (Tidy /\ Progress)'
  BY TidyStep, ProgressStep
<1> QED
  BY <1>1, <1>2, Invariance, PTL DEF Spec

----------------------------------------------------------------------------
(* The steps are executed in their order *)

\* Undisturbed, a step is executed only when the steps before it are over and
\* the agent is not busy with any: wherever the steps are picked up - by a
\* heartbeat, by a driver that polls, after a hold or a reboot, on a further
\* cleaning - clean_step_index and skip_current_clean_step say what has been
\* done (_get_node_next_steps, continue_node_clean, process_next_step).
THEOREM StepsInTheirOrder == Undisturbed /\ Spec => OneStepAfterTheOther
<1> SUFFICES ASSUME Undisturbed PROVE Spec => OneStepAfterTheOther
  OBVIOUS
<1>1. Progress
        => (Working("execute") /\ pc' # "execute" /\ lock' # "dead"
              => /\ \A k \in Steps : k < at => k \in executed
                 /\ agent.is = "busy" => agent.cmd = at)
  BY DEF Progress, Goes, GoesOn, Before, Working
<1> QED
  BY <1>1, ProgressInvariance, PTL DEF OneStepAfterTheOther

----------------------------------------------------------------------------
(* A node is made available when it has been cleaned *)

\* It becomes available at once, where automated cleaning is switched off, or
\* at the end of the steps.
LEMMA HowAvailable ==
    ASSUME Inv, [Next]_vars, node.state # "available", node'.state = "available"
    PROVE  \/ StartCleaning /\ flow' = "skipped"
           \/ FinishCleaning /\ agent' \in {agent, Off}
<1>1. CASE Operator
  BY <1>1, OperatorSteps DEF Operator, SteadyTo
<1>2. CASE Worker
  <2>1. CASE StartCleaning
    BY <2>1, StartSteps
  <2>2. CASE FinishCleaning
    BY <2>2 DEF FinishCleaning, TornDown
  <2>3. CASE ContinueCleaning
    BY <2>3, ContinueSteps
  <2>4. CASE NextCleanStep \/ ExecuteSync \/ ExecuteFails \/ ExecuteInAgent \/ ExecutePolled
             \/ ExecuteReserved
    BY <2>4, ExecuteSteps DEF ExecuteSync, SteadyTo
  <2>5. CASE Park \/ WakeUp \/ AbortCleaning \/ CleanUpFailed
    BY <2>5, EndSteps DEF SteadyTo
  <2> QED
    BY <1>2, <2>1, <2>2, <2>3, <2>4, <2>5 DEF Worker
<1>3. CASE Heartbeats \/ HeartbeatBreaks
  BY <1>3, HeartbeatSteps DEF Heartbeats
<1>4. CASE Conductor \/ CheckCleanwaitTimeouts
  BY <1>4, ConductorSteps DEF Conductor, QueryJobStatus, DiscardFailedJob, SteadyTo
<1>5. CASE Recover \/ Crash
  <2>1. node' = node \/ (node.state = "cleaning" /\ node' = Fired(node, "fail", NoState))
    BY <1>5 DEF Recover, Crash, Restart, CorrectStuckStates, CheckOrphanNodes, CleanUpOrphan
  <2> QED
    BY <2>1, ConductorSteps DEF SteadyTo
<1>6. CASE Hardware \/ AgentLost \/ UNCHANGED vars
  BY <1>6 DEF Hardware, AgentBoots, AgentFinishes, JobFinishes, AgentLost, vars
<1> QED
  BY <1>1, <1>2, <1>3, <1>4, <1>5, <1>6 DEF Next

\* Undisturbed, a node that is made available after an automated cleaning has
\* had every clean step, to its end, and none still runs in the agent: the end
\* of do_next_clean_step is reached with no step left, and not before.
THEOREM AvailableHasBeenCleaned == Undisturbed /\ Spec => AvailableMeansCleaned
<1> SUFFICES ASSUME Undisturbed PROVE Spec => AvailableMeansCleaned
  OBVIOUS
<1>1. ASSUME Inv, Progress, [Next]_vars, node.state # "available", node'.state = "available",
             flow' = "automated"
      PROVE  executed = Steps /\ agent'.is # "busy"
  <2>1. FinishCleaning /\ agent' \in {agent, Off}
    BY <1>1, HowAvailable
  <2>2. executed = Steps /\ agent.is # "busy"
    BY <1>1, <2>1 DEF FinishCleaning, Working, Progress, Goes, GoesOn
  <2>3. Off.is = "off"
    BY DEF Off
  <2> QED
    BY <2>1, <2>2, <2>3
<1> QED
  BY <1>1, Invariance, ProgressInvariance, PTL DEF Spec, AvailableMeansCleaned

----------------------------------------------------------------------------
(* A step that fails is quarantined *)

\* What lets a node fail without a worker that handles the failure, and is
\* excluded here: no worker for the callback timeout, and the recovery of a
\* node whose conductor has died.
Handled == ~May("no worker") /\ ~May("restart") /\ ~May("takeover")

FaultMeansMaintenance == node.fault => node.maintenance
NoRecovery == recover = "no"

LEMMA NoRecoveryStep ==
    ASSUME NoRecovery, Handled, [Next]_vars
    PROVE  NoRecovery'
<1> USE DEF NoRecovery
<1>1. CASE Operator
  BY <1>1 DEF Operator, DoNodeClean, Provide, Begin, Manage, Unhold, DoAbort, UpdateMaintenance
<1>2. CASE Worker
  BY <1>2 DEF Worker, StartCleaning, ContinueCleaning, NextCleanStep, ExecuteSync, ExecuteFails,
     ExecuteInAgent, ExecutePolled, ExecuteReserved, Park, WakeUp, FinishCleaning, AbortCleaning,
     CleanUpFailed
<1>3. CASE Heartbeats \/ HeartbeatBreaks
  BY <1>3 DEF Heartbeats, HeartbeatInMaintenance, HeartbeatStepFailed, HeartbeatBreaks,
     HeartbeatFails, HeartbeatFirst, HeartbeatFresh, HeartbeatDone, HeartbeatReboots,
     HeartbeatMismatch, HeartbeatContinues
<1>4. CASE Conductor \/ CheckCleanwaitTimeouts
  BY <1>4 DEF Conductor, ContinueNodeClean, QueryJobStatus, DiscardFailedJob,
     CheckCleanwaitTimeouts
<1>5. CASE Recover \/ Crash
  BY <1>5 DEF Recover, Crash, Restart, CorrectStuckStates, CheckOrphanNodes, CleanUpOrphan,
     Handled
<1>6. CASE Hardware \/ AgentLost \/ UNCHANGED vars
  BY <1>6 DEF Hardware, AgentBoots, AgentFinishes, JobFinishes, AgentLost, vars
<1> QED
  BY <1>1, <1>2, <1>3, <1>4, <1>5, <1>6 DEF Next

\* The node, or the lock, was not at rest in a failed cleaning; now it is, and
\* the agent still executes the step the node was at.
FailsWhileBusy ==
    /\ node.state # "clean failed" \/ lock # "free"
    /\ node'.state = "clean failed" /\ lock' = "free"
    /\ agent'.is = "busy" /\ agent.cmd = node.step

LEMMA FailureStep ==
    ASSUME Inv, Progress, FaultMeansMaintenance, NoRecovery, Handled, [Next]_vars,
           FailsWhileBusy
    PROVE  node'.maintenance
<1>0. Off.is = "off" /\ Booting.is = "booting"
  BY DEF Off, Booting
<1>1. ~(node'.state = node.state /\ lock' = lock)
  BY DEF FailsWhileBusy
<1>2. ASSUME Cleared(node, node'), agent' \in {agent, Off, Booting} PROVE node'.maintenance
  <2>1. agent.is = "busy"
    BY <1>0, <1>2 DEF FailsWhileBusy
  <2>2. node.step # 0
    BY <2>1, Current, StepsAreNumbers DEF FailsWhileBusy
  <2> QED
    BY <1>2, <2>2 DEF Cleared
<1>3. CASE Operator
  <2>1. ~(DoNodeClean \/ Provide \/ Manage \/ Unhold)
    BY OperatorSteps DEF FailsWhileBusy, SteadyTo
  <2>2. ~UpdateMaintenance
    BY <1>1, OperatorSteps DEF UpdateMaintenance, Briefly
  <2>3. ~DoAbort
    BY <1>1, OperatorSteps DEF FailsWhileBusy, Acquire, Briefly, SteadyTo
  <2> QED
    BY <1>3, <2>1, <2>2, <2>3 DEF Operator
<1>4. CASE Worker
  <2>1. CASE StartCleaning
    <3>1. Cleared(node, node') /\ agent' \in {agent, TornDown(node')}
      BY <2>1, StartSteps DEF FailsWhileBusy
    <3> QED
      BY <1>2, <3>1, TornDownAgent
  <2>2. CASE ContinueCleaning
    <3>1. lock = "held"
      BY <2>2 DEF ContinueCleaning, Working
    <3>2. Cleared(node, node') /\ agent' = TornDown(node')
      BY <2>2, <3>1, ContinueSteps DEF FailsWhileBusy, Stay
    <3> QED
      BY <1>2, <3>2, TornDownAgent
  <2>3. CASE ExecuteFails
    BY <1>2, <2>3, ExecuteSteps, TornDownAgent DEF ExecuteFails
  <2>4. CASE NextCleanStep \/ ExecuteSync \/ ExecuteInAgent \/ ExecutePolled
    <3>1. node'.state = node.state
      BY <2>4, ExecuteSteps DEF ExecuteSync
    <3>2. lock' = lock
      BY <2>4 DEF NextCleanStep, ExecuteSync, Advance, ExecuteInAgent, ExecutePolled, Stay
    <3> QED
      BY <1>1, <3>1, <3>2
  <2>5. CASE ExecuteReserved \/ Park \/ WakeUp
    BY <2>5, ExecuteSteps, EndSteps DEF FailsWhileBusy, SteadyTo
  <2>6. CASE FinishCleaning
    <3>1. agent.is # "busy"
      BY <2>6 DEF FinishCleaning, Working, Progress, Goes, GoesOn
    <3>2. agent' \in {agent, Off}
      BY <2>6 DEF FinishCleaning, TornDown
    <3> QED
      BY <1>0, <3>1, <3>2 DEF FailsWhileBusy
  <2>7. CASE AbortCleaning
    <3>1. CASE Cleared(node, node')
      <4>1. agent' \in {agent, TornDown(node)}
        BY <2>7 DEF AbortCleaning
      <4> QED
        BY <1>2, <3>1, <4>1, TornDownAgent
    <3>2. CASE SameFault(node, node') /\ agent' = TornDown(node)
      <4>1. node.fault
        BY <1>0, <3>2 DEF FailsWhileBusy, TornDown
      <4> QED
        BY <3>2, <4>1 DEF FaultMeansMaintenance, SameFault
    <3> QED
      BY <2>7, <3>1, <3>2, EndSteps
  <2>8. CASE CleanUpFailed
    BY <1>2, <2>8, EndSteps, TornDownAgent DEF CleanUpFailed
  <2> QED
    BY <1>4, <2>1, <2>2, <2>3, <2>4, <2>5, <2>6, <2>7, <2>8 DEF Worker
<1>5. CASE Heartbeats \/ HeartbeatBreaks
  <2>1. CASE HeartbeatInMaintenance \/ HeartbeatStepFailed \/ HeartbeatBreaks
    BY <1>2, <2>1, HeartbeatSteps, TornDownAgent
  <2>2. ~(HeartbeatFirst \/ HeartbeatFresh \/ HeartbeatDone \/ HeartbeatMismatch)
    BY HeartbeatSteps DEF FailsWhileBusy
  <2>3. ~HeartbeatReboots
    BY <1>1, HeartbeatSteps DEF HeartbeatReboots
  <2> QED
    BY <1>5, <2>1, <2>2, <2>3 DEF Heartbeats
<1>6. CASE Conductor
  <2>1. \/ node' = node /\ lock' = lock
        \/ node'.state = "cleaning"
    BY <1>6, ConductorSteps
    DEF Conductor, QueryJobStatus, DiscardFailedJob, Briefly, SteadyTo
  <2> QED
    BY <1>1, <2>1 DEF FailsWhileBusy
<1>7. CASE CheckCleanwaitTimeouts \/ Crash
  BY <1>7 DEF CheckCleanwaitTimeouts, Crash, Acquire, Handled, NoRecovery, FailsWhileBusy
<1>8. CASE Recover
  BY <1>8
  DEF Recover, Restart, CorrectStuckStates, CheckOrphanNodes, CleanUpOrphan, Handled, NoRecovery
<1>9. CASE Hardware \/ AgentLost \/ UNCHANGED vars
  <2>1. node' = node /\ lock' = lock
    BY <1>9 DEF Hardware, AgentBoots, AgentFinishes, JobFinishes, AgentLost, vars
  <2> QED
    BY <1>1, <2>1
<1> QED
  BY <1>3, <1>4, <1>5, <1>6, <1>7, <1>8, <1>9 DEF Next

\* Undisturbed, a cleaning that fails while the agent executes its step leaves
\* the node in maintenance when the failure has been handled, whichever way it
\* failed: an error of the agent, the callback timeout, an abort, a heartbeat
\* in maintenance (cleaning_error_handler).
THEOREM FailedStepMeansMaintenance ==
    Undisturbed /\ Handled /\ Spec => FailedStepIsQuarantined
<1> SUFFICES ASSUME Undisturbed, Handled PROVE Spec => FailedStepIsQuarantined
  OBVIOUS
<1>1. Init => FaultMeansMaintenance /\ NoRecovery
  BY DEF Init, FaultMeansMaintenance, NoRecovery
<1>2. Inv /\ FaultMeansMaintenance /\ NoRecovery /\ [Next]_vars
        => (FaultMeansMaintenance /\ NoRecovery)'
  BY FaultStep, NoRecoveryStep DEF FaultKept, FaultMeansMaintenance
<1>3. Inv /\ Progress /\ FaultMeansMaintenance /\ NoRecovery /\ [Next]_vars
        => (FailsWhileBusy => node'.maintenance)
  BY FailureStep
<1> QED
  BY <1>1, <1>2, <1>3, Invariance, ProgressInvariance, PTL
  DEF Spec, FailedStepIsQuarantined, FailsWhileBusy

=============================================================================

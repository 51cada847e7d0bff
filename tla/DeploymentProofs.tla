-------------------------- MODULE DeploymentProofs --------------------------
(***************************************************************************)
(* What holds of Deployment for every plan of deploy steps.                *)
(***************************************************************************)
EXTENDS Deployment, FiniteSetTheorems, TLAPS

----------------------------------------------------------------------------
(* Places in a list *)

\* A family of subsets of a finite set has a member that contains no other.
Family(F, S) == IsFiniteSet(S) /\ F \subseteq SUBSET S /\ F # {}
HasSmallest(F) == \E U \in F : \A V \in F : V \subseteq U => V = U

LEMMA SmallestSet ==
    ASSUME NEW S, NEW F, Family(F, S)
    PROVE  HasSmallest(F)
<1>1. F \subseteq FiniteSubsetsOf(S) /\ F # {} /\ IsFiniteSet(S)
  BY FS_Subset DEF FiniteSubsetsOf, Family
<1>2. IsWellFoundedOn(StrictSubsetOrdering(S), FiniteSubsetsOf(S))
  BY FS_StrictSubsetOrderingWellFounded
<1>3. PICK U \in F : \A V \in F : <<V, U>> \notin StrictSubsetOrdering(S)
  BY <1>1, <1>2, WFMin
<1> QED
  BY <1>1, <1>3 DEF StrictSubsetOrdering, HasSmallest, FiniteSubsetsOf

\* The elements from a given one on, and up to a given one.
From(S, k) == {j \in S : j >= k}
UpTo(S, k) == {j \in S : j <= k}

LEMMA LastOne ==
    ASSUME NEW S, IsFiniteSet(S), S \subseteq Nat, S # {}
    PROVE  \E m \in S : \A k \in S : k <= m
<1>1. PICK F : F = {From(S, k) : k \in S}
  OBVIOUS
<1>2. F \subseteq SUBSET S
  BY <1>1 DEF From
<1>3. F # {}
  BY <1>1
<1>4. HasSmallest(F)
  <2>1. Family(F, S)
    BY <1>2, <1>3 DEF Family
  <2> QED
    BY <2>1, SmallestSet
<1>5. PICK m \in S : \A V \in F : V \subseteq From(S, m) => V = From(S, m)
  BY <1>1, <1>4 DEF HasSmallest
<1>6. ASSUME NEW k \in S, ~(k <= m) PROVE FALSE
  <2>1. From(S, k) \in F
    BY <1>1
  <2>2. m \in Nat /\ k \in Nat
    OBVIOUS
  <2>3. From(S, k) \subseteq From(S, m)
    <3>1. ASSUME NEW j \in S, j >= k PROVE j >= m
      BY <1>6, <2>2, <3>1
    <3> QED
      BY <3>1 DEF From
  <2>4. m \in From(S, m) /\ m \notin From(S, k)
    BY <1>6, <2>2 DEF From
  <2> QED
    BY <1>5, <2>1, <2>3, <2>4
<1> QED
  BY <1>6

LEMMA PlaceExists ==
    ASSUME NEW S, IsFiniteSet(S), S \subseteq Nat, NEW i \in 1..Cardinality(S)
    PROVE  \E k \in S : Cardinality(UpTo(S, k)) = i
<1>1. \A k \in S : IsFiniteSet(UpTo(S, k)) /\ Cardinality(UpTo(S, k)) \in Nat
  BY FS_Subset, FS_CardinalityType DEF UpTo
<1>2. PICK G : G = {k \in S : Cardinality(UpTo(S, k)) >= i}
  OBVIOUS
<1>3. PICK F : F = {UpTo(S, k) : k \in G}
  OBVIOUS
<1>4. F \subseteq SUBSET S
  BY <1>2, <1>3 DEF UpTo
<1>5. G # {}
  <2>1. S # {} /\ Cardinality(S) \in Nat
    BY FS_EmptySet, FS_CardinalityType
  <2>2. PICK m \in S : \A k \in S : k <= m
    BY <2>1, LastOne
  <2>3. UpTo(S, m) = S
    BY <2>2 DEF UpTo
  <2> QED
    BY <1>2, <2>1, <2>2, <2>3
<1>6. F # {}
  BY <1>3, <1>5
<1>7. HasSmallest(F)
  <2>1. Family(F, S)
    BY <1>4, <1>6 DEF Family
  <2> QED
    BY <2>1, SmallestSet
<1>8. PICK m \in G : \A V \in F : V \subseteq UpTo(S, m) => V = UpTo(S, m)
  BY <1>3, <1>7 DEF HasSmallest
<1>9. m \in S /\ Cardinality(UpTo(S, m)) >= i
  BY <1>2
<1>10. ASSUME Cardinality(UpTo(S, m)) # i PROVE FALSE
  <2> DEFINE W == UpTo(S, m) \ {m}
  <2>1. m \in UpTo(S, m) /\ IsFiniteSet(UpTo(S, m))
    BY <1>1, <1>9 DEF UpTo
  <2>2. Cardinality(W) = Cardinality(UpTo(S, m)) - 1 /\ IsFiniteSet(W)
    BY <2>1, FS_RemoveElement
  <2>3. Cardinality(W) >= i
    BY <1>1, <1>9, <1>10, <2>2
  <2>4. W # {} /\ W \subseteq Nat
    <3>1. W \subseteq Nat
      BY DEF UpTo
    <3> QED
      BY <2>3, <3>1, FS_EmptySet
  <2>5. \E k \in W : \A j \in W : j <= k
    <3> HIDE DEF W
    <3> QED
      BY <2>2, <2>4, LastOne
  <2>6. PICK k \in W : \A j \in W : j <= k
    BY <2>5
  <2>7. k \in S /\ UpTo(S, k) = W
    <3>1. k \in S /\ k <= m /\ k # m
      BY DEF UpTo
    <3>2. m \in Nat /\ k \in Nat
      BY <1>9, <3>1
    <3>3. ASSUME NEW j \in S PROVE j <= k <=> j \in W
      <4>1. j \in Nat
        OBVIOUS
      <4>2. j \in W <=> j <= m /\ j # m
        BY DEF UpTo
      <4> QED
        BY <2>6, <3>1, <3>2, <4>1, <4>2
    <3>4. W \subseteq S
      BY DEF UpTo
    <3> QED
      BY <3>1, <3>3, <3>4 DEF UpTo
  <2>8. W \in F
    BY <1>2, <1>3, <2>3, <2>7
  <2>9. m \notin W
    OBVIOUS
  <2> QED
    BY <1>8, <2>1, <2>8, <2>9
<1> QED
  BY <1>9, <1>10

LEMMA StepsAreNumbers ==
    /\ Len(Plan) \in Nat /\ Steps \subseteq Nat \ {0} /\ 1 \in Steps
    /\ \A k \in Nat \ {0} : k <= Len(Plan) => k \in Steps
BY DeploymentAssumption DEF Steps

LEMMA ListsAreShort ==
    ASSUME NEW list \in SUBSET Steps
    PROVE  /\ IsFiniteSet(list) /\ Cardinality(list) \in Nat
           /\ \A i \in 1..Cardinality(list) : i \in Steps
<1>1. IsFiniteSet(Steps) /\ Cardinality(Steps) = Len(Plan)
  <2>1. 1 \in Int /\ Len(Plan) \in Int /\ 1 <= Len(Plan)
    BY DeploymentAssumption
  <2> QED
    BY <2>1, FS_Interval DEF Steps
<1>2. IsFiniteSet(list) /\ Cardinality(list) <= Cardinality(Steps)
  BY <1>1, FS_Subset
<1>3. Cardinality(list) \in Nat
  BY <1>2, FS_CardinalityType
<1>4. Cardinality(list) <= Len(Plan) /\ Len(Plan) \in Nat
  BY <1>1, <1>2, StepsAreNumbers
<1>5. ASSUME NEW i \in 1..Cardinality(list)
      PROVE  i \in Steps
  BY <1>3, <1>4 DEF Steps
<1> QED
  BY <1>2, <1>3, <1>5

\* The step with a given index is in the list, and it is a step of the plan.
LEMMA StepIsListed ==
    ASSUME NEW list \in SUBSET Steps, NEW i \in 1..Cardinality(list)
    PROVE  /\ StepAt(list, i) \in list
           /\ Cardinality(UpTo(list, StepAt(list, i))) = i
<1>1. IsFiniteSet(list) /\ list \subseteq Nat
  BY ListsAreShort, StepsAreNumbers
<1>2. \E k \in list : Cardinality(UpTo(list, k)) = i
  BY <1>1, PlaceExists
<1> QED
  BY <1>2 DEF StepAt, UpTo

----------------------------------------------------------------------------
(* Events *)

LEMMA SuccessorIs ==
    ASSUME NEW s \in States, NEW e, NEW t, <<e, t>> \in Moves(s)
    PROVE  Successor(s, e) = t /\ Allowed(s, e)
<1> DEFINE u == Successor(s, e)
<1>1. <<e, t>>[1] = e /\ <<e, t>>[2] = t /\ <<e, u>>[1] = e /\ <<e, u>>[2] = u
  OBVIOUS
<1>2. t \in States
  BY <1>1, TransitionsAreAFunction
<1>3. <<e, u>> \in Moves(s)
  BY <1>2 DEF Successor
<1> HIDE DEF u
<1>4. u = t
  BY <1>1, <1>3, TransitionsAreAFunction
<1> QED
  BY <1>2, <1>4 DEF Allowed, u

LEMMA MovesOfDeployment ==
    /\ Moves("available") = {<<"deploy", "deploying">>, <<"manage", "manageable">>}
    /\ Moves("deploying") =
          {<<"fail", "deploy failed">>, <<"wait", "wait call-back">>,
           <<"hold", "deploy hold">>, <<"done", "active">>}
    /\ Moves("deploy failed") =
          {<<"rebuild", "deploying">>, <<"deploy", "deploying">>, <<"delete", "deleting">>}
    /\ Moves("wait call-back") =
          {<<"hold", "deploy hold">>, <<"resume", "deploying">>,
           <<"fail", "deploy failed">>, <<"abort", "deploy failed">>,
           <<"delete", "deleting">>}
    /\ Moves("deploy hold") =
          {<<"unhold", "wait call-back">>, <<"abort", "deploy failed">>}
    /\ Moves("active") =
          {<<"rebuild", "deploying">>, <<"delete", "deleting">>,
           <<"rescue", "rescuing">>, <<"service", "servicing">>}
    /\ Moves("deleting") = {<<"fail", "error">>, <<"clean", "cleaning">>}
    /\ Moves("cleaning") =
          {<<"done", "available">>, <<"fail", "clean failed">>,
           <<"wait", "clean wait">>, <<"hold", "clean hold">>,
           <<"manage", "manageable">>}
    /\ Moves("error") = {<<"rebuild", "deploying">>, <<"delete", "deleting">>}
BY DEF Moves

RowStates == {"available", "active", "deleting", "error", "cleaning"} \cup DeployStates

LEMMA RowStatesAreStates == RowStates \subseteq States
BY DEF RowStates, States, Stable, CleanStates, DeployStates

\* The events of a deployment, and what they lead to.
Leads(s, e, t) == Successor(s, e) = t /\ Allowed(s, e)

LEMMA EventsOfDeployment ==
    /\ Leads("deploying", "fail", "deploy failed")
    /\ Leads("deploying", "wait", "wait call-back")
    /\ Leads("deploying", "hold", "deploy hold")
    /\ Leads("deploying", "done", "active")
    /\ Leads("wait call-back", "resume", "deploying")
    /\ Leads("wait call-back", "fail", "deploy failed")
    /\ Leads("wait call-back", "abort", "deploy failed")
    /\ Leads("deploy hold", "unhold", "wait call-back")
    /\ Leads("deploy hold", "abort", "deploy failed")
    /\ Leads("deleting", "fail", "error")
    /\ Leads("deleting", "clean", "cleaning")
    /\ Leads("cleaning", "done", "available")
<1>1. {"deploying", "wait call-back", "deploy hold", "deleting", "cleaning"} \subseteq States
  BY RowStatesAreStates DEF RowStates, DeployStates
<1>2. ASSUME NEW s \in States, NEW e, NEW t, <<e, t>> \in Moves(s)
      PROVE  Leads(s, e, t)
  BY <1>2, SuccessorIs DEF Leads
<1>3. /\ Leads("deploying", "fail", "deploy failed")
      /\ Leads("deploying", "wait", "wait call-back")
      /\ Leads("deploying", "hold", "deploy hold")
      /\ Leads("deploying", "done", "active")
  BY <1>1, <1>2, MovesOfDeployment
<1>4. /\ Leads("wait call-back", "resume", "deploying")
      /\ Leads("wait call-back", "fail", "deploy failed")
      /\ Leads("wait call-back", "abort", "deploy failed")
  BY <1>1, <1>2, MovesOfDeployment
<1>5. /\ Leads("deploy hold", "unhold", "wait call-back")
      /\ Leads("deploy hold", "abort", "deploy failed")
      /\ Leads("deleting", "fail", "error")
      /\ Leads("deleting", "clean", "cleaning")
      /\ Leads("cleaning", "done", "available")
  BY <1>1, <1>2, MovesOfDeployment
<1> QED
  BY <1>3, <1>4, <1>5

\* The requests, and the states they are accepted in.
LEMMA RequestsOfDeployment ==
    ASSUME NEW s \in RowStates
    PROVE  /\ \A e \in {"deploy", "rebuild"} : Allowed(s, e) =>
                  /\ s \in {"available", "deploy failed", "active", "error"}
                  /\ Successor(s, e) = "deploying"
           /\ Allowed(s, "delete") =>
                  /\ s \in {"deploy failed", "wait call-back", "active", "error"}
                  /\ Successor(s, "delete") = "deleting"
<1>1. ASSUME NEW e, NEW t, <<e, t>> \in Moves(s)
      PROVE  Successor(s, e) = t
  BY <1>1, SuccessorIs, RowStatesAreStates
<1>2. CASE s = "available"
  BY <1>1, <1>2, MovesOfDeployment DEF Allowed
<1>3. CASE s = "deploying"
  BY <1>3, MovesOfDeployment DEF Allowed
<1>4. CASE s = "deploy failed"
  BY <1>1, <1>4, MovesOfDeployment DEF Allowed
<1>5. CASE s = "wait call-back"
  BY <1>1, <1>5, MovesOfDeployment DEF Allowed
<1>6. CASE s = "deploy hold"
  BY <1>6, MovesOfDeployment DEF Allowed
<1>7. CASE s = "active"
  BY <1>1, <1>7, MovesOfDeployment DEF Allowed
<1>8. CASE s = "deleting"
  BY <1>8, MovesOfDeployment DEF Allowed
<1>9. CASE s = "cleaning"
  BY <1>9, MovesOfDeployment DEF Allowed
<1>10. CASE s = "error"
  BY <1>1, <1>10, MovesOfDeployment DEF Allowed
<1>11. \/ s \in {"available", "deploying", "deploy failed", "wait call-back", "deploy hold"}
       \/ s \in {"active", "deleting", "cleaning", "error"}
  BY DEF RowStates, DeployStates
<1> QED
  BY <1>2, <1>3, <1>4, <1>5, <1>6, <1>7, <1>8, <1>9, <1>10, <1>11

\* What a node in DEPLOYFAIL cannot do any more.
LEMMA FailedIsFinal ==
    ~Allowed("deploy failed", "fail") /\ ~Allowed("deploy failed", "clean")
BY MovesOfDeployment DEF Allowed

----------------------------------------------------------------------------
(* What the operations make of the row *)

NodeRows == [state : RowStates, instance : Instances \cup {None},
             maintenance : BOOLEAN, step : {0} \cup Steps, abortAfter : BOOLEAN,
             index : {0} \cup Steps, steps : SUBSET Steps, asked : BOOLEAN,
             cached : BOOLEAN, validated : BOOLEAN, skip : BOOLEAN,
             polling : BOOLEAN, rebooting : BOOLEAN]

\* "m" is a row that differs from the row "n" in what a deployment knows of
\* itself only.
SameNode(n, m) ==
    /\ m \in NodeRows
    /\ m.state = n.state /\ m.instance = n.instance /\ m.maintenance = n.maintenance

\* The same, in another state.
Moved(n, m, t) ==
    /\ m \in NodeRows
    /\ m.state = t /\ m.instance = n.instance /\ m.maintenance = n.maintenance

SameStep(n, m) ==
    m.step = n.step /\ (m.abortAfter <=> n.abortAfter)

NoStep(m) == m.step = 0 /\ ~m.abortAfter

LEMMA FiredRow ==
    ASSUME NEW n \in NodeRows, NEW e, NEW t \in RowStates, Successor(n.state, e) = t
    PROVE  Moved(n, Fired(n, e), t) /\ SameStep(n, Fired(n, e))
BY DEF Fired, Moved, SameStep, NodeRows

LEMMA EditedRow ==
    ASSUME NEW n \in NodeRows
    PROVE  /\ SameNode(n, WithoutStep(n)) /\ NoStep(WithoutStep(n))
           /\ SameNode(n, Wiped(n)) /\ SameStep(n, Wiped(n))
           /\ SameNode(n, WithoutStep(Wiped(n))) /\ NoStep(WithoutStep(Wiped(n)))
           /\ SameNode(n, Validated(n)) /\ SameStep(n, Validated(n))
<1>1. ASSUME NEW m \in NodeRows
      PROVE  SameNode(m, WithoutStep(m)) /\ NoStep(WithoutStep(m))
  BY DEF WithoutStep, SameNode, NoStep, NodeRows
<1>2. SameNode(n, Wiped(n)) /\ SameStep(n, Wiped(n))
  BY DEF Wiped, SameNode, SameStep, NodeRows
<1>3. SameNode(n, WithoutStep(Wiped(n))) /\ NoStep(WithoutStep(Wiped(n)))
  BY <1>1, <1>2 DEF SameNode
<1>4. SameNode(n, Validated(n)) /\ SameStep(n, Validated(n))
  <2>1. Known(n) \in SUBSET Steps
    BY DEF Known
  <2>2. CASE n.validated
    BY <2>2 DEF Validated, SameNode, SameStep
  <2>3. CASE ~n.validated
    BY <2>1, <2>3 DEF Validated, SameNode, SameStep, NodeRows
  <2> QED
    BY <2>2, <2>3
<1> QED
  BY <1>1, <1>2, <1>3, <1>4

LEMMA FailedRow ==
    ASSUME NEW n \in NodeRows,
           n.state \in {"deploying", "wait call-back", "deploy failed"}
    PROVE  Moved(n, Failed(n), "deploy failed") /\ NoStep(Failed(n))
<1> DEFINE w == WithoutStep(Wiped(n))
<1>1. SameNode(n, w) /\ NoStep(w)
  BY EditedRow
<1>2. Failed(n) = IF Allowed(w.state, "fail") THEN Fired(w, "fail") ELSE w
  BY DEF Failed
<1> HIDE DEF w
<1>3. "deploy failed" \in RowStates
  BY DEF RowStates, DeployStates
<1>4. CASE n.state = "deploy failed"
  BY <1>1, <1>2, <1>4, FailedIsFinal DEF SameNode, Moved
<1>5. CASE n.state \in {"deploying", "wait call-back"}
  <2>1. Leads(w.state, "fail", "deploy failed")
    BY <1>1, <1>5, EventsOfDeployment DEF SameNode
  <2>2. Moved(w, Failed(n), "deploy failed") /\ SameStep(w, Failed(n))
    BY <1>1, <1>2, <1>3, <2>1, FiredRow DEF SameNode, Leads
  <2> QED
    BY <1>1, <2>2 DEF SameNode, SameStep, NoStep, Moved
<1> QED
  BY <1>4, <1>5

LEMMA BareRow ==
    ASSUME NEW n \in NodeRows
    PROVE  /\ Bare(n) \in NodeRows /\ Bare(n).state = n.state
           /\ Bare(n).instance = None /\ Bare(n).maintenance = n.maintenance
           /\ SameStep(n, Bare(n))
<1> DEFINE w == WithoutStep(Wiped(n))
<1>1. w \in NodeRows /\ w.state = n.state /\ w.maintenance = n.maintenance
  BY EditedRow DEF SameNode
<1>2. Bare(n) = [w EXCEPT !.instance = None, !.step = n.step, !.abortAfter = n.abortAfter]
  BY DEF Bare
<1> HIDE DEF w
<1>3. Bare(n) \in NodeRows
  BY <1>1, <1>2 DEF NodeRows
<1> QED
  BY <1>1, <1>2, <1>3 DEF NodeRows, SameStep

LEMMA NextIndexInBounds ==
    ASSUME NEW n \in NodeRows
    PROVE  NextIndex(n) \in {0} \cup Steps
<1>1. n.steps \in SUBSET Steps /\ n.index \in {0} \cup Steps
  BY DEF NodeRows
<1>2. n.index \in Nat
  <2>1. {0} \cup Steps \subseteq Nat
    BY StepsAreNumbers
  <2> QED
    BY <1>1, <2>1
<1>3. /\ Cardinality(n.steps) \in Nat
      /\ \A i \in 1..Cardinality(n.steps) : i \in Steps
  BY <1>1, ListsAreShort
<1> QED
  BY <1>1, <1>2, <1>3, StepsAreNumbers DEF NextIndex

----------------------------------------------------------------------------
(* Types, and the states in which the holder of the lock works *)

Agents == [is : {"off", "booting"} \cup Up, cmd : {0} \cup Steps]
Jobs == [step : {0} \cup Steps, over : BOOLEAN]
Pcs == {"idle", "start", "continue", "next", "execute", "park", "finish",
        "abort", "cleanup", "delete"}

OthersTyped ==
    /\ lock \in {"free", "held", "dead"}
    /\ pc \in Pcs
    /\ at \in {0} \cup Steps
    /\ agent \in Agents
    /\ job \in Jobs
    /\ casts \in Nat
    /\ recover \in {"no", "boot", "orphan", "down"}
    /\ over \subseteq Steps
    /\ tenants \subseteq Instances
    /\ aborted \in BOOLEAN
    /\ deploys \in 0..MaxDeploys
    /\ crashes \in 0..MaxCrashes
    /\ mismatches \in 0..MaxMismatches

LEMMA Typed == TypeOK <=> node \in NodeRows /\ OthersTyped
BY DEF TypeOK, OthersTyped, NodeRows, RowStates, Agents, Jobs, Pcs

\* The state of the node says what the holder of the lock does, and a step
\* that is started, or that the agent is busy with, is a step of the plan.
Discipline ==
    /\ lock = "held" <=> pc # "idle"
    /\ pc \in {"start", "continue", "next", "execute", "park", "finish"}
         => node.state = "deploying"
    /\ pc \in {"abort", "cleanup"} => node.state = "deploy failed"
    /\ pc = "delete" => node.state \in {"deleting", "deploy failed"}
    /\ pc \in {"next", "execute"} => at \in Steps
    /\ pc = "execute" => node.step \in Steps
    /\ agent.is = "busy" => agent.cmd \in Steps

Inv == node \in NodeRows /\ OthersTyped /\ Discipline

LEMMA AgentAndJob ==
    /\ Off \in Agents /\ Booting \in Agents /\ NoJob \in Jobs
    /\ Off.is # "busy" /\ Booting.is # "busy"
BY DEF Off, Booting, NoJob, Agents, Jobs

LEMMA Bounds == MaxDeploys \in Nat /\ MaxCrashes \in Nat /\ MaxMismatches \in Nat
BY DeploymentAssumption

LEMMA InvInit == Init => Inv
<1> SUFFICES ASSUME Init PROVE Inv
  OBVIOUS
<1>1. node \in NodeRows
  BY DEF Init, NodeRows, RowStates
<1>2. aborted \in BOOLEAN
  BY Zenon DEF Init
<1>3. OthersTyped
  BY <1>2, Bounds, AgentAndJob DEF Init, OthersTyped, Pcs
<1>4. Discipline
  BY DEF Init, Discipline, Off
<1> QED
  BY <1>1, <1>3, <1>4 DEF Inv

----------------------------------------------------------------------------
(* What the actions make of the row *)

LEMMA OperatorRows ==
    ASSUME node \in NodeRows
    PROVE  /\ \A i \in Instances : Claim(i) =>
                 /\ node.state \in {"available", "deploy failed", "error"}
                 /\ node.instance = None /\ node'.instance = i
                 /\ node' \in NodeRows /\ node'.state = node.state
                 /\ node'.abortAfter <=> node.abortAfter
           /\ DoNodeDeploy =>
                 /\ node.state \in {"available", "deploy failed", "active", "error"}
                 /\ Moved(node, node', "deploying") /\ SameStep(node, node')
           /\ DoNodeTearDown =>
                 /\ node.state \in {"deploy failed", "wait call-back", "active", "error"}
                 /\ Moved(node, node', "deleting") /\ SameStep(node, node')
           /\ Unhold => /\ node.state = "deploy hold"
                       /\ Moved(node, node', "wait call-back") /\ SameStep(node, node')
           /\ DoAbort => /\ node.state = "wait call-back"
                        /\ \/ Briefly /\ SameNode(node, node') /\ node'.abortAfter
                           \/ Acquire("abort") /\ Moved(node, node', "deploy failed")
           /\ DoAbortOnHold => /\ node.state = "deploy hold"
                              /\ Moved(node, node', "deploy failed")
           /\ UpdateMaintenance =>
                 /\ node' \in NodeRows /\ node'.state = node.state
                 /\ node'.instance = node.instance /\ SameStep(node, node')
<1>1. /\ {"deploying", "deleting", "wait call-back", "deploy failed"} \subseteq RowStates
      /\ node.state \in RowStates
  BY DEF RowStates, DeployStates, NodeRows
<1>2. ASSUME NEW i \in Instances, Claim(i)
      PROVE  /\ node.state \in {"available", "deploy failed", "error"}
             /\ node.instance = None /\ node'.instance = i
             /\ node' \in NodeRows /\ node'.state = node.state
             /\ node'.abortAfter <=> node.abortAfter
  BY <1>2 DEF Claim, NodeRows
<1>3. ASSUME DoNodeDeploy
      PROVE  /\ node.state \in {"available", "deploy failed", "active", "error"}
             /\ Moved(node, node', "deploying") /\ SameStep(node, node')
  <2>1. PICK e \in {"deploy", "rebuild"} :
           Allowed(node.state, e) /\ node' = Fired(node, e)
    BY <1>3 DEF DoNodeDeploy
  <2> QED
    BY <1>1, <2>1, RequestsOfDeployment, FiredRow
<1>4. ASSUME DoNodeTearDown
      PROVE  /\ node.state \in {"deploy failed", "wait call-back", "active", "error"}
             /\ Moved(node, node', "deleting") /\ SameStep(node, node')
  BY <1>1, <1>4, RequestsOfDeployment, FiredRow DEF DoNodeTearDown
<1>5. ASSUME Unhold
      PROVE  /\ node.state = "deploy hold"
             /\ Moved(node, node', "wait call-back") /\ SameStep(node, node')
  BY <1>1, <1>5, EventsOfDeployment, FiredRow DEF Unhold, Leads
<1>6. ASSUME DoAbort
      PROVE  /\ node.state = "wait call-back"
             /\ \/ Briefly /\ SameNode(node, node') /\ node'.abortAfter
                \/ Acquire("abort") /\ Moved(node, node', "deploy failed")
  <2>1. CASE Briefly /\ node' = [node EXCEPT !.abortAfter = TRUE]
    BY <1>6, <2>1 DEF DoAbort, SameNode, NodeRows
  <2>2. CASE Acquire("abort") /\ node' = Fired(node, "abort")
    BY <1>1, <1>6, <2>2, EventsOfDeployment, FiredRow DEF DoAbort, Leads
  <2> QED
    BY <1>6, <2>1, <2>2 DEF DoAbort
<1>7. ASSUME DoAbortOnHold
      PROVE  node.state = "deploy hold" /\ Moved(node, node', "deploy failed")
  BY <1>1, <1>7, EventsOfDeployment, FiredRow DEF DoAbortOnHold, Leads
<1>8. ASSUME UpdateMaintenance
      PROVE  /\ node' \in NodeRows /\ node'.state = node.state
             /\ node'.instance = node.instance /\ SameStep(node, node')
  <2>1. PICK m \in BOOLEAN : node' = [node EXCEPT !.maintenance = m]
    BY <1>8 DEF UpdateMaintenance
  <2> QED
    BY <2>1 DEF NodeRows, SameStep
<1> QED
  BY <1>2, <1>3, <1>4, <1>5, <1>6, <1>7, <1>8

LEMMA WorkerRows ==
    ASSUME node \in NodeRows
    PROVE  /\ StartDeployment /\ node.state = "deploying" =>
                 \/ /\ SameNode(node, node') /\ NoStep(node')
                    /\ agent' = Off /\ Stay("next", 1)
                 \/ /\ Moved(node, node', "wait call-back") /\ SameStep(node, node')
                    /\ agent' = Booting /\ Release
                 \/ /\ Moved(node, node', "deploy failed") /\ NoStep(node')
                    /\ agent' = Off /\ Release
           /\ ContinueDeployment /\ node.state = "deploying" =>
                 \/ /\ ~node.abortAfter /\ SameNode(node, node') /\ SameStep(node, node')
                    /\ agent' = agent
                    /\ \/ \E i \in Steps : Stay("next", i)
                       \/ Stay("finish", 0)
                 \/ /\ node.abortAfter /\ Moved(node, node', "deploy failed")
                    /\ agent' = agent /\ Stay("abort", 0)
                 \/ /\ Moved(node, node', "deploy failed") /\ NoStep(node')
                    /\ agent' = Off /\ Release
           /\ NextDeployStep /\ at \in Steps =>
                 \/ /\ SameNode(node, node') /\ ~node'.abortAfter
                    /\ node'.step \in Steps /\ Stay("execute", at)
                 \/ node' = node /\ Stay("finish", 0)
           /\ ExecuteBoot \/ ExecuteInAgent \/ ExecutePolled =>
                 SameNode(node, node') /\ SameStep(node, node')
<1>1. /\ {"deploying", "wait call-back", "deploy failed"} \subseteq RowStates
      /\ node.steps \in SUBSET Steps
  BY DEF RowStates, DeployStates, NodeRows
<1>2. ASSUME StartDeployment, node.state = "deploying"
      PROVE  \/ /\ SameNode(node, node') /\ NoStep(node')
                /\ agent' = Off /\ Stay("next", 1)
             \/ /\ Moved(node, node', "wait call-back") /\ SameStep(node, node')
                /\ agent' = Booting /\ Release
             \/ /\ Moved(node, node', "deploy failed") /\ NoStep(node')
                /\ agent' = Off /\ Release
  <2> DEFINE w == WithoutStep(Wiped(node))
             n == [w EXCEPT !.asked = TRUE]
             m == [Wiped(node) EXCEPT !.asked = FALSE]
  <2>1. CASE /\ node' = [n EXCEPT !.steps = Known(n)]
             /\ agent' = Off /\ Stay("next", 1)
    <3>1. Known(n) \in SUBSET Steps
      BY DEF Known
    <3>2. SameNode(node, w) /\ NoStep(w)
      BY EditedRow
    <3> HIDE DEF w
    <3> QED
      BY <2>1, <3>1, <3>2 DEF SameNode, NoStep, NodeRows
  <2>2. CASE node' = Fired(m, "wait") /\ agent' = Booting /\ Release
    <3>1. SameNode(node, m) /\ SameStep(node, m)
      <4> DEFINE v == Wiped(node)
      <4>1. SameNode(node, v) /\ SameStep(node, v) /\ m = [v EXCEPT !.asked = FALSE]
        BY EditedRow
      <4> HIDE DEF v
      <4> QED
        BY <4>1 DEF SameNode, SameStep, NodeRows
    <3> HIDE DEF m
    <3>2. Successor(m.state, "wait") = "wait call-back"
      BY <1>2, <3>1, EventsOfDeployment DEF SameNode, Leads
    <3>3. Moved(m, node', "wait call-back") /\ SameStep(m, node')
      BY <1>1, <2>2, <3>1, <3>2, FiredRow DEF SameNode
    <3> QED
      BY <2>2, <3>1, <3>3 DEF SameNode, SameStep, Moved
  <2>3. CASE WorkerFails
    BY <1>2, <2>3, FailedRow DEF WorkerFails
  <2> QED
    BY <1>2, <2>1, <2>2, <2>3 DEF StartDeployment
<1>3. ASSUME ContinueDeployment, node.state = "deploying"
      PROVE  \/ /\ ~node.abortAfter /\ SameNode(node, node') /\ SameStep(node, node')
                /\ agent' = agent
                /\ \/ \E i \in Steps : Stay("next", i)
                   \/ Stay("finish", 0)
             \/ /\ node.abortAfter /\ Moved(node, node', "deploy failed")
                /\ agent' = agent /\ Stay("abort", 0)
             \/ /\ Moved(node, node', "deploy failed") /\ NoStep(node')
                /\ agent' = Off /\ Release
  <2> DEFINE v == Validated(node)
             n == [v EXCEPT !.skip = TRUE, !.polling = FALSE]
             i == NextIndex(v)
  <2>1. SameNode(node, v) /\ SameStep(node, v)
    BY EditedRow
  <2>2. i \in {0} \cup Steps
    BY <2>1, NextIndexInBounds DEF SameNode
  <2>3. SameNode(node, n) /\ SameStep(node, n)
    <3> HIDE DEF v
    <3> QED
      BY <2>1 DEF SameNode, SameStep, NodeRows
  <2> HIDE DEF v, n, i
  <2>4. CASE /\ ~n.abortAfter /\ node' = n /\ agent' = agent
             /\ Stay(IF i # 0 THEN "next" ELSE "finish", i)
    BY <2>2, <2>3, <2>4 DEF SameStep
  <2>5. CASE /\ n.abortAfter /\ node' = Fired(n, "fail") /\ agent' = agent
             /\ Stay("abort", 0)
    <3>1. Successor(n.state, "fail") = "deploy failed"
      BY <1>3, <2>3, EventsOfDeployment DEF SameNode, Leads
    <3>2. Moved(n, node', "deploy failed")
      BY <1>1, <2>3, <2>5, <3>1, FiredRow DEF SameNode
    <3> QED
      BY <2>3, <2>5, <3>2 DEF SameNode, SameStep, Moved
  <2>6. CASE WorkerFails
    BY <1>3, <2>6, FailedRow DEF WorkerFails
  <2> QED
    BY <1>3, <2>4, <2>5, <2>6 DEF ContinueDeployment, v, n, i
<1>4. ASSUME NextDeployStep, at \in Steps
      PROVE  \/ /\ SameNode(node, node') /\ ~node'.abortAfter
                /\ node'.step \in Steps /\ Stay("execute", at)
             \/ node' = node /\ Stay("finish", 0)
  <2>1. CASE at <= Cardinality(node.steps)
    <3> DEFINE k == StepAt(node.steps, at)
    <3>1. at \in 1..Cardinality(node.steps)
      <4>1. at \in Nat /\ at >= 1
        BY <1>4, StepsAreNumbers
      <4>2. Cardinality(node.steps) \in Nat
        BY <1>1, ListsAreShort
      <4> QED
        BY <2>1, <4>1, <4>2
    <3>2. k \in Steps
      BY <1>1, <3>1, StepIsListed
    <3>3. /\ node' = [node EXCEPT !.step = k, !.index = at,
                                 !.abortAfter = FALSE, !.polling = FALSE]
          /\ Stay("execute", at)
      BY <1>4, <2>1 DEF NextDeployStep
    <3> HIDE DEF k
    <3> QED
      BY <1>4, <3>2, <3>3 DEF SameNode, NodeRows
  <2>2. CASE ~(at <= Cardinality(node.steps))
    BY <1>4, <2>2 DEF NextDeployStep
  <2> QED
    BY <2>1, <2>2
<1>5. ASSUME ExecuteBoot \/ ExecuteInAgent \/ ExecutePolled
      PROVE  SameNode(node, node') /\ SameStep(node, node')
  <2>1. \/ node' = node
        \/ node' = [node EXCEPT !.rebooting = FALSE]
        \/ node' = [node EXCEPT !.skip = FALSE]
        \/ node' = [node EXCEPT !.skip = TRUE, !.polling = TRUE, !.rebooting = TRUE]
    BY <1>5 DEF ExecuteBoot, ExecuteInAgent, ExecutePolled
  <2> QED
    BY <2>1 DEF SameNode, SameStep, NodeRows
<1> QED
  BY <1>2, <1>3, <1>4, <1>5

LEMMA EndRows ==
    ASSUME node \in NodeRows
    PROVE  /\ ExecuteFails /\ node.state = "deploying" =>
                 Moved(node, node', "deploy failed") /\ NoStep(node')
           /\ ExecuteHold /\ node.state = "deploying" =>
                 Moved(node, node', "deploy hold") /\ SameStep(node, node')
           /\ Park /\ node.state = "deploying" =>
                 Moved(node, node', "wait call-back") /\ SameStep(node, node')
           /\ FinishDeployment /\ node.state = "deploying" =>
                 Moved(node, node', "active") /\ NoStep(node')
           /\ CleanUpDeployment /\ node.state = "deploy failed" =>
                 Moved(node, node', "deploy failed") /\ NoStep(node')
           /\ TearDown /\ node.state \in {"deleting", "deploy failed"} =>
                 /\ node' \in NodeRows
                 /\ \/ node.state = "deleting" /\ node'.state = "cleaning"
                    \/ /\ node.state = "deleting" /\ node'.state = "error"
                       /\ May("tear down fails")
                    \/ node.state = "deploy failed" /\ node'.state = "deploy failed"
                    \/ node'.state = node.state /\ May("tear down breaks off")
           /\ CleaningEnds => /\ node.state = "cleaning"
                             /\ Moved(node, node', "available") /\ SameStep(node, node')
<1>1. {"deploy hold", "wait call-back", "active", "cleaning", "error", "available"}
        \subseteq RowStates
  BY DEF RowStates, DeployStates
<1>2. ASSUME ExecuteFails, node.state = "deploying"
      PROVE  Moved(node, node', "deploy failed") /\ NoStep(node')
  BY <1>2, FailedRow DEF ExecuteFails, WorkerFails
<1>3. ASSUME ExecuteHold, node.state = "deploying"
      PROVE  Moved(node, node', "deploy hold") /\ SameStep(node, node')
  BY <1>1, <1>3, EventsOfDeployment, FiredRow DEF ExecuteHold, Leads
<1>4. ASSUME Park, node.state = "deploying"
      PROVE  Moved(node, node', "wait call-back") /\ SameStep(node, node')
  BY <1>1, <1>4, EventsOfDeployment, FiredRow DEF Park, Leads
<1>5. ASSUME FinishDeployment, node.state = "deploying"
      PROVE  Moved(node, node', "active") /\ NoStep(node')
  <2> DEFINE w == WithoutStep(Wiped(node))
  <2>1. SameNode(node, w) /\ NoStep(w)
    BY EditedRow
  <2>2. node' = Fired(w, "done")
    BY <1>5 DEF FinishDeployment
  <2> HIDE DEF w
  <2>3. Successor(w.state, "done") = "active"
    BY <1>5, <2>1, EventsOfDeployment DEF SameNode, Leads
  <2>4. Moved(w, node', "active") /\ SameStep(w, node')
    BY <1>1, <2>1, <2>2, <2>3, FiredRow DEF SameNode
  <2> QED
    BY <2>1, <2>4 DEF SameNode, NoStep, SameStep, Moved
<1>6. ASSUME CleanUpDeployment, node.state = "deploy failed"
      PROVE  Moved(node, node', "deploy failed") /\ NoStep(node')
  BY <1>6, FailedRow DEF CleanUpDeployment, WorkerFails
<1>7. ASSUME TearDown, node.state \in {"deleting", "deploy failed"}
      PROVE  /\ node' \in NodeRows
             /\ \/ node.state = "deleting" /\ node'.state = "cleaning"
                \/ /\ node.state = "deleting" /\ node'.state = "error"
                   /\ May("tear down fails")
                \/ node.state = "deploy failed" /\ node'.state = "deploy failed"
                \/ node'.state = node.state /\ May("tear down breaks off")
  <2>1. Bare(node) \in NodeRows /\ Bare(node).state = node.state
    BY BareRow
  <2>2. ASSUME NEW b \in NodeRows, b.state = node.state, NEW e \in {"clean", "fail"}
        PROVE  /\ Tried(b, e) \in NodeRows
               /\ node.state = "deploy failed" => Tried(b, e).state = "deploy failed"
               /\ node.state = "deleting" =>
                    Tried(b, e).state = IF e = "clean" THEN "cleaning" ELSE "error"
    <3>1. CASE node.state = "deploy failed"
      BY <2>2, <3>1, FailedIsFinal DEF Tried
    <3>2. CASE node.state = "deleting"
      <4> DEFINE t == IF e = "clean" THEN "cleaning" ELSE "error"
      <4>1. Leads(b.state, e, t)
        BY <2>2, <3>2, EventsOfDeployment
      <4>2. Tried(b, e) = Fired(b, e)
        BY <2>2, <4>1 DEF Leads, Tried
      <4>3. Moved(b, Fired(b, e), t)
        BY <1>1, <2>2, <4>1, FiredRow DEF Leads
      <4> QED
        BY <2>2, <3>2, <4>2, <4>3 DEF Moved
    <3> QED
      BY <1>7, <3>1, <3>2
  <2>3. CASE node' = Tried(Bare(node), "clean")
    BY <1>7, <2>1, <2>2, <2>3
  <2>4. CASE /\ May("tear down fails")
             /\ node' \in {Tried(Bare(node), "fail"), Tried(node, "fail")}
    BY <1>7, <2>1, <2>2, <2>4
  <2>5. CASE May("tear down breaks off") /\ node' = Bare(node)
    BY <2>1, <2>5
  <2> QED
    BY <1>7, <2>3, <2>4, <2>5 DEF TearDown
<1>8. ASSUME CleaningEnds
      PROVE  /\ node.state = "cleaning"
             /\ Moved(node, node', "available") /\ SameStep(node, node')
  BY <1>1, <1>8, EventsOfDeployment, FiredRow DEF CleaningEnds, Leads
<1> QED
  BY <1>2, <1>3, <1>4, <1>5, <1>6, <1>7, <1>8

LEMMA ContinuedRow ==
    ASSUME node \in NodeRows, NEW n, SameNode(node, n), SameStep(node, n),
           HeartbeatContinues(n)
    PROVE  /\ node.state = "wait call-back" /\ lock = "free" /\ Acquire("continue")
           /\ Moved(node, node', "deploying") /\ SameStep(node, node')
           /\ UNCHANGED <<agent, job, casts, recover, history, counters>>
<1> DEFINE c == [n EXCEPT !.cached = TRUE]
<1>1. SameNode(node, c) /\ SameStep(node, c)
  BY DEF SameNode, SameStep, NodeRows
<1>2. node.state = "wait call-back" /\ lock = "free" /\ node' = Fired(c, "resume")
  BY DEF HeartbeatContinues, Heartbeat
<1> HIDE DEF c
<1>3. "deploying" \in RowStates /\ Successor(c.state, "resume") = "deploying"
  BY <1>1, <1>2, EventsOfDeployment DEF RowStates, DeployStates, SameNode, Leads
<1>4. Moved(c, node', "deploying") /\ SameStep(c, node')
  BY <1>1, <1>2, <1>3, FiredRow DEF SameNode
<1> QED
  BY <1>1, <1>2, <1>4 DEF SameNode, SameStep, Moved, HeartbeatContinues

LEMMA HeartbeatRows ==
    ASSUME node \in NodeRows, Heartbeats \/ HeartbeatBreaks
    PROVE  /\ node.state = "wait call-back" /\ lock = "free"
           /\ UNCHANGED <<job, casts, recover, history, counters>>
           /\ \/ /\ Moved(node, node', "deploy failed") /\ NoStep(node')
                 /\ agent' = Off /\ UNCHANGED <<lock, pc, at>>
              \/ /\ SameNode(node, node') /\ SameStep(node, node')
                 /\ agent' \in {agent, Booting} /\ UNCHANGED <<lock, pc, at>>
              \/ /\ Moved(node, node', "deploying") /\ SameStep(node, node')
                 /\ agent' = agent /\ Acquire("continue")
<1>1. CASE HeartbeatInMaintenance \/ HeartbeatStepFailed \/ HeartbeatBreaks
  BY <1>1, FailedRow DEF HeartbeatInMaintenance, HeartbeatStepFailed, HeartbeatBreaks,
     HeartbeatFails, Heartbeat
<1>2. CASE HeartbeatCaches
  BY <1>2 DEF HeartbeatCaches, Heartbeat, SameNode, SameStep, NodeRows
<1>3. CASE HeartbeatReboots
  BY <1>3 DEF HeartbeatReboots, Heartbeat, SameNode, SameStep, NodeRows
<1>4. CASE HeartbeatFresh
  <2>1. /\ SameNode(node, [node EXCEPT !.rebooting = FALSE])
        /\ SameStep(node, [node EXCEPT !.rebooting = FALSE])
    BY DEF SameNode, SameStep, NodeRows
  <2> QED
    BY <1>4, <2>1, ContinuedRow DEF HeartbeatFresh
<1>5. CASE HeartbeatDone \/ HeartbeatMismatch
  <2>1. SameNode(node, node) /\ SameStep(node, node)
    BY DEF SameNode, SameStep
  <2> QED
    BY <1>5, <2>1, ContinuedRow DEF HeartbeatDone, HeartbeatMismatch
<1> QED
  BY <1>1, <1>2, <1>3, <1>4, <1>5 DEF Heartbeats

LEMMA ConductorRows ==
    ASSUME node \in NodeRows
    PROVE  /\ ContinueNodeDeploy =>
                 \/ /\ node.state = "wait call-back"
                    /\ Moved(node, node', "deploying") /\ SameStep(node, node')
                    /\ Acquire("continue") \/ (May("no worker") /\ Briefly)
                 \/ /\ node.state = "deploying" /\ node' = node
                    /\ Acquire("continue") \/ (May("no worker") /\ Briefly)
                 \/ node' = node /\ Briefly
           /\ CheckDeployTimeouts =>
                 /\ node.state = "wait call-back" /\ Moved(node, node', "deploy failed")
           /\ CorrectStuckStates =>
                 \/ /\ node.state = "deploying" /\ lock = "free"
                    /\ Moved(node, node', "deploy failed")
                 \/ /\ node.state = "deleting" /\ lock = "free"
                    /\ Moved(node, node', "error")
                 \/ /\ node' = node
                    /\ \/ node.state \notin {"deploying", "deleting"}
                       \/ lock # "free" \/ May("lock taken") \/ PassedOver
           /\ CleanUpOrphan =>
                 \/ /\ node.state = "deploying" /\ lock = "free"
                    /\ Moved(node, node', "deploy failed")
                 \/ node' = node
<1>1. {"deploying", "deploy failed", "error"} \subseteq RowStates
  BY DEF RowStates, DeployStates
<1>2. ASSUME node.state = "wait call-back"
      PROVE  /\ Moved(node, Fired(node, "resume"), "deploying")
             /\ SameStep(node, Fired(node, "resume"))
             /\ Moved(node, Fired(node, "fail"), "deploy failed")
  BY <1>1, <1>2, EventsOfDeployment, FiredRow DEF Leads
<1>3. ASSUME node.state = "deploying"
      PROVE  Moved(node, Fired(node, "fail"), "deploy failed")
  BY <1>1, <1>3, EventsOfDeployment, FiredRow DEF Leads
<1>4. ASSUME node.state = "deleting"
      PROVE  Moved(node, Fired(node, "fail"), "error")
  BY <1>1, <1>4, EventsOfDeployment, FiredRow DEF Leads
<1> QED
  BY <1>2, <1>3, <1>4 DEF ContinueNodeDeploy, CheckDeployTimeouts, CorrectStuckStates,
     StuckStates, CleanUpOrphan

----------------------------------------------------------------------------
(* Every step keeps the types *)

\* The variables that few actions change.
LEMMA TypedStep ==
    ASSUME Inv, node' \in NodeRows, lock' \in {"free", "held", "dead"}, pc' \in Pcs,
           at' \in {0} \cup Steps, agent' \in Agents, job' \in Jobs, casts' \in Nat,
           recover' \in {"no", "boot", "orphan", "down"},
           over' \subseteq Steps, tenants' \subseteq Instances, aborted' \in BOOLEAN,
           deploys' \in 0..MaxDeploys, crashes' \in 0..MaxCrashes,
           mismatches' \in 0..MaxMismatches, Discipline'
    PROVE  Inv'
BY DEF Inv, OthersTyped

LEMMA Current ==
    ASSUME Inv
    PROVE  /\ node \in NodeRows
           /\ agent \in Agents /\ (agent.is = "busy" => agent.cmd \in Steps)
           /\ job \in Jobs /\ casts \in Nat /\ recover \in {"no", "boot", "orphan", "down"}
           /\ over \subseteq Steps /\ tenants \subseteq Instances /\ aborted \in BOOLEAN
BY DEF Inv, OthersTyped, Discipline

LEMMA AgentLeft ==
    ASSUME Inv, agent' \in {agent, Off, Booting}
    PROVE  agent' \in Agents /\ (agent'.is = "busy" => agent'.cmd \in Steps)
BY AgentAndJob, Current

\* The lock is given up, or it is free and stays so: any state will do.
LEMMA ReleasingStep ==
    ASSUME Inv, node' \in NodeRows, Release \/ (lock = "free" /\ UNCHANGED <<lock, pc, at>>),
           agent' \in Agents, agent'.is = "busy" => agent'.cmd \in Steps,
           job' \in Jobs, casts' \in Nat, recover' \in {"no", "boot", "orphan", "down"},
           over' \subseteq Steps, tenants' \subseteq Instances, aborted' \in BOOLEAN,
           UNCHANGED counters
    PROVE  Inv'
<1>1. Discipline'
  BY DEF Inv, Discipline, Release
<1> QED
  BY <1>1 DEF Inv, OthersTyped, Release, Pcs, counters

\* The holder of the lock goes on.
LEMMA WorkingStep ==
    ASSUME Inv, NEW what \in {"next", "execute", "park", "finish", "abort"},
           NEW k \in {0} \cup Steps,
           lock = "held", node' \in NodeRows, Stay(what, k),
           node'.state = IF what = "abort" THEN "deploy failed" ELSE "deploying",
           what \in {"next", "execute"} => k \in Steps,
           what = "execute" => node'.step \in Steps,
           agent' \in Agents, agent'.is = "busy" => agent'.cmd \in Steps,
           job' \in Jobs, over' \subseteq Steps,
           UNCHANGED <<casts, recover, tenants, aborted, counters>>
    PROVE  Inv'
<1>1. Discipline'
  BY DEF Inv, Discipline, Stay
<1> QED
  BY <1>1 DEF Inv, OthersTyped, Stay, Pcs, counters

\* The lock is taken.
LEMMA AcquiringStep ==
    ASSUME Inv, NEW what \in {"start", "continue", "cleanup", "abort", "delete"},
           Acquire(what), node' \in NodeRows,
           what \in {"start", "continue"} => node'.state = "deploying",
           what \in {"cleanup", "abort"} => node'.state = "deploy failed",
           what = "delete" => node'.state \in {"deleting", "deploy failed"},
           agent' = agent, job' \in Jobs, casts' \in Nat, recover' = recover,
           over' \subseteq Steps, tenants' \subseteq Instances, aborted' \in BOOLEAN,
           deploys' \in 0..MaxDeploys, UNCHANGED <<crashes, mismatches>>
    PROVE  Inv'
<1>1. Discipline'
  BY DEF Inv, Discipline, Acquire
<1> QED
  BY <1>1 DEF Inv, OthersTyped, Acquire, Pcs

LEMMA OperatorStep == ASSUME Inv, Operator PROVE Inv'
<1> USE Current
<1>1. ASSUME NEW i \in Instances, Claim(i)
      PROVE  Inv'
  BY <1>1, OperatorRows, ReleasingStep DEF Claim, Briefly, history
<1>2. CASE DoNodeDeploy
  <2>1. node.instance # None /\ node.instance \in Instances \cup {None}
    BY <1>2 DEF DoNodeDeploy, NodeRows
  <2>2. over' \subseteq Steps /\ tenants' \subseteq Instances /\ job' \in Jobs /\ casts' \in Nat
    BY <1>2, <2>1, AgentAndJob DEF DoNodeDeploy
  <2>3. aborted' \in BOOLEAN
    BY <1>2, Zenon DEF DoNodeDeploy
  <2>4. deploys' \in 0..MaxDeploys
    BY <1>2, Bounds DEF DoNodeDeploy, Inv, OthersTyped
  <2>5. /\ Acquire("start") /\ agent' = agent /\ recover' = recover
        /\ UNCHANGED <<crashes, mismatches>>
    BY <1>2 DEF DoNodeDeploy
  <2>6. node' \in NodeRows /\ node'.state = "deploying"
    BY <1>2, OperatorRows DEF Moved
  <2> QED
    BY <2>2, <2>3, <2>4, <2>5, <2>6, AcquiringStep
<1>3. CASE DoNodeTearDown
  <2>1. node' \in NodeRows /\ node'.state = "deleting"
    BY <1>3, OperatorRows DEF Moved
  <2>2. Acquire("delete") /\ UNCHANGED <<agent, job, casts, recover, over, tenants, counters>>
    BY <1>3 DEF DoNodeTearDown, history
  <2>3. aborted' \in BOOLEAN /\ deploys' \in 0..MaxDeploys
    BY <1>3 DEF DoNodeTearDown, history, counters, Inv, OthersTyped
  <2> QED
    BY <2>1, <2>2, <2>3, AcquiringStep DEF counters
<1>4. CASE Unhold \/ UpdateMaintenance
  <2>1. node' \in NodeRows
    BY <1>4, OperatorRows DEF Moved
  <2>2. Briefly /\ UNCHANGED <<agent, job, casts, recover, history, counters>>
    BY <1>4 DEF Unhold, UpdateMaintenance
  <2> QED
    BY <2>1, <2>2, ReleasingStep DEF Briefly, history
<1>5. CASE DoAbort \/ DoAbortOnHold
  <2>1. UNCHANGED <<agent, job, casts, recover, over, tenants, counters>>
    BY <1>5 DEF DoAbort, DoAbortOnHold
  <2>2. aborted' \in BOOLEAN
    BY <1>5, Zenon DEF DoAbort, DoAbortOnHold
  <2>3. \/ node' \in NodeRows /\ lock = "free" /\ UNCHANGED <<lock, pc, at>>
        \/ /\ Acquire("abort") \/ Acquire("delete")
           /\ node' \in NodeRows /\ node'.state = "deploy failed"
    BY <1>5, OperatorRows DEF SameNode, Moved, Briefly, DoAbortOnHold
  <2>4. deploys' \in 0..MaxDeploys
    BY <2>1 DEF counters, Inv, OthersTyped
  <2>5. CASE node' \in NodeRows /\ lock = "free" /\ UNCHANGED <<lock, pc, at>>
    BY <2>1, <2>2, <2>5, ReleasingStep
  <2>6. CASE /\ Acquire("abort") \/ Acquire("delete")
             /\ node' \in NodeRows /\ node'.state = "deploy failed"
    BY <2>1, <2>2, <2>4, <2>6, AcquiringStep DEF counters
  <2> QED
    BY <2>3, <2>5, <2>6
<1> QED
  BY <1>1, <1>2, <1>3, <1>4, <1>5 DEF Operator

\* What the holder of the lock works on.
LEMMA AtWork ==
    ASSUME Inv
    PROVE  /\ lock = "held" /\ pc \in {"start", "continue", "next", "execute", "park", "finish"}
                 => node.state = "deploying"
           /\ Working("abort") \/ Working("cleanup") => node.state = "deploy failed"
           /\ Working("delete") => node.state \in {"deleting", "deploy failed"}
           /\ Working("next") \/ Working("execute") => at \in Steps
           /\ Working("execute") => node.step \in Steps
BY DEF Inv, Discipline, Working

LEMMA AdvanceTo ==
    ASSUME Inv, Advance, at \in Steps
    PROVE  (\E k \in Steps : Stay("next", k)) \/ Stay("finish", 0)
<1>1. /\ Cardinality(node.steps) \in Nat
      /\ \A i \in 1..Cardinality(node.steps) : i \in Steps
  BY ListsAreShort DEF Inv, NodeRows
<1>2. at \in Nat /\ at >= 1
  BY StepsAreNumbers
<1>3. CASE at < Cardinality(node.steps)
  <2>1. at + 1 \in Steps
    BY <1>1, <1>2, <1>3
  <2> QED
    BY <1>3, <2>1 DEF Advance
<1> QED
  BY <1>3 DEF Advance

\* The worker fails, parks the node or is done.
LEMMA WorkerReleases ==
    ASSUME Inv, Worker, Release
    PROVE  Inv'
<1> USE Current
<1>1. lock' # "held" /\ pc' = "idle"
  BY DEF Release
<1>2. ~(NextDeployStep \/ ExecuteSync \/ ExecuteBoot \/ ExecuteDown
        \/ ExecuteInAgent \/ ExecutePolled)
  BY <1>1 DEF NextDeployStep, ExecuteSync, ExecuteBoot, ExecuteDown, ExecuteInAgent,
     ExecutePolled, Stay, Advance, Executing, Working
<1>3. CASE \/ StartDeployment \/ ContinueDeployment \/ ExecuteFails \/ Park
           \/ FinishDeployment \/ CleanUpDeployment \/ TearDown
  <2>1. UNCHANGED <<job, casts, recover, history, counters>>
    BY <1>3 DEF StartDeployment, ContinueDeployment, ExecuteFails, Park,
       FinishDeployment, CleanUpDeployment, TearDown
  <2>2. node' \in NodeRows /\ agent' \in {agent, Off, Booting}
    <3>1. CASE StartDeployment \/ ContinueDeployment
      <4>1. node.state = "deploying"
        BY <3>1, AtWork DEF StartDeployment, ContinueDeployment, Working
      <4> QED
        BY <3>1, <4>1, WorkerRows DEF SameNode, Moved
    <3>2. CASE ExecuteFails \/ Park \/ FinishDeployment
      <4>1. node.state = "deploying"
        BY <3>2, AtWork DEF ExecuteFails, Executing, Park, FinishDeployment, Working
      <4> QED
        BY <3>2, <4>1, EndRows
        DEF Moved, ExecuteFails, WorkerFails, Park, FinishDeployment
    <3>3. CASE CleanUpDeployment \/ TearDown
      <4>1. /\ CleanUpDeployment => node.state = "deploy failed"
            /\ TearDown => node.state \in {"deleting", "deploy failed"}
        BY AtWork DEF CleanUpDeployment, TearDown
      <4> QED
        BY <3>3, <4>1, EndRows DEF Moved, CleanUpDeployment, WorkerFails, TearDown
    <3> QED
      BY <1>3, <3>1, <3>2, <3>3
  <2>3. agent' \in Agents /\ (agent'.is = "busy" => agent'.cmd \in Steps)
    BY <2>2, AgentLeft
  <2> QED
    BY <2>1, <2>2, <2>3, ReleasingStep DEF history
<1>4. CASE ExecuteHold
  <2>1. node.state = "deploying" /\ node.step \in Steps
    BY <1>4, AtWork DEF ExecuteHold, Executing, Working
  <2>2. node' \in NodeRows
    BY <1>4, <2>1, EndRows DEF Moved
  <2> QED
    BY <1>4, <2>1, <2>2, ReleasingStep DEF ExecuteHold
<1> QED
  BY <1>2, <1>3, <1>4 DEF Worker

LEMMA WorkerStep == ASSUME Inv, Worker PROVE Inv'
<1> USE Current
<1>1. CASE Release
  BY <1>1, WorkerReleases
<1>2. CASE StartDeployment /\ ~Release
  <2>1. lock = "held" /\ node.state = "deploying"
    BY <1>2, AtWork DEF StartDeployment, Working
  <2>2. /\ node' \in NodeRows /\ node'.state = "deploying"
        /\ agent' = Off /\ Stay("next", 1)
    BY <1>2, <2>1, WorkerRows DEF SameNode
  <2>3. UNCHANGED <<job, casts, recover, history, counters>>
    BY <1>2 DEF StartDeployment
  <2> QED
    BY <2>1, <2>2, <2>3, WorkingStep, StepsAreNumbers, AgentAndJob DEF history
<1>3. CASE ContinueDeployment /\ ~Release
  <2>1. lock = "held" /\ node.state = "deploying"
    BY <1>3, AtWork DEF ContinueDeployment, Working
  <2>2. /\ node' \in NodeRows /\ agent' = agent
        /\ \/ /\ node'.state = "deploying"
              /\ (\E i \in Steps : Stay("next", i)) \/ Stay("finish", 0)
           \/ node'.state = "deploy failed" /\ Stay("abort", 0)
    BY <1>3, <2>1, WorkerRows DEF SameNode, Moved
  <2>3. UNCHANGED <<job, casts, recover, history, counters>>
    BY <1>3 DEF ContinueDeployment
  <2> QED
    BY <2>1, <2>2, <2>3, WorkingStep DEF history
<1>4. CASE NextDeployStep
  <2>1. lock = "held" /\ node.state = "deploying" /\ at \in Steps
    BY <1>4, AtWork DEF NextDeployStep, Working
  <2>2. /\ node' \in NodeRows /\ node'.state = "deploying"
        /\ \/ Stay("execute", at) /\ node'.step \in Steps
           \/ Stay("finish", 0)
    BY <1>4, <2>1, WorkerRows DEF SameNode
  <2>3. UNCHANGED <<agent, job, casts, recover, history, counters>>
    BY <1>4 DEF NextDeployStep
  <2> QED
    BY <2>1, <2>2, <2>3, WorkingStep DEF history
<1>5. CASE ExecuteSync \/ ExecuteDown
  <2>1. /\ lock = "held" /\ node.state = "deploying" /\ at \in Steps
        /\ node.step \in Steps
    BY <1>5, AtWork DEF ExecuteSync, ExecuteDown, Executing, Working
  <2>2. (\E k \in Steps : Stay("next", k)) \/ Stay("finish", 0)
    BY <1>5, <2>1, AdvanceTo DEF ExecuteSync, ExecuteDown
  <2>3. agent' \in Agents /\ (agent'.is = "busy" => agent'.cmd \in Steps)
    BY <1>5, AgentLeft DEF ExecuteSync, ExecuteDown
  <2>4. /\ over' \subseteq Steps
        /\ UNCHANGED <<node, job, casts, recover, tenants, aborted, counters>>
    BY <1>5, <2>1 DEF ExecuteSync, ExecuteDown
  <2> QED
    BY <2>1, <2>2, <2>3, <2>4, WorkingStep
<1>6. CASE ExecuteBoot \/ ExecuteInAgent \/ ExecutePolled
  <2>1. lock = "held" /\ node.state = "deploying" /\ node.step \in Steps
    BY <1>6, AtWork DEF ExecuteBoot, ExecuteInAgent, ExecutePolled, Executing, Working
  <2>2. node' \in NodeRows /\ node'.state = "deploying"
    BY <1>6, <2>1, WorkerRows DEF SameNode
  <2>3. agent' \in Agents /\ (agent'.is = "busy" => agent'.cmd \in Steps)
    <3>1. CASE agent' \in {agent, Off, Booting}
      BY <3>1, AgentLeft
    <3>2. CASE agent' = [is |-> "busy", cmd |-> node.step]
      BY <2>1, <3>2 DEF Agents, Up
    <3> QED
      BY <1>6, <3>1, <3>2 DEF ExecuteBoot, ExecuteInAgent, ExecutePolled
  <2>4. /\ over' \in {over, over \cup {node.step}} /\ Stay("park", 0)
        /\ job' \in {job, [step |-> node.step, over |-> FALSE]}
        /\ UNCHANGED <<casts, recover, tenants, aborted, counters>>
    BY <1>6 DEF ExecuteBoot, ExecuteInAgent, ExecutePolled, history
  <2>5. [step |-> node.step, over |-> FALSE] \in Jobs
    BY <2>1 DEF Jobs
  <2> QED
    BY <2>1, <2>2, <2>3, <2>4, <2>5, WorkingStep
<1>7. ExecuteFails \/ ExecuteHold \/ Park \/ FinishDeployment \/ CleanUpDeployment \/ TearDown
        => Release
  BY DEF ExecuteFails, ExecuteHold, Park, FinishDeployment, CleanUpDeployment, TearDown,
         WorkerFails
<1> QED
  BY <1>1, <1>2, <1>3, <1>4, <1>5, <1>6, <1>7 DEF Worker

LEMMA ConductorStep ==
    ASSUME Inv, Heartbeats \/ HeartbeatBreaks \/ Conductor \/ CheckDeployTimeouts \/ CleaningEnds
    PROVE  Inv'
<1> USE Current
<1>1. CASE Heartbeats \/ HeartbeatBreaks
  <2>1. lock = "free" /\ UNCHANGED <<job, casts, recover, history, counters>>
    BY <1>1, HeartbeatRows
  <2>2. CASE node' \in NodeRows /\ agent' \in {agent, Off, Booting} /\ UNCHANGED <<lock, pc, at>>
    BY <2>1, <2>2, AgentLeft, ReleasingStep DEF history
  <2>3. CASE /\ node' \in NodeRows /\ node'.state = "deploying"
             /\ agent' = agent /\ Acquire("continue")
    <3>1. deploys' \in 0..MaxDeploys /\ UNCHANGED <<crashes, mismatches>>
      BY <2>1 DEF counters, Inv, OthersTyped
    <3> QED
      BY <2>1, <2>3, <3>1, AcquiringStep DEF history
  <2> QED
    BY <1>1, <2>2, <2>3, HeartbeatRows DEF Moved, SameNode
<1>2. CASE ContinueNodeDeploy
  <2>1. casts' \in Nat /\ UNCHANGED <<agent, job, recover, history, counters>>
    <3>1. casts > 0 /\ casts' = casts - 1 /\ casts \in Nat
      BY <1>2 DEF ContinueNodeDeploy
    <3>2. casts' \in Nat
      BY <3>1
    <3> QED
      BY <1>2, <3>2 DEF ContinueNodeDeploy
  <2>2. /\ node' \in NodeRows
        /\ \/ Acquire("continue") /\ node'.state = "deploying"
           \/ Briefly
    BY <1>2, ConductorRows DEF Moved
  <2>3. CASE Acquire("continue") /\ node'.state = "deploying"
    <3>1. deploys' \in 0..MaxDeploys /\ UNCHANGED <<crashes, mismatches>>
      BY <2>1 DEF counters, Inv, OthersTyped
    <3> QED
      BY <2>1, <2>2, <2>3, <3>1, AcquiringStep DEF history
  <2>4. CASE Briefly
    BY <2>1, <2>2, <2>4, ReleasingStep DEF history, Briefly
  <2> QED
    BY <2>2, <2>3, <2>4
<1>3. CASE QueryJobStatus
  <2>1. casts' \in Nat /\ job' \in Jobs
    <3>1. casts' = casts + 1 /\ casts \in Nat /\ job' = NoJob
      BY <1>3 DEF QueryJobStatus
    <3> QED
      BY <3>1, AgentAndJob
  <2> QED
    BY <1>3, <2>1, ReleasingStep DEF QueryJobStatus, history, Briefly
<1>4. CASE CheckDeployTimeouts
  <2>1. node' \in NodeRows /\ node'.state = "deploy failed"
    BY <1>4, ConductorRows DEF Moved
  <2>2. /\ Acquire("cleanup") /\ UNCHANGED <<agent, job, casts, recover, history, counters>>
        /\ deploys' \in 0..MaxDeploys /\ UNCHANGED <<crashes, mismatches>>
    BY <1>4 DEF CheckDeployTimeouts, counters, Inv, OthersTyped
  <2> QED
    BY <2>1, <2>2, AcquiringStep DEF history
<1>5. CASE CleaningEnds
  BY <1>5, EndRows, ReleasingStep DEF CleaningEnds, Briefly, Moved
<1> QED
  BY <1>1, <1>2, <1>3, <1>4, <1>5 DEF Conductor

LEMMA RecoverStep == ASSUME Inv, Recover \/ Crash PROVE Inv'
<1> USE Current
<1>1. CASE Crash
  <2>1. crashes' \in 0..MaxCrashes
    BY <1>1, Bounds DEF Crash, Inv, OthersTyped
  <2>2. /\ UNCHANGED <<node, agent, job, casts, over, tenants, aborted, deploys, mismatches>>
        /\ \/ lock' = "dead" /\ pc' = "idle" /\ at' = 0 /\ recover' = recover
           \/ recover' = "down" /\ UNCHANGED <<lock, pc, at>>
    BY <1>1 DEF Crash, history
  <2>3. Discipline'
    BY <2>2 DEF Inv, Discipline
  <2> QED
    BY <2>1, <2>2, <2>3 DEF Inv, OthersTyped, Pcs
<1>2. CASE Restart \/ CheckOrphanNodes
  <2>1. /\ lock' \in {lock, "free"} /\ (lock' = lock \/ lock = "dead")
        /\ recover' \in {"no", "boot", "orphan"}
        /\ UNCHANGED <<node, pc, at, agent, job, casts, history, counters>>
    BY <1>2 DEF Restart, CheckOrphanNodes
  <2>2. Discipline'
    BY <2>1 DEF Inv, Discipline
  <2> QED
    BY <2>1, <2>2 DEF Inv, OthersTyped, history, counters
<1>3. CASE CorrectStuckStates \/ CleanUpOrphan
  <2>1. /\ recover' = "no" /\ UNCHANGED <<lock, pc, at, agent, job, casts, history, counters>>
        /\ node' \in NodeRows /\ (lock = "free" \/ node' = node)
    BY <1>3, ConductorRows DEF CorrectStuckStates, CleanUpOrphan, Moved
  <2>2. Discipline'
    BY <2>1 DEF Inv, Discipline
  <2> QED
    BY <2>1, <2>2 DEF Inv, OthersTyped, history, counters
<1> QED
  BY <1>1, <1>2, <1>3 DEF Recover

LEMMA HardwareStep == ASSUME Inv, Hardware \/ AgentLost PROVE Inv'
<1> USE Current
<1>1. CASE AgentBoots \/ AgentLost
  <2>1. agent' \in Agents /\ agent'.is # "busy"
    <3>1. agent' \in {[is |-> "fresh", cmd |-> 0], Off, Booting}
      BY <1>1 DEF AgentBoots, AgentLost
    <3>2. /\ [is |-> "fresh", cmd |-> 0] \in Agents
          /\ [is |-> "fresh", cmd |-> 0].is # "busy"
      BY DEF Agents, Up
    <3> QED
      BY <3>1, <3>2, AgentAndJob
  <2>2. UNCHANGED <<node, lock, pc, at, job, casts, recover, history, counters>>
    BY <1>1 DEF AgentBoots, AgentLost
  <2>3. Discipline'
    BY <2>1, <2>2 DEF Inv, Discipline
  <2> QED
    BY <2>1, <2>2, <2>3 DEF Inv, OthersTyped, history, counters
<1>2. CASE AgentFinishes
  <2>1. /\ agent' \in Agents /\ agent'.is # "busy"
        /\ UNCHANGED <<node, lock, pc, at, job, casts, recover, tenants, aborted,
                       deploys, crashes>>
    BY <1>2 DEF AgentFinishes, Agents, Up
  <2>2. over' \subseteq Steps
    BY <1>2 DEF AgentFinishes
  <2>3. mismatches' \in 0..MaxMismatches
    BY <1>2, Bounds DEF AgentFinishes, Inv, OthersTyped
  <2>4. Discipline'
    BY <2>1 DEF Inv, Discipline
  <2> QED
    BY <2>1, <2>2, <2>3, <2>4 DEF Inv, OthersTyped
<1>3. CASE JobFinishes
  <2>1. job' \in Jobs /\ over' \subseteq Steps
    BY <1>3 DEF JobFinishes, Jobs
  <2>2. UNCHANGED <<node, lock, pc, at, agent, casts, recover, tenants, aborted, counters>>
    BY <1>3 DEF JobFinishes
  <2>3. Discipline'
    BY <2>2 DEF Inv, Discipline
  <2> QED
    BY <2>1, <2>2, <2>3 DEF Inv, OthersTyped, counters
<1> QED
  BY <1>1, <1>2, <1>3 DEF Hardware

LEMMA InvStep == ASSUME Inv, [Next]_vars PROVE Inv'
<1>1. CASE UNCHANGED vars
  BY <1>1 DEF vars, history, counters, Inv, OthersTyped, Discipline
<1> QED
  BY <1>1, OperatorStep, WorkerStep, ConductorStep, RecoverStep, HardwareStep DEF Next

LEMMA Invariance == Spec => []Inv
<1>1. Inv /\ [Next]_vars => Inv'
  BY InvStep
<1> QED
  BY <1>1, InvInit, PTL DEF Spec

\* Every reachable state is well typed, whatever goes wrong: the step that is
\* looked up by its index is always in the list, however often the list is
\* made anew (_get_node_next_steps, validate_deploy_steps).
THEOREM TypeCorrect == Spec => []TypeOK
<1>1. Inv => TypeOK
  BY Typed DEF Inv
<1> QED
  BY <1>1, Invariance, PTL

----------------------------------------------------------------------------
(* The state and the instance, as every step but a few leaves them *)

\* The tear down does what it should: no error of the driver and none behind it,
\* and no abort in DEPLOYHOLD, after which its worker finds DEPLOYFAIL.
CleanTearDown ==
    ~May("tear down fails") /\ ~May("tear down breaks off") /\ ~May("abort on hold")

\* A node that somebody has been given, and that has not been cleaned since.
Occupied == DeployStates \cup {"active", "error", "deleting"}

\* A step of those that go on with the instance the node has.
GoesOn ==
    /\ node.state \in Occupied /\ node'.state \in Occupied
    /\ node'.instance = node.instance /\ tenants' = tenants
    /\ pc' # "delete"

\* A step that leaves the node alone.
LeavesNode ==
    /\ node'.state = node.state /\ node'.instance = node.instance
    /\ tenants' = tenants /\ pc' \in {pc, "idle"}

LEMMA WorkerGoesOn ==
    ASSUME Inv, Worker, ~TearDown
    PROVE  GoesOn
<1> USE Current
<1>1. {"deploying", "wait call-back", "deploy hold", "deploy failed", "active"} \subseteq Occupied
  BY DEF Occupied, DeployStates
<1>2. CASE StartDeployment \/ ContinueDeployment
  <2>1. node.state = "deploying"
    BY <1>2, AtWork DEF StartDeployment, ContinueDeployment, Working
  <2>2. tenants' = tenants
    BY <1>2 DEF StartDeployment, ContinueDeployment, history
  <2>3. pc' # "delete"
    BY <1>2, <2>1, WorkerRows DEF Stay, Release
  <2>4. node'.instance = node.instance /\ node'.state \in {"deploying", "wait call-back", "deploy failed"}
    BY <1>2, <2>1, WorkerRows DEF SameNode, Moved
  <2> QED
    BY <1>1, <2>1, <2>2, <2>3, <2>4 DEF GoesOn
<1>3. CASE NextDeployStep \/ ExecuteBoot \/ ExecuteInAgent \/ ExecutePolled
  <2>1. node.state = "deploying" /\ at \in Steps
    BY <1>3, AtWork
    DEF NextDeployStep, ExecuteBoot, ExecuteInAgent, ExecutePolled, Executing, Working
  <2>2. tenants' = tenants /\ pc' # "delete"
    BY <1>3 DEF NextDeployStep, ExecuteBoot, ExecuteInAgent, ExecutePolled, history, Stay
  <2>3. node'.instance = node.instance /\ node'.state = "deploying"
    BY <1>3, <2>1, WorkerRows DEF SameNode
  <2> QED
    BY <1>1, <2>1, <2>2, <2>3 DEF GoesOn
<1>4. CASE ExecuteSync \/ ExecuteDown
  <2>1. node.state = "deploying"
    BY <1>4, AtWork DEF ExecuteSync, ExecuteDown, Executing, Working
  <2> QED
    BY <1>1, <1>4, <2>1 DEF ExecuteSync, ExecuteDown, Advance, Stay, GoesOn
<1>5. CASE ExecuteFails \/ ExecuteHold \/ Park \/ FinishDeployment \/ CleanUpDeployment
  <2>1. node.state = IF CleanUpDeployment THEN "deploy failed" ELSE "deploying"
    BY <1>5, AtWork DEF ExecuteFails, ExecuteHold, Park, FinishDeployment, CleanUpDeployment,
       Executing, Working
  <2>2. tenants' = tenants /\ pc' = "idle"
    BY <1>5 DEF ExecuteFails, ExecuteHold, Park, FinishDeployment, CleanUpDeployment,
       history, WorkerFails, Release
  <2>3. /\ node'.instance = node.instance
        /\ node'.state \in {"deploy failed", "deploy hold", "wait call-back", "active"}
    BY <1>5, <2>1, EndRows DEF Moved
  <2> QED
    BY <1>1, <2>1, <2>2, <2>3 DEF GoesOn
<1> QED
  BY <1>2, <1>3, <1>4, <1>5 DEF Worker

LEMMA ConductorGoesOn ==
    ASSUME Inv, Heartbeats \/ HeartbeatBreaks \/ Conductor \/ CheckDeployTimeouts
    PROVE  GoesOn \/ LeavesNode
<1> USE Current
<1>1. {"deploying", "wait call-back", "deploy failed"} \subseteq Occupied
  BY DEF Occupied, DeployStates
<1>0. lock = "free" => pc # "delete"
  BY DEF Inv, Discipline
<1>2. CASE Heartbeats \/ HeartbeatBreaks
  <2>1. node.state = "wait call-back" /\ tenants' = tenants /\ pc' \in {pc, "continue"}
    BY <1>2, HeartbeatRows DEF Acquire, history
  <2>2. pc' # "delete"
    BY <1>2, <1>0, <2>1, HeartbeatRows
  <2>3. /\ node'.state \in {"deploying", "wait call-back", "deploy failed"}
        /\ node'.instance = node.instance
    BY <1>2, <2>1, HeartbeatRows DEF Moved, SameNode
  <2> QED
    BY <1>1, <2>1, <2>2, <2>3 DEF GoesOn
<1>3. CASE ContinueNodeDeploy
  <2>1. tenants' = tenants /\ pc' \in {pc, "continue"} /\ lock = "free"
    BY <1>3 DEF ContinueNodeDeploy, history, Acquire, Briefly
  <2>2. pc' # "delete"
    BY <1>0, <2>1
  <2>3. CASE node' = node /\ Briefly
    BY <2>1, <2>3 DEF Briefly, LeavesNode
  <2>4. CASE ~(node' = node /\ Briefly)
    <3>1. /\ node.state \in {"deploying", "wait call-back"}
          /\ node'.state = "deploying" /\ node'.instance = node.instance
      BY <1>3, <2>4, ConductorRows DEF Moved
    <3> QED
      BY <1>1, <2>1, <2>2, <3>1 DEF GoesOn
  <2> QED
    BY <2>3, <2>4
<1>4. CASE QueryJobStatus
  BY <1>4 DEF QueryJobStatus, Briefly, history, LeavesNode
<1>5. CASE CheckDeployTimeouts
  <2>1. tenants' = tenants /\ pc' = "cleanup"
    BY <1>5 DEF CheckDeployTimeouts, Acquire, history
  <2> QED
    BY <1>1, <1>5, <2>1, ConductorRows DEF Moved, GoesOn
<1> QED
  BY <1>2, <1>3, <1>4, <1>5 DEF Conductor

LEMMA OthersGoOn ==
    ASSUME Inv, Recover \/ Crash \/ Hardware \/ AgentLost \/ UNCHANGED vars
    PROVE  GoesOn \/ LeavesNode
<1> USE Current
<1>1. {"deploying", "deploy failed", "deleting", "error"} \subseteq Occupied
  BY DEF Occupied, DeployStates
<1>2. CASE Crash \/ Restart \/ CheckOrphanNodes
  BY <1>2 DEF Crash, Restart, CheckOrphanNodes, history, LeavesNode
<1>3. CASE CorrectStuckStates \/ CleanUpOrphan
  <2>1. tenants' = tenants /\ pc' = pc
    BY <1>3 DEF CorrectStuckStates, CleanUpOrphan, history
  <2>2. lock = "free" => pc # "delete"
    BY DEF Inv, Discipline
  <2> QED
    BY <1>1, <1>3, <2>1, <2>2, ConductorRows DEF Moved, GoesOn, LeavesNode
<1>4. CASE Hardware \/ AgentLost \/ UNCHANGED vars
  BY <1>4 DEF Hardware, AgentBoots, AgentFinishes, JobFinishes, AgentLost, vars, history, LeavesNode
<1> QED
  BY <1>2, <1>3, <1>4 DEF Recover

----------------------------------------------------------------------------
(* Nobody is given what somebody else has left *)

\* The instance of an occupied node is the only one it has had since it was
\* cleaned, and an available node has had none.
OneTenant ==
    /\ \A i, j \in tenants : i = j
    /\ node.state = "available" => tenants = {}
    /\ node.state \in Occupied => tenants \subseteq {node.instance}
    /\ pc = "delete" => node.state = "deleting"

LEMMA NotBoth == "available" \notin Occupied /\ "cleaning" \notin Occupied
BY DEF Occupied, DeployStates

LEMMA GoesOnTenant ==
    ASSUME OneTenant, GoesOn \/ LeavesNode
    PROVE  OneTenant'
BY NotBoth DEF OneTenant, GoesOn, LeavesNode

LEMMA OneTenantStep ==
    ASSUME Inv, OneTenant, CleanTearDown, [Next]_vars
    PROVE  OneTenant'
<1> USE Current, NotBoth
<1>1. ASSUME NEW i \in Instances, Claim(i)
      PROVE  OneTenant'
  <2>1. None \notin Instances
    BY DeploymentAssumption
  <2>2. tenants = {}
    BY <1>1, <2>1, OperatorRows DEF OneTenant, Occupied, DeployStates
  <2>3. tenants' = tenants /\ pc' = pc /\ pc # "delete"
    BY <1>1 DEF Claim, Briefly, history, Inv, Discipline
  <2> QED
    BY <1>1, <2>2, <2>3 DEF OneTenant
<1>2. CASE DoNodeDeploy
  <2>1. tenants' = tenants \cup {node.instance} /\ pc' = "start"
    BY <1>2 DEF DoNodeDeploy, Acquire
  <2>2. tenants \subseteq {node.instance}
    BY <1>2, OperatorRows DEF OneTenant, Occupied, DeployStates
  <2>3. node'.state = "deploying" /\ node'.instance = node.instance
    BY <1>2, OperatorRows DEF Moved
  <2> QED
    BY <2>1, <2>2, <2>3 DEF OneTenant
<1>3. CASE DoNodeTearDown
  <2>1. tenants' = tenants
    BY <1>3 DEF DoNodeTearDown, history
  <2>2. /\ node.state \in Occupied /\ node'.state = "deleting"
        /\ node'.instance = node.instance
    BY <1>3, OperatorRows DEF Moved, Occupied, DeployStates
  <2> QED
    BY <2>1, <2>2 DEF OneTenant
<1>4. CASE Unhold \/ DoAbort \/ UpdateMaintenance
  <2>1. tenants' = tenants /\ pc' \in {pc, "abort"}
    BY <1>4 DEF Unhold, DoAbort, UpdateMaintenance, Briefly, Acquire, history
  <2>2. node'.instance = node.instance
    BY <1>4, OperatorRows DEF Moved, SameNode
  <2>3. CASE UpdateMaintenance \/ node'.state = node.state
    <3>1. node'.state = node.state
      BY <2>3, OperatorRows
    <3> QED
      BY <2>1, <2>2, <3>1 DEF OneTenant
  <2>4. CASE Unhold \/ (DoAbort /\ node'.state # node.state)
    <3>1. /\ node.state \in {"deploy hold", "wait call-back"}
          /\ node'.state \in {"wait call-back", "deploy failed"}
      BY <2>4, OperatorRows DEF Moved, SameNode
    <3>2. lock = "free"
      BY <2>4 DEF Unhold, DoAbort, Briefly, Acquire
    <3>3. pc' # "delete"
      BY <2>1, <3>2 DEF Inv, Discipline
    <3> QED
      BY <2>1, <2>2, <3>1, <3>3 DEF OneTenant, Occupied, DeployStates
  <2> QED
    BY <1>4, <2>3, <2>4
<1>5. ~DoAbortOnHold
  BY DEF DoAbortOnHold, CleanTearDown
<1>6. CASE TearDown
  <2>1. node.state = "deleting"
    BY <1>6 DEF TearDown, Working, OneTenant
  <2>2. node'.state = "cleaning" /\ tenants' = tenants /\ pc' = "idle"
    BY <1>6, <2>1, EndRows DEF TearDown, Release, CleanTearDown, history
  <2> QED
    BY <2>2 DEF OneTenant
<1>7. CASE CleaningEnds
  <2>1. tenants' = {} /\ pc' = pc /\ pc # "delete"
    BY <1>7 DEF CleaningEnds, Briefly, Inv, Discipline
  <2> QED
    BY <2>1 DEF OneTenant
<1> QED
  BY <1>1, <1>2, <1>3, <1>4, <1>5, <1>6, <1>7, WorkerGoesOn, ConductorGoesOn, OthersGoOn,
     GoesOnTenant DEF Next, Operator

LEMMA OneOrNone ==
    ASSUME NEW S, \A i, j \in S : i = j
    PROVE  Cardinality(S) <= 1
<1>1. CASE S = {}
  BY <1>1, FS_EmptySet
<1>2. CASE S # {}
  <2>1. PICK i \in S : TRUE
    BY <1>2
  <2>2. S = {i}
    BY <2>1
  <2>3. Cardinality({i}) = 1
    BY FS_Singleton
  <2> QED
    BY <2>2, <2>3
<1> QED
  BY <1>1, <1>2

\* A node serves one instance between two cleanings, through any number of
\* deployments, rebuilds, failures, aborts and crashes, as long as a tear down
\* does not stop half way (_do_node_tear_down).
THEOREM InstancesAreKeptApart == CleanTearDown /\ Spec => []NoLeftovers
<1>1. Init => OneTenant
  BY NotBoth DEF Init, OneTenant
<1>2. CleanTearDown /\ Inv /\ OneTenant /\ [Next]_vars => OneTenant'
  BY OneTenantStep
<1>3. OneTenant => NoLeftovers
  BY OneOrNone DEF OneTenant, NoLeftovers
<1>4. CASE CleanTearDown
  BY <1>1, <1>2, <1>3, <1>4, Invariance, PTL DEF Spec
<1> QED
  BY <1>4

----------------------------------------------------------------------------
(* A node in DEPLOYING or DELETING is worked on *)

\* Every recovery runs to its end: a worker is there, nobody takes the lock in
\* between, and a conductor that died starts again (a take over leaves a node
\* in DELETING alone) and comes to this node in its start.  No error is raised
\* behind a tear down, which would end the worker and leave DELETING.
Recovers ==
    /\ ~May("no worker") /\ ~May("lock taken") /\ ~May("takeover")
    /\ ~May("passed over") /\ ~May("tear down breaks off")

Busy == {"deploying", "deleting"}

\* What is proved with it: the only recovery is that of a conductor's start.
WorkedOn ==
    /\ node.state \in Busy => lock # "free" \/ recover # "no"
    /\ recover # "orphan"

\* What a step may do about it.
TakesLock == lock' # "free" /\ UNCHANGED recover
Settles == node'.state \notin Busy /\ UNCHANGED recover
Idles == node'.state = node.state /\ UNCHANGED <<lock, recover>>

LEMMA WorkedOnAfter ==
    ASSUME WorkedOn, TakesLock \/ Settles \/ Idles
    PROVE  WorkedOn'
BY DEF WorkedOn, TakesLock, Settles, Idles

LEMMA OperatorWorksOn ==
    ASSUME Inv, Operator
    PROVE  TakesLock \/ Settles \/ Idles
<1> USE Current
<1>1. ASSUME NEW i \in Instances, Claim(i)
      PROVE  Idles
  BY <1>1, OperatorRows DEF Claim, Briefly, Idles
<1>2. CASE DoNodeDeploy \/ DoNodeTearDown \/ DoAbortOnHold
  BY <1>2 DEF DoNodeDeploy, DoNodeTearDown, DoAbortOnHold, Acquire, TakesLock
<1>3. CASE Unhold
  BY <1>3, OperatorRows DEF Unhold, Moved, Busy, Settles
<1>4. CASE DoAbort
  <2>1. UNCHANGED recover
    BY <1>4 DEF DoAbort
  <2>2. node'.state \in {"wait call-back", "deploy failed"}
    BY <1>4, OperatorRows DEF Moved, SameNode
  <2> QED
    BY <2>1, <2>2 DEF Busy, Settles
<1>5. CASE UpdateMaintenance
  BY <1>5, OperatorRows DEF UpdateMaintenance, Briefly, Idles
<1> QED
  BY <1>1, <1>2, <1>3, <1>4, <1>5 DEF Operator

LEMMA WorkerWorksOn ==
    ASSUME Inv, Worker, Recovers
    PROVE  TakesLock \/ Settles
<1> USE Current
<1>1. lock = "held" /\ UNCHANGED recover
  BY DEF Worker, StartDeployment, ContinueDeployment, NextDeployStep, ExecuteSync,
     ExecuteFails, ExecuteBoot, ExecuteDown, ExecuteInAgent, ExecutePolled, ExecuteHold,
     Park, FinishDeployment, CleanUpDeployment, TearDown, Executing, Working
<1>2. lock' = lock => TakesLock
  BY <1>1 DEF TakesLock
<1>3. CASE StartDeployment \/ ContinueDeployment
  <2>1. node.state = "deploying"
    BY <1>3, AtWork DEF StartDeployment, ContinueDeployment, Working
  <2>2. lock' = lock \/ node'.state \in {"wait call-back", "deploy failed"}
    BY <1>3, <2>1, WorkerRows DEF Moved, Stay
  <2> QED
    BY <1>1, <1>2, <2>2 DEF Settles, Busy
<1>4. CASE NextDeployStep \/ ExecuteSync \/ ExecuteBoot \/ ExecuteDown \/ ExecuteInAgent
           \/ ExecutePolled
  BY <1>2, <1>4 DEF NextDeployStep, ExecuteSync, ExecuteBoot, ExecuteDown,
     ExecuteInAgent, ExecutePolled, Advance, Stay
<1>5. CASE ExecuteFails \/ ExecuteHold \/ Park \/ FinishDeployment \/ CleanUpDeployment
  <2>1. node.state = IF CleanUpDeployment THEN "deploy failed" ELSE "deploying"
    BY <1>5, AtWork DEF ExecuteFails, ExecuteHold, Park, FinishDeployment, CleanUpDeployment,
       Executing, Working
  <2>2. node'.state \in {"deploy failed", "deploy hold", "wait call-back", "active"}
    BY <1>5, <2>1, EndRows DEF Moved
  <2> QED
    BY <1>1, <2>2 DEF Settles, Busy
<1>6. CASE TearDown
  <2>1. node.state \in {"deleting", "deploy failed"}
    BY <1>6, AtWork DEF TearDown
  <2>2. node'.state \in {"cleaning", "error", "deploy failed"}
    BY <1>6, <2>1, EndRows DEF Recovers
  <2> QED
    BY <1>1, <2>2 DEF Settles, Busy
<1> QED
  BY <1>3, <1>4, <1>5, <1>6 DEF Worker

LEMMA ConductorWorksOn ==
    ASSUME Inv, Recovers,
           Heartbeats \/ HeartbeatBreaks \/ Conductor \/ CheckDeployTimeouts \/ CleaningEnds
           \/ Hardware \/ AgentLost \/ UNCHANGED vars
    PROVE  TakesLock \/ Settles \/ Idles
<1> USE Current
<1>1. CASE Heartbeats \/ HeartbeatBreaks
  <2>1. UNCHANGED recover
    BY <1>1, HeartbeatRows
  <2>2. lock' # "free" \/ node'.state \in {"wait call-back", "deploy failed"}
    BY <1>1, HeartbeatRows DEF Moved, SameNode, Acquire
  <2> QED
    BY <2>1, <2>2 DEF TakesLock, Settles, Busy
<1>2. CASE ContinueNodeDeploy
  <2>1. UNCHANGED recover
    BY <1>2 DEF ContinueNodeDeploy
  <2>2. lock' # "free" \/ (node' = node /\ lock' = lock)
    BY <1>2, ConductorRows DEF Recovers, Acquire, Briefly
  <2> QED
    BY <2>1, <2>2 DEF TakesLock, Idles
<1>3. CASE QueryJobStatus
  BY <1>3 DEF QueryJobStatus, Briefly, Idles
<1>4. CASE CheckDeployTimeouts
  BY <1>4 DEF CheckDeployTimeouts, Acquire, TakesLock
<1>5. CASE CleaningEnds
  BY <1>5, EndRows DEF CleaningEnds, Moved, Settles, Busy
<1>6. CASE Hardware \/ AgentLost \/ UNCHANGED vars
  BY <1>6 DEF Hardware, AgentBoots, AgentFinishes, JobFinishes, AgentLost, vars, Idles
<1> QED
  BY <1>1, <1>2, <1>3, <1>4, <1>5, <1>6 DEF Conductor

LEMMA WorkedOnStep ==
    ASSUME Inv, WorkedOn, Recovers, [Next]_vars
    PROVE  WorkedOn'
<1> USE Current
<1>1. CASE Crash
  BY <1>1 DEF Crash, WorkedOn
<1>2. CASE Restart
  BY <1>2 DEF Restart, WorkedOn
<1>3. CASE CorrectStuckStates
  <2>1. lock' = lock /\ recover' = "no"
    BY <1>3 DEF CorrectStuckStates
  <2>2. node'.state \in Busy => lock # "free"
    BY <1>3, ConductorRows DEF Moved, Recovers, PassedOver, Busy
  <2> QED
    BY <2>1, <2>2 DEF WorkedOn
<1>4. ~CheckOrphanNodes /\ ~CleanUpOrphan
  BY DEF CheckOrphanNodes, CleanUpOrphan, Recovers, WorkedOn
<1> QED
  BY <1>1, <1>2, <1>3, <1>4, WorkedOnAfter, OperatorWorksOn, WorkerWorksOn,
     ConductorWorksOn DEF Next, Recover

\* No node stays in DEPLOYING or DELETING with nobody to take it out again,
\* wherever a conductor dies, if it starts again, its recovery comes to the node
\* and goes through (_correct_stuck_states, which fails the nodes in
\* STUCK_STATES_TREATED_AS_FAIL that it comes to), and no error is raised between
\* a tear down and the cleaning.
THEOREM NobodyIsForgotten == Recovers /\ Spec => []DeploymentIsWorkedOn
<1>1. Init => WorkedOn
  BY DEF Init, WorkedOn, Busy
<1>2. Recovers /\ Inv /\ WorkedOn /\ [Next]_vars => WorkedOn'
  BY WorkedOnStep
<1>3. WorkedOn => DeploymentIsWorkedOn
  BY DEF WorkedOn, DeploymentIsWorkedOn, Busy
<1>4. CASE Recovers
  BY <1>1, <1>2, <1>3, <1>4, Invariance, PTL DEF Spec
<1> QED
  BY <1>4

----------------------------------------------------------------------------
(* An abort that has been accepted *)

\* A deployment that was asked to abort waits for the end of its step with
\* "abort_after" set, or is continued to find it set, or has failed.
AbortHeeded ==
    aborted =>
        /\ node.state \in {"deploying", "wait call-back"} => node.abortAfter
        /\ node.state # "deploy hold"
        /\ node.state = "deploying" => pc \in {"continue", "idle"}

\* What a step may do about it: end the deployment, leave it or take it up
\* with the request, or work for a deployment that was not asked.
EndsAbort == node'.state \notin {"deploying", "wait call-back", "deploy hold"}
PassesAbort == (aborted' => aborted) /\ (node.abortAfter => node'.abortAfter)
KeepsAbort == PassesAbort /\ node'.state = node.state /\ pc' \in {pc, "idle"}
TakesAbort ==
    /\ PassesAbort /\ pc' \in {"continue", "idle"}
    /\ node.state \in {"deploying", "wait call-back"} /\ node'.state = "deploying"
NotAsked == ~aborted'

LEMMA AbortHeededAfter ==
    ASSUME AbortHeeded, EndsAbort \/ KeepsAbort \/ TakesAbort \/ NotAsked
    PROVE  AbortHeeded'
BY DEF AbortHeeded, EndsAbort, PassesAbort, KeepsAbort, TakesAbort, NotAsked

LEMMA FreeMeansIdle == ASSUME Inv, lock = "free" PROVE pc = "idle"
BY DEF Inv, Discipline

LEMMA OperatorHeedsAbort ==
    ASSUME Inv, AbortHeeded, Operator
    PROVE  AbortHeeded'
<1> USE Current
<1>1. ASSUME NEW i \in Instances, Claim(i)
      PROVE  KeepsAbort
  <2>1. (aborted' => aborted) /\ pc' = pc
    BY <1>1 DEF Claim, Briefly, history
  <2> QED
    BY <1>1, <2>1, OperatorRows DEF KeepsAbort, PassesAbort
<1>2. CASE DoNodeDeploy
  BY <1>2, AbortHeededAfter DEF DoNodeDeploy, NotAsked
<1>3. CASE DoNodeTearDown
  BY <1>3, OperatorRows, AbortHeededAfter DEF Moved, EndsAbort
<1>4. CASE DoAbortOnHold
  <2>1. node'.state = "deploy failed"
    BY <1>4, OperatorRows DEF Moved
  <2> QED
    BY <2>1 DEF AbortHeeded
<1>5. CASE Unhold
  <2>1. UNCHANGED aborted /\ node.state = "deploy hold"
    BY <1>5 DEF Unhold, history
  <2>2. ~aborted
    BY <2>1 DEF AbortHeeded
  <2> QED
    BY <2>1, <2>2, AbortHeededAfter DEF NotAsked
<1>6. CASE DoAbort
  <2>1. \/ node'.state = "wait call-back" /\ node'.abortAfter
        \/ node'.state = "deploy failed"
    BY <1>6, OperatorRows DEF Moved, SameNode
  <2> QED
    BY <2>1 DEF AbortHeeded
<1>7. CASE UpdateMaintenance
  <2>1. (aborted' => aborted) /\ pc' = pc
    BY <1>7 DEF UpdateMaintenance, Briefly, history
  <2> QED
    BY <1>7, <2>1, OperatorRows, AbortHeededAfter DEF KeepsAbort, PassesAbort, SameStep
<1> QED
  BY <1>1, <1>2, <1>3, <1>4, <1>5, <1>6, <1>7, AbortHeededAfter DEF Operator

LEMMA WorkerHeedsAbort ==
    ASSUME Inv, AbortHeeded, Worker
    PROVE  AbortHeeded'
<1> USE Current
<1>1. lock = "held" /\ UNCHANGED aborted
  BY DEF Worker, StartDeployment, ContinueDeployment, NextDeployStep, ExecuteSync,
     ExecuteFails, ExecuteBoot, ExecuteDown, ExecuteInAgent, ExecutePolled, ExecuteHold,
     Park, FinishDeployment, CleanUpDeployment, TearDown, Executing, Working, history
<1>2. CASE ContinueDeployment
  <2>1. node.state = "deploying"
    BY <1>2, AtWork DEF ContinueDeployment, Working
  <2>2. CASE aborted
    <3>1. node.abortAfter
      BY <2>1, <2>2 DEF AbortHeeded
    <3>2. node'.state = "deploy failed"
      BY <1>2, <2>1, <3>1, WorkerRows DEF Moved
    <3> QED
      BY <1>1, <3>2 DEF AbortHeeded
  <2>3. CASE ~aborted
    BY <1>1, <2>3 DEF AbortHeeded
  <2> QED
    BY <2>2, <2>3
<1>3. CASE CleanUpDeployment \/ TearDown
  <2>1. node'.state \in {"deploy failed", "cleaning", "error", "deleting"}
    BY <1>3, AtWork, EndRows DEF CleanUpDeployment, TearDown, Moved
  <2> QED
    BY <1>1, <2>1 DEF AbortHeeded
<1>4. CASE ~ContinueDeployment /\ ~CleanUpDeployment /\ ~TearDown
  <2>1. pc \in {"start", "next", "execute", "park", "finish"}
    BY <1>4 DEF Worker, StartDeployment, NextDeployStep, ExecuteSync, ExecuteFails,
       ExecuteBoot, ExecuteDown, ExecuteInAgent, ExecutePolled, ExecuteHold, Park,
       FinishDeployment, Executing, Working
  <2>2. node.state = "deploying" /\ pc \notin {"continue", "idle"}
    BY <1>1, <2>1, AtWork
  <2>3. ~aborted
    BY <2>2 DEF AbortHeeded
  <2> QED
    BY <1>1, <2>3 DEF AbortHeeded
<1> QED
  BY <1>2, <1>3, <1>4

LEMMA OthersHeedAbort ==
    ASSUME Inv, AbortHeeded,
           CleaningEnds \/ Heartbeats \/ HeartbeatBreaks \/ Conductor \/ CheckDeployTimeouts
           \/ Recover \/ Crash \/ Hardware \/ AgentLost \/ UNCHANGED vars
    PROVE  AbortHeeded'
<1> USE Current, FreeMeansIdle
<1>1. CASE CleaningEnds
  BY <1>1, EndRows, AbortHeededAfter DEF Moved, EndsAbort
<1>2. CASE Heartbeats \/ HeartbeatBreaks
  <2>0. UNCHANGED history
    BY <1>2, HeartbeatRows
  <2>1. node.state = "wait call-back" /\ (aborted' => aborted)
    BY <1>2, <2>0, HeartbeatRows DEF history
  <2>2. \/ node'.state = "deploy failed"
        \/ node'.state = node.state /\ SameStep(node, node') /\ pc' = pc
        \/ node'.state = "deploying" /\ SameStep(node, node') /\ pc' = "continue"
    BY <1>2, HeartbeatRows DEF Moved, SameNode, Acquire
  <2>3. SameStep(node, node') => PassesAbort
    BY <2>1 DEF SameStep, PassesAbort
  <2> QED
    BY <2>1, <2>2, <2>3, AbortHeededAfter DEF EndsAbort, KeepsAbort, TakesAbort
<1>3. CASE ContinueNodeDeploy
  <2>1. (aborted' => aborted) /\ pc' \in {pc, "continue"} /\ pc = "idle"
    BY <1>3 DEF ContinueNodeDeploy, history, Acquire, Briefly
  <2>2. \/ /\ node.state \in {"deploying", "wait call-back"} /\ node'.state = "deploying"
           /\ SameStep(node, node')
        \/ node' = node /\ pc' = pc
    BY <1>3, ConductorRows DEF Moved, SameStep, Briefly
  <2>3. SameStep(node, node') \/ node' = node => PassesAbort
    BY <2>1 DEF SameStep, PassesAbort
  <2> QED
    BY <2>1, <2>2, <2>3, AbortHeededAfter DEF TakesAbort, KeepsAbort
<1>4. CASE QueryJobStatus \/ Hardware \/ AgentLost \/ UNCHANGED vars
  <2>1. UNCHANGED <<node, pc, aborted>>
    BY <1>4 DEF QueryJobStatus, Briefly, Hardware, AgentBoots, AgentFinishes, JobFinishes,
       AgentLost, vars, history
  <2>2. KeepsAbort
    BY <2>1 DEF KeepsAbort, PassesAbort
  <2> QED
    BY <2>2, AbortHeededAfter
<1>5. CASE CheckDeployTimeouts
  BY <1>5, ConductorRows, AbortHeededAfter DEF Moved, EndsAbort
<1>6. CASE Recover \/ Crash
  <2>1. UNCHANGED aborted /\ pc' \in {pc, "idle"}
    BY <1>6 DEF Recover, Restart, CorrectStuckStates, CheckOrphanNodes, CleanUpOrphan, Crash,
       history
  <2>2. node' = node \/ node'.state \in {"deploy failed", "error"}
    BY <1>6, ConductorRows DEF Recover, Restart, CheckOrphanNodes, Crash, Moved
  <2>3. node' = node => KeepsAbort
    BY <2>1 DEF KeepsAbort, PassesAbort
  <2> QED
    BY <2>2, <2>3, AbortHeededAfter DEF EndsAbort
<1> QED
  BY <1>1, <1>2, <1>3, <1>4, <1>5, <1>6 DEF Conductor

\* Once an abort is accepted no further step is started, whether the node waits
\* in DEPLOYWAIT or a step is still on its way, and whoever dies meanwhile
\* (_do_abort, continue_node_deploy).
THEOREM NoStepAfterAbort == Spec => AbortIsFinal
<1>1. Init => AbortHeeded
  BY DEF Init, AbortHeeded
<1>2. Inv /\ AbortHeeded /\ [Next]_vars => AbortHeeded'
  BY OperatorHeedsAbort, WorkerHeedsAbort, OthersHeedAbort DEF Next
<1>3. Inv /\ AbortHeeded /\ [Next]_vars
      => [Working("next") /\ pc' = "execute" => ~aborted]_vars
  <2> SUFFICES ASSUME Inv, AbortHeeded, Working("next")
               PROVE  ~aborted
    OBVIOUS
  <2>1. node.state = "deploying" /\ pc = "next"
    BY AtWork DEF Working
  <2> QED
    BY <2>1 DEF AbortHeeded
<1> QED
  BY <1>1, <1>2, <1>3, Invariance, PTL DEF Spec, AbortIsFinal

=============================================================================

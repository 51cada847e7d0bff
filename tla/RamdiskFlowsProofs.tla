------------------------- MODULE RamdiskFlowsProofs -------------------------
(***************************************************************************)
(* What holds of RamdiskFlows for every number of requests and crashes:    *)
(* what a rescue, an inspection and their failures leave to the instance.  *)
(***************************************************************************)
EXTENDS RamdiskFlows, TLAPS

----------------------------------------------------------------------------
(* Events *)

LEMMA SuccessorIs ==
    ASSUME NEW s \in States, NEW e, NEW t, <<e, t>> \in Moves(s)
    PROVE  Successor(s, e) = t /\ Allowed(s, e)
<1> DEFINE u == Successor(s, e)
<1>1. <<e, t>>[1] = e /\ <<e, t>>[2] = t /\ <<e, u>>[1] = e /\ <<e, u>>[2] = u
  OBVIOUS
<1>2. t \in States
  BY <1>1, TransitionsAreAFunction
<1>3. <<e, u>> \in Moves(s)
  BY <1>2 DEF Successor
<1> HIDE DEF u
<1>4. u = t
  BY <1>1, <1>3, TransitionsAreAFunction
<1> QED
  BY <1>2, <1>4 DEF Allowed, u

RowStates == {"active", "deleting", "error", "cleaning", "manageable"}
                 \cup RescueStates \cup InspectionStates \cup EntryStates

LEMMA RowStatesAreStates == RowStates \subseteq States
BY DEF RowStates, RescueStates, InspectionStates, EntryStates, States, Stable, CleanStates

LEMMA MovesOfRescue ==
    /\ Moves("active") =
          {<<"rebuild", "deploying">>, <<"delete", "deleting">>,
           <<"rescue", "rescuing">>, <<"service", "servicing">>}
    /\ Moves("rescuing") =
          {<<"done", "rescue">>, <<"wait", "rescue wait">>, <<"fail", "rescue failed">>}
    /\ Moves("rescue wait") =
          {<<"resume", "rescuing">>, <<"fail", "rescue failed">>,
           <<"abort", "rescue failed">>, <<"delete", "deleting">>}
    /\ Moves("rescue") =
          {<<"rescue", "rescuing">>, <<"delete", "deleting">>, <<"unrescue", "unrescuing">>}
    /\ Moves("rescue failed") =
          {<<"rescue", "rescuing">>, <<"unrescue", "unrescuing">>, <<"delete", "deleting">>}
    /\ Moves("unrescuing") = {<<"done", "active">>, <<"fail", "unrescue failed">>}
    /\ Moves("unrescue failed") =
          {<<"rescue", "rescuing">>, <<"unrescue", "unrescuing">>, <<"delete", "deleting">>}
BY DEF Moves

LEMMA MovesOfTheRest ==
    /\ Moves("deleting") = {<<"fail", "error">>, <<"clean", "cleaning">>}
    /\ Moves("error") = {<<"rebuild", "deploying">>, <<"delete", "deleting">>}
    /\ Moves("cleaning") =
          {<<"done", "available">>, <<"fail", "clean failed">>, <<"wait", "clean wait">>,
           <<"hold", "clean hold">>, <<"manage", "manageable">>}
    /\ Moves("manageable") =
          {<<"provide", "cleaning">>, <<"clean", "cleaning">>,
           <<"inspect", "inspecting">>, <<"adopt", "adopting">>}
    /\ Moves("inspecting") =
          {<<"done", "manageable">>, <<"fail", "inspect failed">>, <<"wait", "inspect wait">>}
    /\ Moves("inspect wait") =
          {<<"done", "manageable">>, <<"fail", "inspect failed">>,
           <<"abort", "inspect failed">>, <<"resume", "inspecting">>}
    /\ Moves("inspect failed") = {<<"manage", "manageable">>, <<"inspect", "inspecting">>}
    /\ Moves("enroll") = {<<"manage", "verifying">>}
    /\ Moves("verifying") = {<<"done", "manageable">>, <<"fail", "enroll">>}
    /\ Moves("adopting") = {<<"done", "active">>, <<"fail", "adopt failed">>}
    /\ Moves("adopt failed") = {<<"adopt", "adopting">>, <<"manage", "manageable">>}
BY DEF Moves

\* The events of the flows, and what they lead to.
Leads(s, e, t) == Successor(s, e) = t /\ Allowed(s, e)

LEMMA EventsOfRescue ==
    /\ Leads("active", "rescue", "rescuing")
    /\ Leads("rescue", "rescue", "rescuing")
    /\ Leads("rescue failed", "rescue", "rescuing")
    /\ Leads("unrescue failed", "rescue", "rescuing")
    /\ Leads("rescuing", "wait", "rescue wait")
    /\ Leads("rescuing", "done", "rescue")
    /\ Leads("rescuing", "fail", "rescue failed")
    /\ Leads("rescue wait", "resume", "rescuing")
    /\ Leads("rescue wait", "fail", "rescue failed")
    /\ Leads("rescue wait", "abort", "rescue failed")
    /\ Leads("rescue", "unrescue", "unrescuing")
    /\ Leads("rescue failed", "unrescue", "unrescuing")
    /\ Leads("unrescue failed", "unrescue", "unrescuing")
    /\ Leads("unrescuing", "done", "active")
    /\ Leads("unrescuing", "fail", "unrescue failed")
<1>1. RescueStates \cup {"active"} \subseteq States
  BY RowStatesAreStates DEF RowStates
<1>2. ASSUME NEW s \in States, NEW e, NEW t, <<e, t>> \in Moves(s)
      PROVE  Leads(s, e, t)
  BY <1>2, SuccessorIs DEF Leads
<1>3. /\ Leads("active", "rescue", "rescuing")
      /\ Leads("rescue", "rescue", "rescuing")
      /\ Leads("rescue failed", "rescue", "rescuing")
      /\ Leads("unrescue failed", "rescue", "rescuing")
  BY <1>1, <1>2, MovesOfRescue DEF RescueStates
<1>4. /\ Leads("rescuing", "wait", "rescue wait")
      /\ Leads("rescuing", "done", "rescue")
      /\ Leads("rescuing", "fail", "rescue failed")
      /\ Leads("rescue wait", "resume", "rescuing")
      /\ Leads("rescue wait", "fail", "rescue failed")
      /\ Leads("rescue wait", "abort", "rescue failed")
  BY <1>1, <1>2, MovesOfRescue DEF RescueStates
<1>5. /\ Leads("rescue", "unrescue", "unrescuing")
      /\ Leads("rescue failed", "unrescue", "unrescuing")
      /\ Leads("unrescue failed", "unrescue", "unrescuing")
      /\ Leads("unrescuing", "done", "active")
      /\ Leads("unrescuing", "fail", "unrescue failed")
  BY <1>1, <1>2, MovesOfRescue DEF RescueStates
<1> QED
  BY <1>3, <1>4, <1>5

LEMMA EventsOfTheRest ==
    /\ Leads("inspecting", "done", "manageable")
    /\ Leads("inspecting", "fail", "inspect failed")
    /\ Leads("inspecting", "wait", "inspect wait")
    /\ Leads("inspect wait", "resume", "inspecting")
    /\ Leads("inspect wait", "fail", "inspect failed")
    /\ Leads("inspect wait", "abort", "inspect failed")
    /\ Leads("inspect failed", "manage", "manageable")
    /\ Leads("inspect failed", "inspect", "inspecting")
    /\ Leads("manageable", "inspect", "inspecting")
    /\ Leads("manageable", "provide", "cleaning")
    /\ Leads("manageable", "adopt", "adopting")
    /\ Leads("adopt failed", "adopt", "adopting")
    /\ Leads("adopt failed", "manage", "manageable")
    /\ Leads("adopting", "done", "active")
    /\ Leads("adopting", "fail", "adopt failed")
    /\ Leads("enroll", "manage", "verifying")
    /\ Leads("verifying", "done", "manageable")
    /\ Leads("verifying", "fail", "enroll")
    /\ Leads("deleting", "clean", "cleaning")
    /\ Leads("deleting", "fail", "error")
<1>1. /\ InspectionStates \cup EntryStates \subseteq States
      /\ {"manageable", "deleting"} \subseteq States
  BY RowStatesAreStates DEF RowStates
<1>2. ASSUME NEW s \in States, NEW e, NEW t, <<e, t>> \in Moves(s)
      PROVE  Leads(s, e, t)
  BY <1>2, SuccessorIs DEF Leads
<1>3. /\ Leads("inspecting", "done", "manageable")
      /\ Leads("inspecting", "fail", "inspect failed")
      /\ Leads("inspecting", "wait", "inspect wait")
      /\ Leads("inspect wait", "resume", "inspecting")
      /\ Leads("inspect wait", "fail", "inspect failed")
      /\ Leads("inspect wait", "abort", "inspect failed")
  BY <1>1, <1>2, MovesOfTheRest DEF InspectionStates
<1>4. /\ Leads("inspect failed", "manage", "manageable")
      /\ Leads("inspect failed", "inspect", "inspecting")
      /\ Leads("manageable", "inspect", "inspecting")
      /\ Leads("manageable", "provide", "cleaning")
      /\ Leads("manageable", "adopt", "adopting")
  BY <1>1, <1>2, MovesOfTheRest DEF InspectionStates
<1>5. /\ Leads("adopt failed", "adopt", "adopting")
      /\ Leads("adopt failed", "manage", "manageable")
      /\ Leads("adopting", "done", "active")
      /\ Leads("adopting", "fail", "adopt failed")
      /\ Leads("enroll", "manage", "verifying")
  BY <1>1, <1>2, MovesOfTheRest DEF EntryStates
<1>6. /\ Leads("verifying", "done", "manageable")
      /\ Leads("verifying", "fail", "enroll")
      /\ Leads("deleting", "clean", "cleaning")
      /\ Leads("deleting", "fail", "error")
  BY <1>1, <1>2, MovesOfTheRest DEF EntryStates
<1> QED
  BY <1>3, <1>4, <1>5, <1>6

\* The states that a rescue and an unrescue start from.
Rescuable == {"active", "rescue", "rescue failed", "unrescue failed"}
Unrescuable == {"rescue", "rescue failed", "unrescue failed"}

\* Every other event is refused: no move bears its name.
LEMMA RefusedInRescue ==
    /\ ~Allowed("rescuing", "rescue") /\ ~Allowed("rescue wait", "rescue")
    /\ ~Allowed("unrescuing", "rescue")
    /\ ~Allowed("active", "unrescue") /\ ~Allowed("rescuing", "unrescue")
    /\ ~Allowed("rescue wait", "unrescue") /\ ~Allowed("unrescuing", "unrescue")
    /\ ~Allowed("active", "inspect") /\ ~Allowed("rescuing", "inspect")
    /\ ~Allowed("rescue wait", "inspect") /\ ~Allowed("rescue", "inspect")
    /\ ~Allowed("rescue failed", "inspect") /\ ~Allowed("unrescuing", "inspect")
    /\ ~Allowed("unrescue failed", "inspect")
    /\ ~Allowed("rescuing", "delete") /\ ~Allowed("unrescuing", "delete")
    /\ ~Allowed("rescue failed", "fail")
<1>1. /\ ~Allowed("rescuing", "rescue") /\ ~Allowed("rescue wait", "rescue")
      /\ ~Allowed("unrescuing", "rescue")
  BY MovesOfRescue DEF Allowed
<1>2. /\ ~Allowed("active", "unrescue") /\ ~Allowed("rescuing", "unrescue")
      /\ ~Allowed("rescue wait", "unrescue") /\ ~Allowed("unrescuing", "unrescue")
  BY MovesOfRescue DEF Allowed
<1>3. /\ ~Allowed("active", "inspect") /\ ~Allowed("rescuing", "inspect")
      /\ ~Allowed("rescue wait", "inspect") /\ ~Allowed("rescue", "inspect")
      /\ ~Allowed("rescue failed", "inspect") /\ ~Allowed("unrescuing", "inspect")
      /\ ~Allowed("unrescue failed", "inspect")
  BY MovesOfRescue DEF Allowed
<1>4. /\ ~Allowed("rescuing", "delete") /\ ~Allowed("unrescuing", "delete")
  BY MovesOfRescue DEF Allowed
<1>5. /\ ~Allowed("rescue failed", "fail")
  BY MovesOfRescue DEF Allowed
<1> QED
  BY <1>1, <1>2, <1>3, <1>4, <1>5

LEMMA RefusedInTheRest ==
    /\ ~Allowed("deleting", "rescue") /\ ~Allowed("error", "rescue")
    /\ ~Allowed("cleaning", "rescue") /\ ~Allowed("manageable", "rescue")
    /\ ~Allowed("inspecting", "rescue") /\ ~Allowed("inspect wait", "rescue")
    /\ ~Allowed("inspect failed", "rescue") /\ ~Allowed("enroll", "rescue")
    /\ ~Allowed("verifying", "rescue") /\ ~Allowed("adopting", "rescue")
    /\ ~Allowed("adopt failed", "rescue")
    /\ ~Allowed("deleting", "unrescue") /\ ~Allowed("error", "unrescue")
    /\ ~Allowed("cleaning", "unrescue") /\ ~Allowed("manageable", "unrescue")
    /\ ~Allowed("inspecting", "unrescue") /\ ~Allowed("inspect wait", "unrescue")
    /\ ~Allowed("inspect failed", "unrescue") /\ ~Allowed("enroll", "unrescue")
    /\ ~Allowed("verifying", "unrescue") /\ ~Allowed("adopting", "unrescue")
    /\ ~Allowed("adopt failed", "unrescue")
    /\ ~Allowed("deleting", "inspect") /\ ~Allowed("error", "inspect")
    /\ ~Allowed("cleaning", "inspect") /\ ~Allowed("inspecting", "inspect")
    /\ ~Allowed("inspect wait", "inspect") /\ ~Allowed("enroll", "inspect")
    /\ ~Allowed("verifying", "inspect") /\ ~Allowed("adopting", "inspect")
    /\ ~Allowed("adopt failed", "inspect")
    /\ ~Allowed("deleting", "delete") /\ ~Allowed("cleaning", "delete")
    /\ ~Allowed("manageable", "delete") /\ ~Allowed("inspecting", "delete")
    /\ ~Allowed("inspect wait", "delete") /\ ~Allowed("inspect failed", "delete")
    /\ ~Allowed("enroll", "delete") /\ ~Allowed("verifying", "delete")
    /\ ~Allowed("adopting", "delete") /\ ~Allowed("adopt failed", "delete")
    /\ ~Allowed("inspect failed", "fail")
    /\ ~Allowed("inspect failed", "done")
    /\ ~Allowed("inspect failed", "abort")
<1>1. /\ ~Allowed("deleting", "rescue") /\ ~Allowed("error", "rescue")
      /\ ~Allowed("cleaning", "rescue") /\ ~Allowed("manageable", "rescue")
      /\ ~Allowed("inspecting", "rescue") /\ ~Allowed("inspect wait", "rescue")
      /\ ~Allowed("inspect failed", "rescue") /\ ~Allowed("enroll", "rescue")
      /\ ~Allowed("verifying", "rescue") /\ ~Allowed("adopting", "rescue")
      /\ ~Allowed("adopt failed", "rescue")
  BY MovesOfTheRest DEF Allowed
<1>2. /\ ~Allowed("deleting", "unrescue") /\ ~Allowed("error", "unrescue")
      /\ ~Allowed("cleaning", "unrescue") /\ ~Allowed("manageable", "unrescue")
      /\ ~Allowed("inspecting", "unrescue") /\ ~Allowed("inspect wait", "unrescue")
      /\ ~Allowed("inspect failed", "unrescue") /\ ~Allowed("enroll", "unrescue")
      /\ ~Allowed("verifying", "unrescue") /\ ~Allowed("adopting", "unrescue")
      /\ ~Allowed("adopt failed", "unrescue")
  BY MovesOfTheRest DEF Allowed
<1>3. /\ ~Allowed("deleting", "inspect") /\ ~Allowed("error", "inspect")
      /\ ~Allowed("cleaning", "inspect") /\ ~Allowed("inspecting", "inspect")
      /\ ~Allowed("inspect wait", "inspect") /\ ~Allowed("enroll", "inspect")
      /\ ~Allowed("verifying", "inspect") /\ ~Allowed("adopting", "inspect")
      /\ ~Allowed("adopt failed", "inspect")
  BY MovesOfTheRest DEF Allowed
<1>4. /\ ~Allowed("deleting", "delete") /\ ~Allowed("cleaning", "delete")
      /\ ~Allowed("manageable", "delete") /\ ~Allowed("inspecting", "delete")
      /\ ~Allowed("inspect wait", "delete") /\ ~Allowed("inspect failed", "delete")
      /\ ~Allowed("enroll", "delete") /\ ~Allowed("verifying", "delete")
      /\ ~Allowed("adopting", "delete") /\ ~Allowed("adopt failed", "delete")
  BY MovesOfTheRest DEF Allowed
<1>5. /\ ~Allowed("inspect failed", "fail")
  BY MovesOfTheRest DEF Allowed
<1>6. /\ ~Allowed("inspect failed", "done")
  BY MovesOfTheRest DEF Allowed
<1>7. /\ ~Allowed("inspect failed", "abort")
  BY MovesOfTheRest DEF Allowed
<1> QED
  BY <1>1, <1>2, <1>3, <1>4, <1>5, <1>6, <1>7

LEMMA Guards ==
    ASSUME NEW s \in RowStates
    PROVE  /\ Allowed(s, "rescue") => s \in Rescuable
           /\ Allowed(s, "unrescue") => s \in Unrescuable
           /\ Allowed(s, "inspect") => s \in {"manageable", "inspect failed"}
           /\ Allowed(s, "delete") => /\ s \in {"error", "rescue wait"} \cup Rescuable
                                      /\ Successor(s, "delete") = "deleting"
<1>1. Allowed(s, "rescue") => s \in Rescuable
  BY RefusedInRescue, RefusedInTheRest
  DEF Rescuable, RowStates, RescueStates, InspectionStates, EntryStates
<1>2. Allowed(s, "unrescue") => s \in Unrescuable
  BY RefusedInRescue, RefusedInTheRest
  DEF Unrescuable, RowStates, RescueStates, InspectionStates, EntryStates
<1>3. Allowed(s, "inspect") => s \in {"manageable", "inspect failed"}
  BY RefusedInRescue, RefusedInTheRest
  DEF RowStates, RescueStates, InspectionStates, EntryStates
<1>4. Allowed(s, "delete") => s \in {"error", "rescue wait"} \cup Rescuable
  BY RefusedInRescue, RefusedInTheRest
  DEF Rescuable, RowStates, RescueStates, InspectionStates, EntryStates
<1>5. s \in {"error", "rescue wait"} \cup Rescuable => <<"delete", "deleting">> \in Moves(s)
  BY MovesOfRescue, MovesOfTheRest DEF Rescuable
<1>6. s \in States
  BY RowStatesAreStates
<1> QED
  BY <1>1, <1>2, <1>3, <1>4, <1>5, <1>6, SuccessorIs

----------------------------------------------------------------------------
(* What the operations make of the row *)

NodeRows == [state : RowStates, password : {0} \cup Passwords, token : BOOLEAN,
             manages : BOOLEAN, started : BOOLEAN, maintenance : BOOLEAN]

\* "m" is the row "n" in the state "t", with its password and its boot ...
Kept(n, m, t) ==
    /\ m \in NodeRows /\ m.state = t
    /\ m.password = n.password
    /\ m.manages <=> n.manages

\* ... or without the password ...
Cleared(n, m, t) ==
    /\ m \in NodeRows /\ m.state = t
    /\ m.password = 0
    /\ m.manages <=> n.manages

\* ... or with a boot that ironic manages no more.
LetGo(n, m, t) ==
    /\ m \in NodeRows /\ m.state = t
    /\ m.password = n.password
    /\ ~m.manages

LEMMA FiredRow ==
    ASSUME NEW n \in NodeRows, NEW e, NEW t \in RowStates, Leads(n.state, e, t)
    PROVE  Kept(n, Fired(n, e), t)
BY DEF Fired, Moved, Kept, NodeRows, Leads

LEMMA MovedRow ==
    ASSUME NEW n \in NodeRows, NEW t \in RowStates
    PROVE  Kept(n, Moved(n, t), t)
BY DEF Moved, Kept, NodeRows

LEMMA EditedRow ==
    ASSUME NEW n \in NodeRows
    PROVE  /\ n.state \in RowStates
           /\ Kept(n, n, n.state)
           /\ Kept(n, [n EXCEPT !.token = FALSE], n.state)
           /\ Kept(n, [n EXCEPT !.started = TRUE], n.state)
           /\ Kept(n, [n EXCEPT !.started = FALSE], n.state)
           /\ Kept(n, [n EXCEPT !.maintenance = TRUE], n.state)
           /\ Kept(n, [n EXCEPT !.maintenance = ~@], n.state)
           /\ Cleared(n, Forgotten(n), n.state)
           /\ LetGo(n, [n EXCEPT !.manages = FALSE], n.state)
           /\ LetGo(n, [n EXCEPT !.manages = FALSE, !.token = FALSE], n.state)
<1>1. /\ n.state \in RowStates
      /\ Kept(n, n, n.state)
      /\ Kept(n, [n EXCEPT !.token = FALSE], n.state)
  BY DEF Kept, NodeRows
<1>2. /\ Kept(n, [n EXCEPT !.started = TRUE], n.state)
      /\ Kept(n, [n EXCEPT !.started = FALSE], n.state)
  BY DEF Kept, NodeRows
<1>3. /\ Kept(n, [n EXCEPT !.maintenance = TRUE], n.state)
      /\ Kept(n, [n EXCEPT !.maintenance = ~@], n.state)
  BY DEF Kept, NodeRows
<1>4. Cleared(n, Forgotten(n), n.state)
  BY DEF Cleared, Forgotten, NodeRows
<1>5. /\ LetGo(n, [n EXCEPT !.manages = FALSE], n.state)
      /\ LetGo(n, [n EXCEPT !.manages = FALSE, !.token = FALSE], n.state)
  BY DEF LetGo, NodeRows
<1> QED
  BY <1>1, <1>2, <1>3, <1>4, <1>5

LEMMA Afterwards ==
    ASSUME NEW n, NEW m, NEW l, NEW s, NEW t
    PROVE  /\ Kept(n, m, s) /\ Kept(m, l, t) => Kept(n, l, t)
           /\ Kept(n, m, s) /\ LetGo(m, l, t) => LetGo(n, l, t)
           /\ Cleared(n, m, s) /\ Kept(m, l, t) => Cleared(n, l, t)
           /\ LetGo(n, m, s) /\ Kept(m, l, t) => LetGo(n, l, t)
BY DEF Kept, Cleared, LetGo

----------------------------------------------------------------------------
(* Where the holder of the lock finds the node *)

BeforeFinalize == {"off", "detach", "attach", "boot"}
Unrescuing == {"stop", "clean", "restore", "start"}

\* The lock keeps everybody else from the state.
Placed ==
    LET s == node.state IN
    /\ lock = "held" <=> pc # "idle"
    /\ pc = "asked" => s \in {"rescue wait"} \cup Rescuable
    /\ pc \in BeforeFinalize \cup {"finalize", "reattach"} => s = "rescuing"
    /\ pc = "handle" => s \in {"rescuing", "rescue wait", "rescue failed"}
    /\ pc = "abort" => s = "rescue failed"
    /\ pc \in Unrescuing => s = "unrescuing"
    /\ pc = "delete" => s = "deleting"
    /\ pc \in {"prepare", "launch", "process", "undo"} => s = "inspecting"
    /\ pc \in {"store", "handle inspection"} => s \in {"inspecting", "inspect failed"}
    /\ pc = "halt" => s = "inspect wait"
    /\ pc = "verify" => s = "verifying"
    /\ pc = "adopt" => s = "adopting"
    /\ pc = "take over" => s = "active"

LEMMA StatesOfRows ==
    /\ RescueStates \subseteq RowStates /\ InspectionStates \subseteq RowStates
    /\ EntryStates \subseteq RowStates
    /\ {"active", "deleting", "error", "cleaning", "manageable"} \subseteq RowStates
BY DEF RowStates

LEMMA RescueRows ==
    ASSUME node \in NodeRows, Placed
    PROVE  /\ AcceptRescue => Kept(node, node', "rescuing")
           /\ RefuseRescue => \/ Cleared(node, node', node.state)
                              \/ May("network error") /\ Kept(node, node', node.state)
           /\ RescueBoots => Kept(node, node', "rescue wait")
           /\ RescueFails => Cleared(node, node', "rescue failed")
           /\ HeartbeatFinalizes => Kept(node, node', "rescuing")
           /\ FinalizeCleansUp => Cleared(node, node', "rescuing")
           /\ FinalizeReattaches => Kept(node, node', "rescue")
<1> USE StatesOfRows DEF RescueStates
<1>1. AcceptRescue => Kept(node, node', "rescuing")
  <2> SUFFICES ASSUME AcceptRescue PROVE Kept(node, node', "rescuing")
    OBVIOUS
  <2>1. node.state \in Rescuable /\ node' = Fired(node, "rescue")
    BY Guards, EditedRow DEF AcceptRescue
  <2>2. Leads(node.state, "rescue", "rescuing")
    BY <2>1, EventsOfRescue DEF Rescuable
  <2> QED
    BY <2>1, <2>2, FiredRow
<1>2. RefuseRescue => \/ Cleared(node, node', node.state)
                      \/ May("network error") /\ Kept(node, node', node.state)
  BY EditedRow DEF RefuseRescue
<1>3. RescueBoots => Kept(node, node', "rescue wait")
  <2>1. RescueBoots => node.state = "rescuing"
    BY DEF RescueBoots, Placed, Working, BeforeFinalize
  <2> QED
    BY <2>1, EventsOfRescue, FiredRow DEF RescueBoots
<1>4. RescueFails => Cleared(node, node', "rescue failed")
  <2> SUFFICES ASSUME RescueFails PROVE Cleared(node, node', "rescue failed")
    OBVIOUS
  <2>1. node.state = "rescuing" /\ node' = Fired(Forgotten(node), "fail")
    BY DEF RescueFails, Placed, Working, BeforeFinalize
  <2> DEFINE n == Forgotten(node)
  <2> HIDE DEF n
  <2>2. Cleared(node, n, "rescuing") /\ n \in NodeRows /\ n.state = "rescuing"
    BY <2>1, EditedRow DEF Cleared, n
  <2>3. Kept(n, Fired(n, "fail"), "rescue failed")
    BY <2>2, EventsOfRescue, FiredRow
  <2> QED
    BY <2>1, <2>2, <2>3, Afterwards DEF n
<1>5. HeartbeatFinalizes => Kept(node, node', "rescuing")
  <2>1. HeartbeatFinalizes => node.state = "rescue wait" /\ node' = Fired(node, "resume")
    BY DEF HeartbeatFinalizes, Heartbeat
  <2> QED
    BY <2>1, EventsOfRescue, FiredRow
<1>6. FinalizeCleansUp => Cleared(node, node', "rescuing")
  <2>1. FinalizeCleansUp => node.state = "rescuing"
    BY DEF FinalizeCleansUp, Placed, Working
  <2> QED
    BY <2>1, EditedRow DEF FinalizeCleansUp
<1>7. FinalizeReattaches => Kept(node, node', "rescue")
  <2>1. FinalizeReattaches => node.state = "rescuing"
    BY DEF FinalizeReattaches, Placed, Working
  <2> QED
    BY <2>1, EventsOfRescue, FiredRow DEF FinalizeReattaches
<1> QED
  BY <1>1, <1>2, <1>3, <1>4, <1>5, <1>6, <1>7

LEMMA RescueErrorRows ==
    ASSUME node \in NodeRows, Placed
    PROVE  /\ HandleError =>
                 /\ node'.state = "rescue failed"
                 /\ Kept(node, node', "rescue failed") \/ Cleared(node, node', "rescue failed")
           /\ DoAbort => \/ Cleared(node, node', "rescue failed") /\ pc' = "abort"
                         \/ Cleared(node, node', "rescue wait") /\ pc' = pc
           /\ AbortRescue => Kept(node, node', "rescue failed")
           /\ CheckRescuewaitTimeouts => Kept(node, node', "rescue failed")
<1> USE StatesOfRows DEF RescueStates
<1> DEFINE w == Forgotten(node)
<1> HIDE DEF w
<1>1. Kept(node, node, node.state) /\ Cleared(node, w, node.state)
  BY EditedRow DEF w
<1>2. w \in NodeRows /\ w.state = node.state
  BY <1>1 DEF Cleared
<1>3. HandleError =>
         /\ node'.state = "rescue failed"
         /\ Kept(node, node', "rescue failed") \/ Cleared(node, node', "rescue failed")
  <2> SUFFICES ASSUME HandleError
               PROVE  /\ node'.state = "rescue failed"
                      /\ \/ Kept(node, node', "rescue failed")
                         \/ Cleared(node, node', "rescue failed")
    OBVIOUS
  <2>1. node.state \in {"rescuing", "rescue wait", "rescue failed"}
    BY DEF HandleError, Working, Placed
  <2>2. PICK n \in {node, w} :
           node' = IF Allowed(n.state, "fail") THEN Fired(n, "fail") ELSE n
    BY DEF HandleError, w
  <2>3. n \in NodeRows /\ n.state = node.state
    BY <1>2
  <2>4. Kept(n, node', "rescue failed")
    <3>1. CASE node.state = "rescue failed"
      BY <2>2, <2>3, <3>1, RefusedInRescue, EditedRow
    <3>2. CASE node.state \in {"rescuing", "rescue wait"}
      <4>1. Leads(n.state, "fail", "rescue failed")
        BY <2>3, <3>2, EventsOfRescue
      <4>2. node' = Fired(n, "fail")
        BY <2>2, <4>1 DEF Leads
      <4> QED
        BY <2>3, <4>1, <4>2, FiredRow
    <3> QED
      BY <2>1, <3>1, <3>2
  <2>5. Kept(node, n, node.state) \/ Cleared(node, n, node.state)
    BY <1>1
  <2>6. Kept(node, node', "rescue failed") \/ Cleared(node, node', "rescue failed")
    BY <2>4, <2>5, Afterwards
  <2> QED
    BY <2>4, <2>6 DEF Kept
<1>4. DoAbort => \/ Cleared(node, node', "rescue failed") /\ pc' = "abort"
                 \/ Cleared(node, node', "rescue wait") /\ pc' = pc
  <2> SUFFICES ASSUME DoAbort
               PROVE  \/ Cleared(node, node', "rescue failed") /\ pc' = "abort"
                      \/ Cleared(node, node', "rescue wait") /\ pc' = pc
    OBVIOUS
  <2>1. /\ node.state = "rescue wait"
        /\ \/ node' = Fired(w, "abort") /\ pc' = "abort"
           \/ node' = w /\ pc' = pc
    BY DEF DoAbort, Acquire, Briefly, w
  <2>2. Kept(w, Fired(w, "abort"), "rescue failed")
    BY <1>2, <2>1, EventsOfRescue, FiredRow
  <2>3. Cleared(node, Fired(w, "abort"), "rescue failed")
    BY <1>1, <2>2, Afterwards
  <2> QED
    BY <1>1, <2>1, <2>3
<1>5. AbortRescue => Kept(node, node', "rescue failed")
  <2>1. AbortRescue => node.state = "rescue failed"
    BY DEF AbortRescue, Placed, Working
  <2> QED
    BY <2>1, EditedRow DEF AbortRescue
<1>6. CheckRescuewaitTimeouts => Kept(node, node', "rescue failed")
  BY EventsOfRescue, FiredRow DEF CheckRescuewaitTimeouts
<1> QED
  BY <1>3, <1>4, <1>5, <1>6

LEMMA UnrescueRows ==
    ASSUME node \in NodeRows, Placed
    PROVE  /\ DoNodeUnrescue => node.state \in Unrescuable /\ Kept(node, node', "unrescuing")
           /\ UnrescueCleansUp => Cleared(node, node', "unrescuing")
           /\ UnrescueBoots => Kept(node, node', "active")
           /\ UnrescueFails => Kept(node, node', "unrescue failed")
<1> USE StatesOfRows DEF RescueStates
<1>1. DoNodeUnrescue => node.state \in Unrescuable /\ Kept(node, node', "unrescuing")
  <2> SUFFICES ASSUME DoNodeUnrescue
               PROVE  node.state \in Unrescuable /\ Kept(node, node', "unrescuing")
    OBVIOUS
  <2>1. node.state \in Unrescuable /\ node' = Fired(node, "unrescue")
    BY Guards, EditedRow DEF DoNodeUnrescue
  <2>2. Leads(node.state, "unrescue", "unrescuing")
    BY <2>1, EventsOfRescue DEF Unrescuable
  <2> QED
    BY <2>1, <2>2, FiredRow
<1>2. UnrescueCleansUp => Cleared(node, node', "unrescuing")
  <2>1. UnrescueCleansUp => node.state = "unrescuing"
    BY DEF UnrescueCleansUp, Placed, Working, Unrescuing
  <2> QED
    BY <2>1, EditedRow DEF UnrescueCleansUp
<1>3. UnrescueBoots => Kept(node, node', "active")
  <2> SUFFICES ASSUME UnrescueBoots PROVE Kept(node, node', "active")
    OBVIOUS
  <2> DEFINE n == [node EXCEPT !.token = FALSE]
  <2>1. node.state = "unrescuing" /\ node' = Fired(n, "done")
    BY DEF UnrescueBoots, Placed, Working, Unrescuing
  <2>2. Kept(node, n, "unrescuing")
    BY <2>1, EditedRow
  <2> HIDE DEF n
  <2>3. n \in NodeRows /\ n.state = "unrescuing"
    BY <2>2 DEF Kept
  <2>4. Kept(n, Fired(n, "done"), "active")
    BY <2>3, EventsOfRescue, FiredRow
  <2> QED
    BY <2>1, <2>2, <2>4, Afterwards
<1>4. UnrescueFails => Kept(node, node', "unrescue failed")
  <2>1. UnrescueFails => node.state = "unrescuing" /\ node' = Fired(node, "fail")
    BY DEF UnrescueFails, Placed, Working, Unrescuing
  <2> QED
    BY <2>1, EventsOfRescue, FiredRow
<1> QED
  BY <1>1, <1>2, <1>3, <1>4

\* A clean up with errors fails the node, another one leaves it where it is.
LEMMA CleanedUpRow ==
    ASSUME NEW n \in NodeRows, n.state \in {"inspecting", "inspect wait"}, NEW errors
    PROVE  LetGo(n, CleanedUp(n, errors), IF errors = {} THEN n.state ELSE "inspect failed")
<1> DEFINE m == [n EXCEPT !.manages = FALSE]
<1>1. LetGo(n, m, n.state)
  BY EditedRow
<1>2. CleanedUp(n, errors) =
         IF errors # {} /\ Allowed(n.state, "fail") THEN Fired(m, "fail") ELSE m
  BY DEF CleanedUp
<1> HIDE DEF m
<1>3. m \in NodeRows /\ m.state = n.state
  BY <1>1 DEF LetGo
<1>4. CASE errors = {}
  BY <1>1, <1>2, <1>4
<1>5. CASE errors # {}
  <2>1. Leads(n.state, "fail", "inspect failed")
    BY EventsOfTheRest
  <2>2. Kept(m, Fired(m, "fail"), "inspect failed")
    BY <1>3, <2>1, FiredRow, StatesOfRows DEF InspectionStates
  <2>3. CleanedUp(n, errors) = Fired(m, "fail")
    BY <1>2, <1>5, <2>1 DEF Leads
  <2>4. LetGo(n, Fired(m, "fail"), "inspect failed")
    BY <1>1, <2>2, Afterwards
  <2> QED
    BY <1>5, <2>3, <2>4
<1> QED
  BY <1>4, <1>5

LEMMA InspectionRows ==
    ASSUME node \in NodeRows, Placed
    PROVE  /\ InspectHardware => /\ node.state \in {"manageable", "inspect failed"}
                                 /\ Kept(node, node', "inspecting")
           /\ InspectPrepares => /\ node' \in NodeRows /\ node'.state = "inspecting"
                                 /\ node'.password = node.password
                                 /\ node'.manages <=> ManageBoot
           /\ InspectBoots => Kept(node, node', "inspect wait")
           /\ ContinueInspection => \/ Kept(node, node', "inspecting") /\ pc' = "process"
                                    \/ Kept(node, node', "inspect wait") /\ pc' = pc
           /\ StoreInventory => \/ node.state = "inspecting" /\ Kept(node, node', "manageable")
                                \/ Kept(node, node', "inspect failed")
           /\ UndoInspection => LetGo(node, node', "inspecting")
<1> USE StatesOfRows DEF InspectionStates
<1>1. InspectHardware => /\ node.state \in {"manageable", "inspect failed"}
                         /\ Kept(node, node', "inspecting")
  <2> SUFFICES ASSUME InspectHardware
               PROVE  /\ node.state \in {"manageable", "inspect failed"}
                      /\ Kept(node, node', "inspecting")
    OBVIOUS
  <2>1. /\ node.state \in {"manageable", "inspect failed"}
        /\ node' = Fired(node, "inspect")
    BY Guards, EditedRow DEF InspectHardware
  <2>2. Leads(node.state, "inspect", "inspecting")
    BY <2>1, EventsOfTheRest
  <2> QED
    BY <2>1, <2>2, FiredRow
<1>2. InspectPrepares => /\ node' \in NodeRows /\ node'.state = "inspecting"
                         /\ node'.password = node.password
                         /\ node'.manages <=> ManageBoot
  <2>1. InspectPrepares => /\ node.state = "inspecting"
                           /\ node' = [node EXCEPT !.token = FALSE, !.manages = ManageBoot]
    BY DEF InspectPrepares, Placed, Working
  <2> QED
    BY <2>1, FlowAssumption DEF NodeRows
<1>3. InspectBoots => Kept(node, node', "inspect wait")
  <2>1. InspectBoots => node.state = "inspecting" /\ node' = Fired(node, "wait")
    BY DEF InspectBoots, Placed, Working
  <2> QED
    BY <2>1, EventsOfTheRest, FiredRow
<1>4. ContinueInspection => \/ Kept(node, node', "inspecting") /\ pc' = "process"
                            \/ Kept(node, node', "inspect wait") /\ pc' = pc
  <2>1. ContinueInspection =>
           /\ node.state = "inspect wait"
           /\ \/ node' = Fired(node, "resume") /\ pc' = "process"
              \/ node' = [node EXCEPT !.started = TRUE] /\ pc' = pc
    BY DEF ContinueInspection, Acquire, Briefly
  <2> QED
    BY <2>1, EventsOfTheRest, FiredRow, EditedRow
<1>5. StoreInventory => \/ node.state = "inspecting" /\ Kept(node, node', "manageable")
                        \/ Kept(node, node', "inspect failed")
  <2> SUFFICES ASSUME StoreInventory
               PROVE  \/ node.state = "inspecting" /\ Kept(node, node', "manageable")
                      \/ Kept(node, node', "inspect failed")
    OBVIOUS
  <2>1. /\ node.state \in {"inspecting", "inspect failed"}
        /\ node' = IF Allowed(node.state, "done") THEN Fired(node, "done") ELSE node
    BY DEF StoreInventory, Placed, Working
  <2>2. CASE node.state = "inspecting"
    BY <2>1, <2>2, EventsOfTheRest, FiredRow DEF Leads
  <2>3. CASE node.state = "inspect failed"
    BY <2>1, <2>3, RefusedInTheRest, EditedRow
  <2> QED
    BY <2>1, <2>2, <2>3
<1>6. UndoInspection => LetGo(node, node', "inspecting")
  <2>1. UndoInspection => /\ node.state = "inspecting"
                          /\ node' = [node EXCEPT !.manages = FALSE]
    BY DEF UndoInspection, Placed, Working
  <2> QED
    BY <2>1, EditedRow
<1> QED
  BY <1>1, <1>2, <1>3, <1>4, <1>5, <1>6

LEMMA InspectionErrorRows ==
    ASSUME node \in NodeRows, Placed
    PROVE  /\ ProcessCleansUp =>
                 LetGo(node, node', "inspecting") \/ LetGo(node, node', "inspect failed")
           /\ HandleInspectionError => LetGo(node, node', "inspect failed")
           /\ AbortInspection => LetGo(node, node', "inspect failed")
           /\ CheckInspectWaitTimeouts =>
                 \/ Kept(node, node', "inspect failed") /\ pc' = "handle inspection"
                 \/ Kept(node, node', "inspect wait") /\ pc' = pc
<1> USE StatesOfRows DEF InspectionStates
<1>1. ProcessCleansUp =>
         LetGo(node, node', "inspecting") \/ LetGo(node, node', "inspect failed")
  <2> SUFFICES ASSUME ProcessCleansUp
               PROVE  LetGo(node, node', "inspecting") \/ LetGo(node, node', "inspect failed")
    OBVIOUS
  <2>1. node.state = "inspecting"
    BY DEF ProcessCleansUp, Placed, Working
  <2>2. PICK errors \in SUBSET Undone(node) : node' = CleanedUp(node, errors)
    BY DEF ProcessCleansUp
  <2>3. LetGo(node, node', IF errors = {} THEN node.state ELSE "inspect failed")
    BY <2>1, <2>2, CleanedUpRow
  <2> QED
    BY <2>1, <2>3
<1>2. HandleInspectionError => LetGo(node, node', "inspect failed")
  <2> SUFFICES ASSUME HandleInspectionError PROVE LetGo(node, node', "inspect failed")
    OBVIOUS
  <2> DEFINE n == [node EXCEPT !.manages = FALSE, !.token = FALSE]
  <2>1. /\ node.state \in {"inspecting", "inspect failed"}
        /\ node' = IF Allowed(n.state, "fail") THEN Fired(n, "fail") ELSE n
    BY DEF HandleInspectionError, Placed, Working
  <2>2. LetGo(node, n, node.state)
    BY EditedRow
  <2> HIDE DEF n
  <2>3. n \in NodeRows /\ n.state = node.state
    BY <2>2 DEF LetGo
  <2>4. CASE node.state = "inspecting"
    <3>1. Kept(n, Fired(n, "fail"), "inspect failed") /\ Allowed(n.state, "fail")
      BY <2>3, <2>4, EventsOfTheRest, FiredRow DEF Leads
    <3> QED
      BY <2>1, <2>2, <3>1, Afterwards
  <2>5. CASE node.state = "inspect failed"
    BY <2>1, <2>2, <2>3, <2>5, RefusedInTheRest
  <2> QED
    BY <2>1, <2>4, <2>5
<1>3. AbortInspection => LetGo(node, node', "inspect failed")
  <2> SUFFICES ASSUME AbortInspection PROVE LetGo(node, node', "inspect failed")
    OBVIOUS
  <2> DEFINE m == [node EXCEPT !.token = FALSE]
  <2>1. node.state = "inspect wait"
    BY DEF AbortInspection, Placed, Working
  <2>2. PICK errors \in SUBSET Undone(node) :
           LET n == CleanedUp(m, errors) IN
           node' = IF Allowed(n.state, "abort") THEN Fired(n, "abort") ELSE n
    BY DEF AbortInspection
  <2>3. Kept(node, m, "inspect wait")
    BY <2>1, EditedRow
  <2> HIDE DEF m
  <2> DEFINE n == CleanedUp(m, errors)
  <2>4. node' = IF Allowed(n.state, "abort") THEN Fired(n, "abort") ELSE n
    BY <2>2
  <2>5. LetGo(m, n, IF errors = {} THEN "inspect wait" ELSE "inspect failed")
    <3>1. m \in NodeRows /\ m.state = "inspect wait"
      BY <2>3 DEF Kept
    <3> QED
      BY <3>1, CleanedUpRow
  <2> HIDE DEF n
  <2>6. LetGo(node, n, n.state) /\ n \in NodeRows
    BY <2>3, <2>5 DEF Kept, LetGo
  <2>7. CASE errors = {}
    <3>1. Leads(n.state, "abort", "inspect failed")
      BY <2>5, <2>7, EventsOfTheRest DEF LetGo
    <3>2. Kept(n, Fired(n, "abort"), "inspect failed") /\ Allowed(n.state, "abort")
      BY <2>6, <3>1, FiredRow DEF Leads
    <3> QED
      BY <2>4, <2>6, <3>2, Afterwards
  <2>8. CASE errors # {}
    <3>1. n.state = "inspect failed"
      BY <2>5, <2>8 DEF LetGo
    <3> QED
      BY <2>4, <2>6, <3>1, RefusedInTheRest
  <2> QED
    BY <2>7, <2>8
<1>4. CheckInspectWaitTimeouts =>
         \/ Kept(node, node', "inspect failed") /\ pc' = "handle inspection"
         \/ Kept(node, node', "inspect wait") /\ pc' = pc
  <2>1. CheckInspectWaitTimeouts =>
           /\ node.state = "inspect wait"
           /\ \/ node' = Fired(node, "fail") /\ pc' = "handle inspection"
              \/ node' = [node EXCEPT !.started = FALSE] /\ pc' = pc
    BY DEF CheckInspectWaitTimeouts, Acquire, Briefly
  <2> QED
    BY <2>1, EventsOfTheRest, FiredRow, EditedRow
<1> QED
  BY <1>1, <1>2, <1>3, <1>4

\* What the next start of the conductor fails: a flow that had no lock.
Corrected(n, m) ==
    \/ n.state = "rescuing" /\ Kept(n, m, "rescue failed")
    \/ n.state = "unrescuing" /\ Kept(n, m, "unrescue failed")
    \/ n.state = "inspecting" /\ Kept(n, m, "inspect failed")
    \/ n.state = "deleting" /\ Kept(n, m, "error")
    \/ n.state = "verifying" /\ Kept(n, m, "enroll")
    \/ n.state = "adopting" /\ Kept(n, m, "adopt failed")

LEMMA OtherRows ==
    ASSUME node \in NodeRows, Placed
    PROVE  /\ Verify => Kept(node, node', "verifying")
           /\ DoNodeVerify => Kept(node, node', "manageable") \/ Kept(node, node', "enroll")
           /\ Adopt => Kept(node, node', "adopting")
           /\ DoAdoption => \/ Kept(node, node', "active") /\ boots' = "instance"
                            \/ Kept(node, node', "adopt failed")
           /\ DoNodeTearDown => /\ node.state \in {"error", "rescue wait"} \cup Rescuable
                                /\ Kept(node, node', "deleting")
           /\ TearDown => \/ Cleared(node, node', "cleaning") /\ boots' = "nothing"
                          \/ Cleared(node, node', "error")
           /\ Redeploy => node.state = "cleaning" /\ Kept(node, node', "active")
           /\ Manage => /\ node.state \in {"cleaning", "inspect failed", "adopt failed"}
                        /\ Kept(node, node', "manageable")
           /\ Provide => Kept(node, node', "cleaning")
           /\ CorrectStuckStates => (Corrected(node, node') /\ lock = "free") \/ node' = node
           /\ AgentBoots => Kept(node, node', node.state)
<1> USE StatesOfRows DEF RescueStates, InspectionStates, EntryStates
<1>1. Verify => Kept(node, node', "verifying")
  <2>1. Verify => node.state = "enroll" /\ node' = Fired(node, "manage")
    BY DEF Verify
  <2> QED
    BY <2>1, EventsOfTheRest, FiredRow
<1>2. DoNodeVerify => Kept(node, node', "manageable") \/ Kept(node, node', "enroll")
  <2>1. DoNodeVerify => /\ node.state = "verifying"
                        /\ node' = Fired(node, "done") \/ node' = Fired(node, "fail")
    BY DEF DoNodeVerify, Placed, Working
  <2> QED
    BY <2>1, EventsOfTheRest, FiredRow
<1>3. Adopt => Kept(node, node', "adopting")
  <2>1. Adopt => node.state \in {"manageable", "adopt failed"} /\ node' = Fired(node, "adopt")
    BY DEF Adopt
  <2> QED
    BY <2>1, EventsOfTheRest, FiredRow
<1>4. DoAdoption => \/ Kept(node, node', "active") /\ boots' = "instance"
                    \/ Kept(node, node', "adopt failed")
  <2>1. DoAdoption => /\ node.state = "adopting"
                      /\ \/ node' = Fired(node, "done") /\ boots' = "instance"
                         \/ node' = Fired(node, "fail")
    BY DEF DoAdoption, Placed, Working
  <2> QED
    BY <2>1, EventsOfTheRest, FiredRow
<1>5. DoNodeTearDown => /\ node.state \in {"error", "rescue wait"} \cup Rescuable
                        /\ Kept(node, node', "deleting")
  <2>1. node.state \in RowStates
    BY EditedRow
  <2>2. DoNodeTearDown => Allowed(node.state, "delete") /\ node' = Fired(node, "delete")
    BY DEF DoNodeTearDown
  <2>3. Allowed(node.state, "delete") => /\ Leads(node.state, "delete", "deleting")
                                        /\ node.state \in {"error", "rescue wait"} \cup Rescuable
    BY <2>1, Guards DEF Leads
  <2>4. Leads(node.state, "delete", "deleting") => Kept(node, Fired(node, "delete"), "deleting")
    BY FiredRow
  <2> QED
    BY <2>2, <2>3, <2>4
<1>6. TearDown => \/ Cleared(node, node', "cleaning") /\ boots' = "nothing"
                  \/ Cleared(node, node', "error")
  <2> SUFFICES ASSUME TearDown
               PROVE  \/ Cleared(node, node', "cleaning") /\ boots' = "nothing"
                      \/ Cleared(node, node', "error")
    OBVIOUS
  <2> DEFINE w == Forgotten(node)
  <2>1. /\ node.state = "deleting"
        /\ \/ node' = Fired(w, "clean") /\ boots' = "nothing"
           \/ node' = Fired(w, "fail")
    BY DEF TearDown, Placed, Working
  <2>2. Cleared(node, w, "deleting")
    BY <2>1, EditedRow
  <2> HIDE DEF w
  <2>3. w \in NodeRows /\ w.state = "deleting"
    BY <2>2 DEF Cleared
  <2>4. Kept(w, Fired(w, "clean"), "cleaning") /\ Kept(w, Fired(w, "fail"), "error")
    BY <2>3, EventsOfTheRest, FiredRow
  <2>5. Cleared(node, Fired(w, "clean"), "cleaning") /\ Cleared(node, Fired(w, "fail"), "error")
    BY <2>2, <2>4, Afterwards
  <2> QED
    BY <2>1, <2>5
<1>7. Redeploy => node.state = "cleaning" /\ Kept(node, node', "active")
  <2>1. Redeploy => /\ node.state = "cleaning"
                    /\ node' = [node EXCEPT !.state = "active", !.token = FALSE]
    BY DEF Redeploy
  <2> QED
    BY <2>1 DEF Kept, NodeRows
<1>8. Manage => /\ node.state \in {"cleaning", "inspect failed", "adopt failed"}
                /\ Kept(node, node', "manageable")
  <2>1. Manage =>
           \/ node.state = "cleaning" /\ node' = Moved(node, "manageable")
           \/ node.state \in {"inspect failed", "adopt failed"} /\ node' = Fired(node, "manage")
    BY DEF Manage
  <2> QED
    BY <2>1, EventsOfTheRest, FiredRow, MovedRow
<1>9. Provide => Kept(node, node', "cleaning")
  <2>1. Provide => node.state = "manageable" /\ node' = Fired(node, "provide")
    BY DEF Provide
  <2> QED
    BY <2>1, EventsOfTheRest, FiredRow
<1>10. CorrectStuckStates => (Corrected(node, node') /\ lock = "free") \/ node' = node
  <2> SUFFICES ASSUME CorrectStuckStates, node' # node
               PROVE  Corrected(node, node') /\ lock = "free"
    OBVIOUS
  <2>1. node.state \in StuckStates /\ lock = "free" /\ node' = Fired(node, "fail")
    BY DEF CorrectStuckStates
  <2>2. CASE node.state \in {"rescuing", "unrescuing"}
    BY <2>1, <2>2, EventsOfRescue, FiredRow DEF Corrected
  <2>3. CASE node.state \in {"verifying", "inspecting", "adopting", "deleting"}
    BY <2>1, <2>3, EventsOfTheRest, FiredRow DEF Corrected
  <2> QED
    BY <2>1, <2>2, <2>3 DEF StuckStates
<1>11. AgentBoots => Kept(node, node', node.state)
  BY DEF AgentBoots, Kept, NodeRows
<1> QED
  BY <1>1, <1>2, <1>3, <1>4, <1>5, <1>6, <1>7, <1>8, <1>9, <1>10, <1>11

----------------------------------------------------------------------------
(* The actions by the flow they belong to *)

RescueWork ==
    \/ AcceptRescue \/ RefuseRescue \/ RescuePowersOff \/ RescueDetaches
    \/ RescueAttaches \/ RescueBoots \/ RescueFails \/ FinalizeCleansUp
    \/ FinalizeReattaches \/ FinalizeFails \/ HandleError \/ AbortRescue

RescueCalls ==
    \/ DoNodeRescue \/ HeartbeatFinalizes \/ HeartbeatFails \/ HeartbeatInMaintenance
    \/ DoAbort \/ CheckRescuewaitTimeouts

UnrescueWork ==
    \/ DoNodeUnrescue \/ UnrescuePowersOff \/ UnrescueCleansUp \/ UnrescueRestores
    \/ UnrescueBoots \/ UnrescueFails

InspectionWork ==
    \/ InspectHardware \/ InspectPrepares \/ InspectBoots \/ InspectFails
    \/ ContinueInspection \/ ProcessCleansUp \/ StoreInventory \/ ProcessFails
    \/ UndoInspection \/ HandleInspectionError \/ DoAbortInspection \/ AbortInspection
    \/ CheckInspectWaitTimeouts

OtherWork ==
    \/ Verify \/ DoNodeVerify \/ Adopt \/ DoAdoption \/ SyncLocalState \/ DoTakeover
    \/ DoNodeTearDown \/ TearDown \/ Redeploy \/ Manage \/ Provide \/ UpdateMaintenance

Accidents ==
    \/ Crash \/ Restart \/ CorrectStuckStates \/ CheckOrphanNodes \/ AgentBoots
    \/ AgentReports \/ ReportLost \/ AgentLost

LEMMA ActionsByFlow ==
    Next <=> \/ RescueWork \/ RescueCalls \/ UnrescueWork
             \/ InspectionWork \/ OtherWork \/ Accidents
BY DEF Next, Worker, Operator, Heartbeats, Recover, Timeouts, Hardware,
       RescueWork, RescueCalls, UnrescueWork, InspectionWork, OtherWork, Accidents

----------------------------------------------------------------------------
(* Types *)

\* An action that leaves the row alone.
LEMMA KeptRow ==
    ASSUME node \in NodeRows, node' = node
    PROVE  Kept(node, node', node.state)
BY EditedRow

\* Everything but the row.
OthersOK ==
    /\ lock \in {"free", "held", "dead"}
    /\ pc \in {"idle", "asked", "off", "detach", "attach", "boot",
               "finalize", "reattach", "handle", "abort",
               "stop", "clean", "restore", "start", "delete",
               "prepare", "launch", "process", "store", "undo", "handle inspection",
               "halt", "verify", "adopt", "take over"}
    /\ machine \in MachineType /\ calls \subseteq Inspections
    /\ boots \in {"instance", "ramdisk", "nothing"}
    /\ nets \subseteq {"tenant", "rescuing", "inspection"}
    /\ initial \in {"none", "active", "error"} \cup RescueStates
    /\ report \in {0} \cup Inspections /\ inventory \in {0} \cup Inspections
    /\ recover \in BOOLEAN /\ orphan \in BOOLEAN /\ attached \in BOOLEAN
    /\ wanted \in {0} \cup Passwords
    /\ requests \in 0..MaxRequests /\ inspections \in 0..MaxInspections
    /\ crashes \in 0..MaxCrashes

LEMMA TypeIs == TypeOK <=> node \in NodeRows /\ OthersOK
BY DEF TypeOK, OthersOK, NodeRows, RowStates

LEMMA Counters ==
    ASSUME TypeOK
    PROVE  /\ requests < MaxRequests =>
                 requests + 1 \in Passwords /\ requests + 1 \in 0..MaxRequests
           /\ inspections \in {0} \cup Inspections
           /\ inspections < MaxInspections => inspections + 1 \in 0..MaxInspections
           /\ crashes < MaxCrashes => crashes + 1 \in 0..MaxCrashes
<1>1. MaxRequests \in Nat /\ MaxInspections \in Nat /\ MaxCrashes \in Nat
  BY FlowAssumption
<1>2. requests \in 0..MaxRequests
  BY DEF TypeOK
<1>3. inspections \in 0..MaxInspections
  BY DEF TypeOK
<1>4. crashes \in 0..MaxCrashes
  BY DEF TypeOK
<1> QED
  BY <1>1, <1>2, <1>3, <1>4 DEF Passwords, Inspections

LEMMA MaintenanceRow ==
    ASSUME node \in NodeRows
    PROVE  UpdateMaintenance => Kept(node, node', node.state)
BY EditedRow DEF UpdateMaintenance

LEMMA RequestRow ==
    ASSUME TypeOK, DoNodeRescue
    PROVE  /\ node' \in NodeRows /\ node'.state = node.state
           /\ node'.password = requests + 1
           /\ node'.manages <=> node.manages
           /\ node.state \in {"rescue wait"} \cup Rescuable
<1>1. node \in NodeRows /\ node.state \in RowStates
  BY TypeIs DEF NodeRows
<1>2. requests + 1 \in Passwords
  BY Counters DEF DoNodeRescue
<1>3. node' = [node EXCEPT !.password = requests + 1, !.token = FALSE]
  BY DEF DoNodeRescue
<1>4. node' \in NodeRows /\ node'.state = node.state /\ node'.password = requests + 1
  BY <1>1, <1>2, <1>3 DEF NodeRows
<1>5. node'.manages <=> node.manages
  BY <1>1, <1>3 DEF NodeRows
<1>6. node.state \in {"rescue wait"} \cup Rescuable
  BY <1>1, Guards DEF DoNodeRescue
<1> QED
  BY <1>4, <1>5, <1>6

LEMMA RowType ==
    ASSUME TypeOK, Placed, Next
    PROVE  node' \in NodeRows
<1>1. node \in NodeRows
  BY DEF TypeOK, NodeRows, RowStates
<1>2. RescueWork => node' \in NodeRows
  <2>1. RescuePowersOff \/ RescueDetaches \/ RescueAttaches \/ FinalizeFails => node' = node
    BY DEF RescuePowersOff, RescueDetaches, RescueAttaches, FinalizeFails
  <2>2. \/ AcceptRescue \/ RefuseRescue \/ RescueBoots \/ RescueFails
        \/ FinalizeCleansUp \/ FinalizeReattaches \/ HandleError \/ AbortRescue
      => node' \in NodeRows
    BY <1>1, RescueRows, RescueErrorRows DEF Kept, Cleared, LetGo
  <2> QED
    BY <1>1, <2>1, <2>2 DEF RescueWork
<1>3. RescueCalls => node' \in NodeRows
  <2>1. HeartbeatFails \/ HeartbeatInMaintenance => node' = node
    BY DEF HeartbeatFails, HeartbeatInMaintenance
  <2>2. DoNodeRescue => node' \in NodeRows
    BY RequestRow
  <2>3. HeartbeatFinalizes \/ DoAbort \/ CheckRescuewaitTimeouts => node' \in NodeRows
    BY <1>1, RescueRows, RescueErrorRows DEF Kept, Cleared, LetGo
  <2> QED
    BY <1>1, <2>1, <2>2, <2>3 DEF RescueCalls
<1>4. UnrescueWork => node' \in NodeRows
  <2>1. UnrescuePowersOff \/ UnrescueRestores => node' = node
    BY DEF UnrescuePowersOff, UnrescueRestores
  <2>2. \/ DoNodeUnrescue \/ UnrescueCleansUp \/ UnrescueBoots \/ UnrescueFails
      => node' \in NodeRows
    BY <1>1, UnrescueRows DEF Kept, Cleared, LetGo
  <2> QED
    BY <1>1, <2>1, <2>2 DEF UnrescueWork
<1>5. InspectionWork => node' \in NodeRows
  <2>1. InspectFails \/ ProcessFails \/ DoAbortInspection => node' = node
    BY DEF InspectFails, ProcessFails, DoAbortInspection
  <2>2. \/ InspectHardware \/ InspectPrepares \/ InspectBoots \/ ContinueInspection
        \/ ProcessCleansUp \/ StoreInventory \/ UndoInspection
        \/ HandleInspectionError \/ AbortInspection \/ CheckInspectWaitTimeouts
      => node' \in NodeRows
    BY <1>1, InspectionRows, InspectionErrorRows DEF Kept, Cleared, LetGo
  <2> QED
    BY <1>1, <2>1, <2>2 DEF InspectionWork
<1>6. OtherWork => node' \in NodeRows
  <2>1. SyncLocalState \/ DoTakeover => node' = node
    BY DEF SyncLocalState, DoTakeover
  <2>2. UpdateMaintenance => node' \in NodeRows
    BY <1>1, EditedRow DEF UpdateMaintenance, Kept
  <2>3. \/ Verify \/ DoNodeVerify \/ Adopt \/ DoAdoption \/ DoNodeTearDown
        \/ TearDown \/ Redeploy \/ Manage \/ Provide
      => node' \in NodeRows
    BY <1>1, OtherRows DEF Kept, Cleared, LetGo
  <2> QED
    BY <1>1, <2>1, <2>2, <2>3 DEF OtherWork
<1>7. Accidents => node' \in NodeRows
  <2>1. \/ Crash \/ Restart \/ CheckOrphanNodes \/ AgentReports \/ ReportLost
        \/ AgentLost
      => node' = node
    BY DEF Crash, Restart, CheckOrphanNodes, AgentReports, ReportLost, AgentLost
  <2>2. CorrectStuckStates \/ AgentBoots => node' \in NodeRows
    BY <1>1, OtherRows, <2>1 DEF Kept, Cleared, LetGo, Corrected
  <2> QED
    BY <1>1, <2>1, <2>2 DEF Accidents
<1> QED
  BY ActionsByFlow, <1>2, <1>3, <1>4, <1>5, <1>6, <1>7

LEMMA Machines ==
    /\ \A is \in {"instance", "off", "booting", "agent", "rescue"} :
          /\ Machine(is) \in MachineType
          /\ \A k \in {0} \cup Inspections : [Machine(is) EXCEPT !.data = k] \in MachineType
          /\ \A k \in {0} \cup Passwords : [Machine(is) EXCEPT !.entry = k] \in MachineType
    /\ \A m \in MachineType :
          [m EXCEPT !.is = "agent"] \in MachineType /\ [m EXCEPT !.data = 0] \in MachineType
BY DEF Machine, MachineType

LEMMA MachineIs ==
    ASSUME NEW is
    PROVE  Machine(is).is = is /\ Machine(is).entry = 0 /\ Machine(is).data = 0
BY DEF Machine

LEMMA PowerOffType ==
    ASSUME OthersOK, PowerOff
    PROVE  machine' \in MachineType /\ calls' \subseteq Inspections
BY Machines DEF PowerOff, OthersOK

LEMMA TearDownType ==
    ASSUME OthersOK, NEW errors, TearDownManagedBoot(errors)
    PROVE  /\ machine' \in MachineType /\ calls' \subseteq Inspections
           /\ boots' \in {"instance", "ramdisk", "nothing"}
           /\ nets' \subseteq {"tenant", "rescuing", "inspection"}
<1>1. machine' \in MachineType /\ calls' \subseteq Inspections
  BY PowerOffType DEF TearDownManagedBoot, run, OthersOK
<1>2. boots' = boots \/ boots' = "nothing"
  BY DEF TearDownManagedBoot
<1>3. nets' = nets \/ nets' = nets \ {"inspection"}
  BY DEF TearDownManagedBoot
<1> QED
  BY <1>1, <1>2, <1>3 DEF OthersOK

LEMMA Membership ==
    ASSUME NEW x, NEW S
    PROVE  (x \in S) \in BOOLEAN
BY Z3

LEMMA OthersType ==
    ASSUME TypeOK, Placed, Next
    PROVE  OthersOK'
<1>0. node \in NodeRows /\ OthersOK /\ node.password \in {0} \cup Passwords
  BY TypeIs DEF NodeRows
<1> USE <1>0 DEF OthersOK, Acquire, Release, Stay, Briefly, Working, world, run, arguments, counts
<1>1. RescueWork => OthersOK'
  <2>1. AcceptRescue => OthersOK'
    BY DEF AcceptRescue
  <2>2. RefuseRescue => OthersOK'
    BY DEF RefuseRescue
  <2>3. RescuePowersOff => OthersOK'
    BY PowerOffType DEF RescuePowersOff
  <2>4. RescueDetaches => OthersOK'
    BY DEF RescueDetaches
  <2>5. RescueAttaches => OthersOK'
    BY DEF RescueAttaches
  <2>6. RescueBoots => OthersOK'
    BY Machines DEF RescueBoots
  <2>7. RescueFails => OthersOK'
    BY DEF RescueFails
  <2>8. FinalizeCleansUp => OthersOK'
    BY DEF FinalizeCleansUp, CleanUp
  <2>9. FinalizeReattaches => OthersOK'
    BY DEF FinalizeReattaches
  <2>10. FinalizeFails => OthersOK'
    BY DEF FinalizeFails
  <2>11. HandleError => OthersOK'
    BY PowerOffType DEF HandleError, CleanUp
  <2>12. AbortRescue => OthersOK'
    BY DEF AbortRescue, CleanUp
  <2> QED
    BY <2>1, <2>2, <2>3, <2>4, <2>5, <2>6, <2>7, <2>8, <2>9, <2>10, <2>11, <2>12 DEF RescueWork
<1>2. RescueCalls => OthersOK'
  <2>1. DoNodeRescue => OthersOK'
    <3>1. DoNodeRescue => requests' \in 0..MaxRequests
      BY Counters DEF DoNodeRescue
    <3> QED
      BY <3>1 DEF DoNodeRescue
  <2>2. HeartbeatFinalizes => OthersOK'
    BY Machines DEF HeartbeatFinalizes
  <2>3. HeartbeatFails => OthersOK'
    BY DEF HeartbeatFails
  <2>4. HeartbeatInMaintenance => OthersOK'
    BY DEF HeartbeatInMaintenance
  <2>5. DoAbort => OthersOK'
    BY DEF DoAbort
  <2>6. CheckRescuewaitTimeouts => OthersOK'
    BY DEF CheckRescuewaitTimeouts
  <2> QED
    BY <2>1, <2>2, <2>3, <2>4, <2>5, <2>6 DEF RescueCalls
<1>3. UnrescueWork => OthersOK'
  <2>1. DoNodeUnrescue => OthersOK'
    BY DEF DoNodeUnrescue
  <2>2. UnrescuePowersOff => OthersOK'
    BY PowerOffType DEF UnrescuePowersOff
  <2>3. UnrescueCleansUp => OthersOK'
    BY DEF UnrescueCleansUp, CleanUp
  <2>4. UnrescueRestores => OthersOK'
    BY DEF UnrescueRestores
  <2>5. UnrescueBoots => OthersOK'
    BY Machines DEF UnrescueBoots
  <2>6. UnrescueFails => OthersOK'
    BY DEF UnrescueFails
  <2> QED
    BY <2>1, <2>2, <2>3, <2>4, <2>5, <2>6 DEF UnrescueWork
<1>4. InspectionWork => OthersOK'
  <2>1. InspectHardware => OthersOK'
    <3>1. InspectHardware => inspections' \in 0..MaxInspections
      BY Counters DEF InspectHardware
    <3> QED
      BY <3>1 DEF InspectHardware
  <2>2. InspectPrepares => OthersOK'
    BY PowerOffType DEF InspectPrepares
  <2>3. InspectBoots => OthersOK'
    <3>1. inspections \in {0} \cup Inspections
      BY Counters
    <3>2. [Machine("booting") EXCEPT !.data = inspections] \in MachineType
      BY <3>1, Machines
    <3> QED
      BY <3>2 DEF InspectBoots
  <2>4. InspectFails => OthersOK'
    BY DEF InspectFails
  <2>5. ContinueInspection => OthersOK'
    BY DEF ContinueInspection
  <2>6. ProcessCleansUp => OthersOK'
    BY TearDownType DEF ProcessCleansUp
  <2>7. StoreInventory => OthersOK'
    BY DEF StoreInventory
  <2>8. ProcessFails => OthersOK'
    BY DEF ProcessFails
  <2>9. UndoInspection => OthersOK'
    BY TearDownType DEF UndoInspection
  <2>10. HandleInspectionError => OthersOK'
    BY PowerOffType DEF HandleInspectionError
  <2>11. DoAbortInspection => OthersOK'
    BY DEF DoAbortInspection
  <2>12. AbortInspection => OthersOK'
    BY TearDownType DEF AbortInspection
  <2>13. CheckInspectWaitTimeouts => OthersOK'
    BY DEF CheckInspectWaitTimeouts
  <2> QED
    BY <2>1, <2>2, <2>3, <2>4, <2>5, <2>6, <2>7, <2>8, <2>9, <2>10, <2>11, <2>12, <2>13 DEF InspectionWork
<1>5. OtherWork => OthersOK'
  <2>1. Verify => OthersOK'
    BY DEF Verify
  <2>2. DoNodeVerify => OthersOK'
    BY DEF DoNodeVerify
  <2>3. Adopt => OthersOK'
    BY DEF Adopt
  <2>4. DoAdoption => OthersOK'
    BY DEF DoAdoption
  <2>5. SyncLocalState => OthersOK'
    BY DEF SyncLocalState
  <2>6. DoTakeover => OthersOK'
    BY DEF DoTakeover
  <2>7. DoNodeTearDown => OthersOK'
    <3>1. DoNodeTearDown => node.state \in {"active", "error"} \cup RescueStates
      BY OtherRows DEF RescueStates, Rescuable
    <3> QED
      BY <3>1 DEF DoNodeTearDown
  <2>8. TearDown => OthersOK'
    BY PowerOffType DEF TearDown, CleanUp
  <2>9. Redeploy => OthersOK'
    BY Machines DEF Redeploy
  <2>10. Manage => OthersOK'
    BY DEF Manage
  <2>11. Provide => OthersOK'
    BY PowerOffType DEF Provide
  <2>12. UpdateMaintenance => OthersOK'
    BY DEF UpdateMaintenance
  <2> QED
    BY <2>1, <2>2, <2>3, <2>4, <2>5, <2>6, <2>7, <2>8, <2>9, <2>10, <2>11, <2>12 DEF OtherWork
<1>6. Accidents => OthersOK'
  <2>1. Crash => OthersOK'
    BY Counters DEF Crash
  <2>2. Restart => OthersOK'
    BY DEF Restart
  <2>3. CorrectStuckStates => OthersOK'
    <3> DEFINE left == node.state \in StuckStates
    <3>1. left \in BOOLEAN
      BY Membership
    <3>2. CorrectStuckStates => /\ recover' = FALSE /\ orphan' \in {FALSE, orphan, left}
                                /\ UNCHANGED <<lock, pc, world, arguments, inventory, wanted,
                                              attached, requests, inspections, crashes>>
      BY DEF CorrectStuckStates
    <3> HIDE DEF left
    <3> QED
      BY <3>1, <3>2
  <2>4. CheckOrphanNodes => OthersOK'
    <3> DEFINE left == node.state \in StuckStates
    <3>1. left \in BOOLEAN
      BY Membership
    <3>2. CheckOrphanNodes => /\ lock' = "free" /\ orphan' = left
                              /\ UNCHANGED <<pc, world, arguments, inventory, wanted, recover,
                                            attached, requests, inspections, crashes>>
      BY DEF CheckOrphanNodes
    <3> HIDE DEF left
    <3> QED
      BY <3>1, <3>2
  <2>5. AgentBoots => OthersOK'
    BY Machines DEF AgentBoots
  <2>6. AgentReports => OthersOK'
    <3>1. AgentReports => machine.data \in Inspections
      BY DEF AgentReports, MachineType
    <3>2. [machine EXCEPT !.data = 0] \in MachineType
      BY Machines
    <3> QED
      BY <3>1, <3>2 DEF AgentReports
  <2>7. ReportLost => OthersOK'
    BY DEF ReportLost
  <2>8. AgentLost => OthersOK'
    BY Machines DEF AgentLost
  <2> QED
    BY <2>1, <2>2, <2>3, <2>4, <2>5, <2>6, <2>7, <2>8 DEF Accidents
<1> QED
  BY ActionsByFlow, <1>1, <1>2, <1>3, <1>4, <1>5, <1>6

----------------------------------------------------------------------------
(* The lock *)

\* Nobody works on the node after the action ...
Rests == lock' # "held" /\ pc' = "idle"

\* ... or the holder of the lock, if there is one, has not noticed it.
Unnoticed == lock' = lock /\ pc' = pc /\ node'.state = node.state

LEMMA PlacedAfter ==
    /\ Rests => Placed'
    /\ Placed /\ Unnoticed => Placed'
<1>1. Rests => Placed'
  BY DEF Rests, Placed, BeforeFinalize, Unrescuing
<1>2. Placed /\ Unnoticed => Placed'
  BY DEF Unnoticed, Placed
<1> QED
  BY <1>1, <1>2

LEMMA Releases ==
    /\ \/ RefuseRescue \/ RescueBoots \/ RescueFails \/ FinalizeReattaches
       \/ HandleError \/ AbortRescue \/ UnrescueBoots \/ UnrescueFails
       \/ InspectBoots \/ StoreInventory \/ HandleInspectionError \/ AbortInspection
       \/ DoNodeVerify \/ DoAdoption \/ DoTakeover \/ TearDown
       => Rests
    /\ Placed =>
         (\/ Redeploy \/ Manage \/ Provide \/ UpdateMaintenance
          \/ Crash \/ Restart \/ CheckOrphanNodes
          => Rests)
<1>1. \/ RefuseRescue \/ RescueBoots \/ RescueFails \/ FinalizeReattaches
      \/ HandleError \/ AbortRescue \/ UnrescueBoots \/ UnrescueFails
      => Rests
  BY DEF RefuseRescue, RescueBoots, RescueFails, FinalizeReattaches, HandleError,
         AbortRescue, UnrescueBoots, UnrescueFails, Release, Rests
<1>2. \/ InspectBoots \/ StoreInventory \/ HandleInspectionError \/ AbortInspection
      \/ DoNodeVerify \/ DoAdoption \/ DoTakeover \/ TearDown
      => Rests
  BY DEF InspectBoots, StoreInventory, HandleInspectionError, AbortInspection,
         DoNodeVerify, DoAdoption, DoTakeover, TearDown, Release, Rests
<1>3. Placed =>
        (\/ Redeploy \/ Manage \/ Provide \/ UpdateMaintenance
         \/ Crash \/ Restart \/ CheckOrphanNodes
         => Rests)
  BY DEF Redeploy, Manage, Provide, UpdateMaintenance, Crash, Restart, CheckOrphanNodes,
         Briefly, Placed, Rests
<1> QED
  BY <1>1, <1>2, <1>3

LEMMA PlacedStep ==
    ASSUME TypeOK, Placed, Next
    PROVE  Placed'
<1>0. node \in NodeRows /\ OthersOK
  BY TypeIs
<1> USE <1>0 DEF Placed, Working, Stay, Acquire, Release, Briefly, BeforeFinalize, Unrescuing,
                 Kept, Cleared, LetGo
<1>1. RescueWork => Placed'
  <2>1. \/ RefuseRescue \/ RescueBoots \/ RescueFails \/ FinalizeReattaches
        \/ HandleError \/ AbortRescue
      => Placed'
    BY Releases, PlacedAfter
  <2>2. AcceptRescue => Placed'
    BY RescueRows DEF AcceptRescue
  <2>3. RescuePowersOff => Placed'
    BY DEF RescuePowersOff
  <2>4. RescueDetaches => Placed'
    BY DEF RescueDetaches
  <2>5. RescueAttaches => Placed'
    BY DEF RescueAttaches
  <2>6. FinalizeCleansUp => Placed'
    BY RescueRows DEF FinalizeCleansUp
  <2>7. FinalizeFails => Placed'
    BY DEF FinalizeFails
  <2> QED
    BY <2>1, <2>2, <2>3, <2>4, <2>5, <2>6, <2>7 DEF RescueWork
<1>2. RescueCalls => Placed'
  <2>1. DoNodeRescue => Placed'
    BY RequestRow DEF DoNodeRescue
  <2>2. HeartbeatFinalizes => Placed'
    BY RescueRows DEF HeartbeatFinalizes, Heartbeat
  <2>3. HeartbeatFails => Placed'
    BY DEF HeartbeatFails, Heartbeat
  <2>4. HeartbeatInMaintenance => Placed'
    BY DEF HeartbeatInMaintenance, Heartbeat
  <2>5. DoAbort => Placed'
    BY RescueErrorRows DEF DoAbort
  <2>6. CheckRescuewaitTimeouts => Placed'
    BY RescueErrorRows DEF CheckRescuewaitTimeouts
  <2> QED
    BY <2>1, <2>2, <2>3, <2>4, <2>5, <2>6 DEF RescueCalls
<1>3. UnrescueWork => Placed'
  <2>1. UnrescueBoots \/ UnrescueFails => Placed'
    BY Releases, PlacedAfter
  <2>2. DoNodeUnrescue => Placed'
    BY UnrescueRows DEF DoNodeUnrescue
  <2>3. UnrescuePowersOff => Placed'
    BY DEF UnrescuePowersOff
  <2>4. UnrescueCleansUp => Placed'
    BY UnrescueRows DEF UnrescueCleansUp
  <2>5. UnrescueRestores => Placed'
    BY DEF UnrescueRestores
  <2> QED
    BY <2>1, <2>2, <2>3, <2>4, <2>5 DEF UnrescueWork
<1>4. InspectionWork => Placed'
  <2>1. \/ InspectBoots \/ StoreInventory \/ HandleInspectionError \/ AbortInspection
      => Placed'
    BY Releases, PlacedAfter
  <2>2. InspectHardware => Placed'
    BY InspectionRows DEF InspectHardware
  <2>3. InspectPrepares => Placed'
    BY InspectionRows DEF InspectPrepares
  <2>4. InspectFails => Placed'
    BY DEF InspectFails
  <2>5. ContinueInspection => Placed'
    BY InspectionRows DEF ContinueInspection
  <2>6. ProcessCleansUp => Placed'
    BY InspectionErrorRows DEF ProcessCleansUp
  <2>7. ProcessFails => Placed'
    BY DEF ProcessFails
  <2>8. UndoInspection => Placed'
    BY InspectionRows DEF UndoInspection
  <2>9. DoAbortInspection => Placed'
    BY DEF DoAbortInspection
  <2>10. CheckInspectWaitTimeouts => Placed'
    BY InspectionErrorRows DEF CheckInspectWaitTimeouts
  <2> QED
    BY <2>1, <2>2, <2>3, <2>4, <2>5, <2>6, <2>7, <2>8, <2>9, <2>10 DEF InspectionWork
<1>5. OtherWork => Placed'
  <2>1. \/ DoNodeVerify \/ DoAdoption \/ DoTakeover \/ TearDown \/ Redeploy \/ Manage
        \/ Provide \/ UpdateMaintenance
      => Placed'
    BY Releases, PlacedAfter
  <2>2. Verify => Placed'
    BY OtherRows DEF Verify
  <2>3. Adopt => Placed'
    BY OtherRows DEF Adopt
  <2>4. SyncLocalState => Placed'
    BY DEF SyncLocalState
  <2>5. DoNodeTearDown => Placed'
    BY OtherRows DEF DoNodeTearDown
  <2> QED
    BY <2>1, <2>2, <2>3, <2>4, <2>5 DEF OtherWork
<1>6. Accidents => Placed'
  <2>1. Crash \/ Restart \/ CheckOrphanNodes => Placed'
    BY Releases, PlacedAfter
  <2>2. AgentBoots \/ AgentReports \/ ReportLost \/ AgentLost => Placed'
    <3>1. AgentBoots \/ AgentReports \/ ReportLost \/ AgentLost => Unnoticed
      BY OtherRows DEF AgentBoots, AgentReports, ReportLost, AgentLost, Unnoticed, Kept
    <3> QED
      BY <3>1, PlacedAfter
  <2>3. CorrectStuckStates => Placed'
    <3>1. CorrectStuckStates => Rests \/ Unnoticed
      BY OtherRows DEF CorrectStuckStates, Placed, Rests, Unnoticed
    <3> QED
      BY <3>1, PlacedAfter
  <2> QED
    BY <2>1, <2>2, <2>3 DEF Accidents
<1> QED
  BY ActionsByFlow, <1>1, <1>2, <1>3, <1>4, <1>5, <1>6

----------------------------------------------------------------------------
(* The network of an inspection *)

\* The inspection that will detach the machine.
Awaited ==
    \/ node.manages /\ (pc \in {"launch", "process"} \/ node.state = "inspect wait")
    \/ pc \in {"undo", "handle inspection"}

\* The network stays with it, or is known to be left behind.
Connected == "inspection" \in nets => attached \/ Awaited

\* An action of something else than an inspection.
Outside ==
    /\ ~Awaited
    /\ "inspection" \in nets' => "inspection" \in nets
    /\ attached' = attached

\* An action that leaves the network to the inspection.
Passed ==
    /\ Awaited => Awaited'
    /\ "inspection" \in nets' => "inspection" \in nets
    /\ attached' = attached

LEMMA ConnectedAfter ==
    ASSUME Connected, Outside \/ Passed \/ Awaited'
    PROVE  Connected'
<1>1. CASE Outside \/ Passed
  <2>1. attached' = attached
    BY <1>1 DEF Outside, Passed
  <2>2. attached => attached'
    BY <2>1
  <2> QED
    BY <1>1, <2>2 DEF Outside, Passed, Connected
<1>2. CASE Awaited'
  BY <1>2 DEF Connected
<1> QED
  BY <1>1, <1>2

LEMMA OutsideSteps ==
    ASSUME TypeOK, Placed, RescueWork \/ RescueCalls \/ UnrescueWork \/ OtherWork
    PROVE  Outside \/ Passed
<1>0. node \in NodeRows /\ OthersOK
  BY TypeIs
<1> USE <1>0 DEF Placed, Working, Stay, Acquire, Release, Briefly, BeforeFinalize, Unrescuing,
                 Rescuable, Unrescuable, Outside, Awaited, world, run, arguments, counts
<1>1. CASE RescueWork
  <2>1. AcceptRescue => Outside
    BY DEF AcceptRescue
  <2>2. RefuseRescue => Outside
    BY DEF RefuseRescue
  <2>3. RescuePowersOff => Outside
    BY DEF RescuePowersOff
  <2>4. RescueDetaches => Outside
    BY DEF RescueDetaches
  <2>5. RescueAttaches => Outside
    BY DEF RescueAttaches
  <2>6. RescueBoots => Outside
    BY DEF RescueBoots
  <2>7. RescueFails => Outside
    BY DEF RescueFails
  <2>8. FinalizeCleansUp => Outside
    BY DEF FinalizeCleansUp, CleanUp
  <2>9. FinalizeReattaches => Outside
    BY DEF FinalizeReattaches
  <2>10. FinalizeFails => Outside
    BY DEF FinalizeFails
  <2>11. HandleError => Outside
    BY DEF HandleError, CleanUp
  <2>12. AbortRescue => Outside
    BY DEF AbortRescue, CleanUp
  <2> QED
    BY <1>1, <2>1, <2>2, <2>3, <2>4, <2>5, <2>6, <2>7, <2>8, <2>9, <2>10, <2>11, <2>12 DEF RescueWork
<1>2. CASE RescueCalls
  <2>1. DoNodeRescue => Outside
    BY RequestRow DEF DoNodeRescue
  <2>2. HeartbeatFinalizes => Outside
    BY DEF HeartbeatFinalizes, Heartbeat
  <2>3. HeartbeatFails => Outside
    BY DEF HeartbeatFails, Heartbeat
  <2>4. HeartbeatInMaintenance => Outside
    BY DEF HeartbeatInMaintenance, Heartbeat
  <2>5. DoAbort => Outside
    BY DEF DoAbort
  <2>6. CheckRescuewaitTimeouts => Outside
    BY DEF CheckRescuewaitTimeouts
  <2> QED
    BY <1>2, <2>1, <2>2, <2>3, <2>4, <2>5, <2>6 DEF RescueCalls
<1>3. CASE UnrescueWork
  <2>1. DoNodeUnrescue => Outside
    BY UnrescueRows DEF DoNodeUnrescue
  <2>2. UnrescuePowersOff => Outside
    BY DEF UnrescuePowersOff
  <2>3. UnrescueCleansUp => Outside
    BY DEF UnrescueCleansUp, CleanUp
  <2>4. UnrescueRestores => Outside
    BY DEF UnrescueRestores
  <2>5. UnrescueBoots => Outside
    BY DEF UnrescueBoots
  <2>6. UnrescueFails => Outside
    BY DEF UnrescueFails
  <2> QED
    BY <1>3, <2>1, <2>2, <2>3, <2>4, <2>5, <2>6 DEF UnrescueWork
<1>4. CASE OtherWork
  <2>1. Verify => Outside
    BY DEF Verify
  <2>2. DoNodeVerify => Outside
    BY DEF DoNodeVerify
  <2>3. Adopt => Outside
    BY DEF Adopt
  <2>4. DoAdoption => Outside
    BY DEF DoAdoption
  <2>5. SyncLocalState => Outside
    BY DEF SyncLocalState
  <2>6. DoTakeover => Outside
    BY DEF DoTakeover
  <2>7. DoNodeTearDown => Outside
    BY OtherRows DEF DoNodeTearDown
  <2>8. TearDown => Outside
    BY DEF TearDown, CleanUp
  <2>9. Redeploy => Outside
    BY DEF Redeploy
  <2>10. Manage => Outside
    BY DEF Manage
  <2>11. Provide => Outside
    BY DEF Provide
  <2>12. UpdateMaintenance => Passed
    <3>1. UpdateMaintenance => Kept(node, node', node.state)
      BY MaintenanceRow
    <3> QED
      BY <3>1 DEF UpdateMaintenance, Passed, Kept
  <2> QED
    BY <1>4, <2>1, <2>2, <2>3, <2>4, <2>5, <2>6, <2>7, <2>8, <2>9, <2>10, <2>11, <2>12 DEF OtherWork
<1> QED
  BY <1>1, <1>2, <1>3, <1>4

LEMMA ConnectedStep ==
    ASSUME TypeOK, Placed, Connected, Next
    PROVE  Connected'
<1>0. node \in NodeRows /\ OthersOK
  BY TypeIs
<1>1. CASE RescueWork \/ RescueCalls \/ UnrescueWork \/ OtherWork
  BY <1>1, OutsideSteps, ConnectedAfter
<1>2. CASE InspectionWork
  <2> USE <1>0 DEF Awaited, Placed, Working, Stay, Acquire, Release, Briefly, Kept, LetGo,
                   world, run, arguments, counts
  <2>1. InspectHardware => Outside
    BY InspectionRows DEF InspectHardware, Outside
  <2>2. InspectPrepares => Outside \/ Awaited'
    BY InspectionRows DEF InspectPrepares, Outside
  <2>3. InspectBoots => Passed
    BY InspectionRows DEF InspectBoots, Passed
  <2>4. InspectFails => Passed
    BY DEF InspectFails, Passed
  <2>5. ContinueInspection => Passed
    BY InspectionRows DEF ContinueInspection, Passed
  <2>6. ProcessCleansUp => Connected'
    BY DEF ProcessCleansUp, TearDownManagedBoot, Undone, Connected
  <2>7. StoreInventory => Outside
    BY DEF StoreInventory, Outside
  <2>8. ProcessFails => Passed
    BY DEF ProcessFails, Passed
  <2>9. UndoInspection => Awaited'
    BY DEF UndoInspection
  <2>10. HandleInspectionError => Connected'
    BY DEF HandleInspectionError, Connected
  <2>11. DoAbortInspection => Passed
    BY DEF DoAbortInspection, Passed
  <2>12. AbortInspection => Connected'
    BY DEF AbortInspection, TearDownManagedBoot, Undone, Connected
  <2>13. CheckInspectWaitTimeouts => Passed
    BY InspectionErrorRows DEF CheckInspectWaitTimeouts, Passed
  <2> QED
    BY <1>2, <2>1, <2>2, <2>3, <2>4, <2>5, <2>6, <2>7, <2>8, <2>9, <2>10, <2>11, <2>12, <2>13, ConnectedAfter DEF InspectionWork
<1>3. CASE Accidents
  <2>1. Crash => Connected'
    <3> SUFFICES ASSUME Crash, "inspection" \in nets'
                 PROVE  attached' \/ Awaited'
      BY DEF Connected
    <3>1. "inspection" \in nets /\ node' = node
      BY DEF Crash, world
    <3>2. attached \/ pc \in Inspecting => attached'
      BY <3>1 DEF Crash
    <3>3. attached \/ Awaited
      BY <3>1 DEF Connected
    <3>4. Awaited => pc \in Inspecting \/ (node.manages /\ node.state = "inspect wait")
      BY DEF Awaited, Inspecting
    <3>5. node.manages /\ node.state = "inspect wait" => Awaited'
      BY <3>1 DEF Awaited
    <3> QED
      BY <3>2, <3>3, <3>4, <3>5
  <2>2. \/ Restart \/ CheckOrphanNodes \/ AgentBoots \/ AgentReports \/ ReportLost \/ AgentLost
        => Passed
    BY <1>0, OtherRows DEF Restart, CheckOrphanNodes, AgentBoots, AgentReports, ReportLost,
       AgentLost, Passed, Awaited, Kept, world, run, arguments, counts
  <2>3. CorrectStuckStates => Outside \/ Passed
    BY <1>0, OtherRows
    DEF CorrectStuckStates, Corrected, Outside, Passed, Awaited, Placed, world
  <2> QED
    BY <1>3, <2>1, <2>2, <2>3, ConnectedAfter DEF Accidents
<1> QED
  BY ActionsByFlow, <1>1, <1>2, <1>3

----------------------------------------------------------------------------
(* What a rescue leaves behind *)

\* A request starts the rescue, or takes back its password: no conductor dies
\* between the two, and no exception leaves it that its handler does not know.
AllOrNothing == ~May("dies in request") /\ ~May("network error")

\* The same of a clean up after a rescue, which does not fail either.
CleanRescue ==
    AllOrNothing /\ ~May("clean up fails") /\ ~May("dies in delete")

\* The flows that will still clean up after the rescue.
Rescued ==
    \/ node.state \in RescueStates /\ pc \notin {"restore", "start"}
    \/ pc = "delete" /\ AfterRescue

\* The password and the network of a rescue are there while it is under way.
Freed ==
    /\ "rescuing" \in nets => Rescued
    /\ node.password # 0 => Rescued \/ pc = "asked"

\* An action that leaves the node to the rescue, one of something else, and one
\* that a rescue does not notice.
ToRescue == node'.state \in RescueStates /\ pc' \notin {"restore", "start"}
FromElsewhere ==
    /\ ~Rescued /\ pc # "asked"
    /\ node'.password \in {0, node.password}
    /\ "rescuing" \in nets' => "rescuing" \in nets
Ignored ==
    /\ pc' = pc /\ initial' = initial /\ nets' = nets
    /\ node'.state = node.state /\ node'.password = node.password

LEMMA FreedAfter ==
    ASSUME Freed, ToRescue \/ FromElsewhere \/ Ignored
    PROVE  Freed'
<1>1. CASE ToRescue
  BY <1>1 DEF ToRescue, Freed, Rescued
<1>2. CASE FromElsewhere
  BY <1>2 DEF FromElsewhere, Freed
<1>3. CASE Ignored
  BY <1>3 DEF Ignored, Freed, Rescued, AfterRescue
<1> QED
  BY <1>1, <1>2, <1>3

LEMMA FreedInRescue ==
    ASSUME TypeOK, Placed, Freed, CleanRescue, RescueWork \/ RescueCalls \/ UnrescueWork
    PROVE  Freed'
<1>0. node \in NodeRows /\ OthersOK
  BY TypeIs
<1> USE <1>0 DEF Placed, Working, Stay, Acquire, Release, Briefly, BeforeFinalize, Unrescuing,
                 Rescuable, Unrescuable, RescueStates, Kept, Cleared, LetGo,
                 world, run, arguments, counts
<1>1. CASE RescueWork
  <2>1. AcceptRescue => ToRescue
    BY RescueRows DEF AcceptRescue, ToRescue
  <2>2. RefuseRescue => Freed'
    BY RescueRows DEF RefuseRescue, CleanRescue, AllOrNothing, Freed, Rescued, AfterRescue
  <2>3. RescuePowersOff => ToRescue
    BY DEF RescuePowersOff, ToRescue
  <2>4. RescueDetaches => ToRescue
    BY DEF RescueDetaches, ToRescue
  <2>5. RescueAttaches => ToRescue
    BY DEF RescueAttaches, ToRescue
  <2>6. RescueBoots => ToRescue
    BY RescueRows DEF RescueBoots, ToRescue
  <2>7. RescueFails => ToRescue
    BY RescueRows DEF RescueFails, ToRescue
  <2>8. FinalizeCleansUp => ToRescue
    BY RescueRows DEF FinalizeCleansUp, CleanUp, ToRescue
  <2>9. FinalizeReattaches => ToRescue
    BY RescueRows DEF FinalizeReattaches, ToRescue
  <2>10. FinalizeFails => ToRescue
    BY DEF FinalizeFails, ToRescue
  <2>11. HandleError => ToRescue
    BY RescueErrorRows DEF HandleError, CleanUp, ToRescue
  <2>12. AbortRescue => ToRescue
    BY RescueErrorRows DEF AbortRescue, CleanUp, ToRescue
  <2> QED
    BY <1>1, <2>1, <2>2, <2>3, <2>4, <2>5, <2>6, <2>7, <2>8, <2>9, <2>10, <2>11, <2>12, FreedAfter DEF RescueWork
<1>2. CASE RescueCalls
  <2>1. DoNodeRescue => Freed'
    BY RequestRow DEF DoNodeRescue, Freed, Rescued, AfterRescue
  <2>2. HeartbeatFinalizes => ToRescue
    BY RescueRows DEF HeartbeatFinalizes, Heartbeat, ToRescue
  <2>3. HeartbeatFails => ToRescue
    BY DEF HeartbeatFails, Heartbeat, ToRescue
  <2>4. HeartbeatInMaintenance => ToRescue
    BY DEF HeartbeatInMaintenance, Heartbeat, ToRescue
  <2>5. DoAbort => ToRescue
    BY RescueErrorRows DEF DoAbort, ToRescue
  <2>6. CheckRescuewaitTimeouts => ToRescue
    BY RescueErrorRows DEF CheckRescuewaitTimeouts, ToRescue
  <2> QED
    BY <1>2, <2>1, <2>2, <2>3, <2>4, <2>5, <2>6, FreedAfter DEF RescueCalls
<1>3. CASE UnrescueWork
  <2>1. DoNodeUnrescue => ToRescue
    BY UnrescueRows DEF DoNodeUnrescue, ToRescue
  <2>2. UnrescuePowersOff => ToRescue
    BY DEF UnrescuePowersOff, ToRescue
  <2>3. UnrescueCleansUp => Freed'
    BY UnrescueRows DEF UnrescueCleansUp, CleanUp, Freed, Rescued, AfterRescue
  <2>4. UnrescueRestores => FromElsewhere
    BY DEF UnrescueRestores, FromElsewhere, Rescued
  <2>5. UnrescueBoots => FromElsewhere
    BY UnrescueRows DEF UnrescueBoots, FromElsewhere, Rescued
  <2>6. UnrescueFails => ToRescue
    BY UnrescueRows DEF UnrescueFails, ToRescue
  <2> QED
    BY <1>3, <2>1, <2>2, <2>3, <2>4, <2>5, <2>6, FreedAfter DEF UnrescueWork
<1> QED
  BY <1>1, <1>2, <1>3

LEMMA FreedInTheRest ==
    ASSUME TypeOK, Placed, Freed, CleanRescue, InspectionWork \/ OtherWork
    PROVE  Freed'
<1>0. node \in NodeRows /\ OthersOK
  BY TypeIs
<1> USE <1>0 DEF Placed, Working, Stay, Acquire, Release, Briefly, BeforeFinalize, Unrescuing,
                 Rescuable, Unrescuable, RescueStates, Kept, Cleared, LetGo,
                 world, run, arguments, counts
<1>1. CASE InspectionWork
  <2>1. InspectHardware => FromElsewhere
    BY InspectionRows DEF InspectHardware, FromElsewhere, Rescued
  <2>2. InspectPrepares => FromElsewhere
    BY InspectionRows DEF InspectPrepares, FromElsewhere, Rescued
  <2>3. InspectBoots => FromElsewhere
    BY InspectionRows DEF InspectBoots, FromElsewhere, Rescued
  <2>4. InspectFails => FromElsewhere
    BY DEF InspectFails, FromElsewhere, Rescued
  <2>5. ContinueInspection => FromElsewhere
    BY InspectionRows DEF ContinueInspection, FromElsewhere, Rescued
  <2>6. ProcessCleansUp => FromElsewhere
    BY InspectionErrorRows DEF ProcessCleansUp, TearDownManagedBoot, FromElsewhere, Rescued
  <2>7. StoreInventory => FromElsewhere
    BY InspectionRows DEF StoreInventory, FromElsewhere, Rescued
  <2>8. ProcessFails => FromElsewhere
    BY DEF ProcessFails, FromElsewhere, Rescued
  <2>9. UndoInspection => FromElsewhere
    BY InspectionRows DEF UndoInspection, TearDownManagedBoot, FromElsewhere, Rescued
  <2>10. HandleInspectionError => FromElsewhere
    BY InspectionErrorRows DEF HandleInspectionError, FromElsewhere, Rescued
  <2>11. DoAbortInspection => FromElsewhere
    BY DEF DoAbortInspection, FromElsewhere, Rescued
  <2>12. AbortInspection => FromElsewhere
    BY InspectionErrorRows DEF AbortInspection, TearDownManagedBoot, FromElsewhere, Rescued
  <2>13. CheckInspectWaitTimeouts => FromElsewhere
    BY InspectionErrorRows DEF CheckInspectWaitTimeouts, FromElsewhere, Rescued
  <2> QED
    BY <1>1, <2>1, <2>2, <2>3, <2>4, <2>5, <2>6, <2>7, <2>8, <2>9, <2>10, <2>11, <2>12, <2>13, FreedAfter DEF InspectionWork
<1>2. CASE OtherWork
  <2>1. Verify => FromElsewhere
    BY OtherRows DEF Verify, FromElsewhere, Rescued
  <2>2. DoNodeVerify => FromElsewhere
    BY OtherRows DEF DoNodeVerify, FromElsewhere, Rescued
  <2>3. Adopt => FromElsewhere
    BY OtherRows DEF Adopt, FromElsewhere, Rescued
  <2>4. DoAdoption => FromElsewhere
    BY OtherRows DEF DoAdoption, FromElsewhere, Rescued
  <2>5. SyncLocalState => FromElsewhere
    BY DEF SyncLocalState, FromElsewhere, Rescued
  <2>6. DoTakeover => FromElsewhere
    BY DEF DoTakeover, FromElsewhere, Rescued
  <2>7. DoNodeTearDown => Freed'
    BY OtherRows DEF DoNodeTearDown, Freed, Rescued, AfterRescue
  <2>8. TearDown => Freed'
    BY OtherRows DEF TearDown, CleanUp, Freed, Rescued, AfterRescue, CleanRescue
  <2>9. Redeploy => FromElsewhere
    BY OtherRows DEF Redeploy, FromElsewhere, Rescued
  <2>10. Manage => FromElsewhere
    BY OtherRows DEF Manage, FromElsewhere, Rescued
  <2>11. Provide => FromElsewhere
    BY OtherRows DEF Provide, FromElsewhere, Rescued
  <2>12. UpdateMaintenance => Ignored
    <3>1. UpdateMaintenance => Kept(node, node', node.state)
      BY MaintenanceRow
    <3> QED
      BY <3>1 DEF UpdateMaintenance, Ignored
  <2> QED
    BY <1>2, <2>1, <2>2, <2>3, <2>4, <2>5, <2>6, <2>7, <2>8, <2>9, <2>10, <2>11, <2>12, FreedAfter DEF OtherWork
<1> QED
  BY <1>1, <1>2

LEMMA FreedStep ==
    ASSUME TypeOK, Placed, Freed, CleanRescue, Next
    PROVE  Freed'
<1>0. node \in NodeRows /\ OthersOK
  BY TypeIs
<1>1. CASE RescueWork \/ RescueCalls \/ UnrescueWork
  BY <1>1, FreedInRescue
<1>2. CASE InspectionWork \/ OtherWork
  BY <1>2, FreedInTheRest
<1>3. CASE Accidents
  <2>1. Crash => ToRescue \/ FromElsewhere
    BY DEF Crash, CleanRescue, AllOrNothing, Placed, Rescued, ToRescue, FromElsewhere, world
  <2>2. \/ Restart \/ CheckOrphanNodes \/ AgentBoots \/ AgentReports \/ ReportLost \/ AgentLost
        => Ignored
    BY <1>0, OtherRows DEF Restart, CheckOrphanNodes, AgentBoots, AgentReports, ReportLost,
       AgentLost, Ignored, Kept, world, run, arguments, counts
  <2>3. CorrectStuckStates => ToRescue \/ FromElsewhere \/ Ignored
    BY <1>0, OtherRows
    DEF CorrectStuckStates, Corrected, Kept, ToRescue, FromElsewhere, Ignored, Rescued,
        RescueStates, Placed, world, arguments
  <2> QED
    BY <1>3, <2>1, <2>2, <2>3, FreedAfter DEF Accidents
<1> QED
  BY ActionsByFlow, <1>1, <1>2, <1>3

----------------------------------------------------------------------------
(* What belongs to the instance *)

\* Before the last step of an unrescue and of an adoption it is in place already.
Owned ==
    /\ pc = "start" => boots = "instance" /\ "tenant" \in nets
    /\ pc = "adopt" => machine.is = "instance" /\ nets = {"tenant"}
    /\ node.state = "active" => machine.is = "instance" /\ boots = "instance" /\ "tenant" \in nets

\* An action that does not bring the node there, and one that does not disturb it.
Elsewhere == node'.state # "active" /\ pc' \notin {"start", "adopt"}
Undisturbed ==
    /\ pc' \in {"start", "adopt"} => pc' = pc
    /\ node'.state = "active" => node.state = "active"
    /\ nets' = nets /\ boots' \in {boots, "instance"}
    /\ machine.is = "instance" => machine'.is = "instance"

LEMMA OwnedAfter ==
    ASSUME Owned, Elsewhere \/ Undisturbed
    PROVE  Owned'
<1>1. CASE Elsewhere
  BY <1>1 DEF Elsewhere, Owned
<1>2. CASE Undisturbed
  BY <1>2 DEF Undisturbed, Owned
<1> QED
  BY <1>1, <1>2

LEMMA OwnedInRescue ==
    ASSUME TypeOK, Placed, Owned, ~May("adopts blindly"), RescueWork \/ RescueCalls \/ UnrescueWork
    PROVE  Owned'
<1>0. node \in NodeRows /\ OthersOK
  BY TypeIs
<1> USE <1>0 DEF Placed, Working, Stay, Acquire, Release, Briefly, BeforeFinalize, Unrescuing,
                 Rescuable, Unrescuable, Kept, Cleared, LetGo, world, run, arguments, counts
<1>1. CASE RescueWork
  <2>1. AcceptRescue => Elsewhere
    BY RescueRows DEF AcceptRescue, Elsewhere
  <2>2. RefuseRescue => Undisturbed
    BY RescueRows DEF RefuseRescue, Undisturbed
  <2>3. RescuePowersOff => Elsewhere
    BY DEF RescuePowersOff, Elsewhere
  <2>4. RescueDetaches => Elsewhere
    BY DEF RescueDetaches, Elsewhere
  <2>5. RescueAttaches => Elsewhere
    BY DEF RescueAttaches, Elsewhere
  <2>6. RescueBoots => Elsewhere
    BY RescueRows DEF RescueBoots, Elsewhere
  <2>7. RescueFails => Elsewhere
    BY RescueRows DEF RescueFails, Elsewhere
  <2>8. FinalizeCleansUp => Elsewhere
    BY RescueRows DEF FinalizeCleansUp, Elsewhere
  <2>9. FinalizeReattaches => Elsewhere
    BY RescueRows DEF FinalizeReattaches, Elsewhere
  <2>10. FinalizeFails => Elsewhere
    BY DEF FinalizeFails, Elsewhere
  <2>11. HandleError => Elsewhere
    BY RescueErrorRows DEF HandleError, Elsewhere
  <2>12. AbortRescue => Elsewhere
    BY RescueErrorRows DEF AbortRescue, Elsewhere
  <2> QED
    BY <1>1, <2>1, <2>2, <2>3, <2>4, <2>5, <2>6, <2>7, <2>8, <2>9, <2>10, <2>11, <2>12, OwnedAfter DEF RescueWork
<1>2. CASE RescueCalls
  <2>1. DoNodeRescue => Undisturbed
    BY RequestRow DEF DoNodeRescue, Undisturbed
  <2>2. HeartbeatFinalizes => Elsewhere
    BY RescueRows DEF HeartbeatFinalizes, Heartbeat, Elsewhere
  <2>3. HeartbeatFails => Elsewhere
    BY DEF HeartbeatFails, Heartbeat, Elsewhere
  <2>4. HeartbeatInMaintenance => Elsewhere
    BY DEF HeartbeatInMaintenance, Heartbeat, Elsewhere
  <2>5. DoAbort => Elsewhere
    BY RescueErrorRows DEF DoAbort, Elsewhere
  <2>6. CheckRescuewaitTimeouts => Elsewhere
    BY RescueErrorRows DEF CheckRescuewaitTimeouts, Elsewhere
  <2> QED
    BY <1>2, <2>1, <2>2, <2>3, <2>4, <2>5, <2>6, OwnedAfter DEF RescueCalls
<1>3. CASE UnrescueWork
  <2>1. DoNodeUnrescue => Elsewhere
    BY UnrescueRows DEF DoNodeUnrescue, Elsewhere
  <2>2. UnrescuePowersOff => Elsewhere
    BY DEF UnrescuePowersOff, Elsewhere
  <2>3. UnrescueCleansUp => Elsewhere
    BY UnrescueRows DEF UnrescueCleansUp, Elsewhere
  <2>4. UnrescueRestores => Owned'
    BY DEF UnrescueRestores, Owned
  <2>5. UnrescueBoots => Owned'
    <3>1. UnrescueBoots => machine'.is = "instance"
      BY MachineIs DEF UnrescueBoots
    <3> QED
      BY <3>1, UnrescueRows DEF UnrescueBoots, Owned
  <2>6. UnrescueFails => Elsewhere
    BY UnrescueRows DEF UnrescueFails, Elsewhere
  <2> QED
    BY <1>3, <2>1, <2>2, <2>3, <2>4, <2>5, <2>6, OwnedAfter DEF UnrescueWork
<1> QED
  BY <1>1, <1>2, <1>3

LEMMA OwnedInTheRest ==
    ASSUME TypeOK, Placed, Owned, ~May("adopts blindly"), InspectionWork \/ OtherWork
    PROVE  Owned'
<1>0. node \in NodeRows /\ OthersOK
  BY TypeIs
<1> USE <1>0 DEF Placed, Working, Stay, Acquire, Release, Briefly, BeforeFinalize, Unrescuing,
                 Rescuable, Unrescuable, Kept, Cleared, LetGo, world, run, arguments, counts
<1>1. CASE InspectionWork
  <2>1. InspectHardware => Elsewhere
    BY InspectionRows DEF InspectHardware, Elsewhere
  <2>2. InspectPrepares => Elsewhere
    BY InspectionRows DEF InspectPrepares, Elsewhere
  <2>3. InspectBoots => Elsewhere
    BY InspectionRows DEF InspectBoots, Elsewhere
  <2>4. InspectFails => Elsewhere
    BY DEF InspectFails, Elsewhere
  <2>5. ContinueInspection => Elsewhere
    BY InspectionRows DEF ContinueInspection, Elsewhere
  <2>6. ProcessCleansUp => Elsewhere
    BY InspectionErrorRows DEF ProcessCleansUp, Elsewhere
  <2>7. StoreInventory => Elsewhere
    BY InspectionRows DEF StoreInventory, Elsewhere
  <2>8. ProcessFails => Elsewhere
    BY DEF ProcessFails, Elsewhere
  <2>9. UndoInspection => Elsewhere
    BY InspectionRows DEF UndoInspection, Elsewhere
  <2>10. HandleInspectionError => Elsewhere
    BY InspectionErrorRows DEF HandleInspectionError, Elsewhere
  <2>11. DoAbortInspection => Elsewhere
    BY DEF DoAbortInspection, Elsewhere
  <2>12. AbortInspection => Elsewhere
    BY InspectionErrorRows DEF AbortInspection, Elsewhere
  <2>13. CheckInspectWaitTimeouts => Elsewhere
    BY InspectionErrorRows DEF CheckInspectWaitTimeouts, Elsewhere
  <2> QED
    BY <1>1, <2>1, <2>2, <2>3, <2>4, <2>5, <2>6, <2>7, <2>8, <2>9, <2>10, <2>11, <2>12, <2>13, OwnedAfter DEF InspectionWork
<1>2. CASE OtherWork
  <2>1. Verify => Elsewhere
    BY OtherRows DEF Verify, Elsewhere
  <2>2. DoNodeVerify => Elsewhere
    BY OtherRows DEF DoNodeVerify, Elsewhere
  <2>3. Adopt => Owned'
    BY OtherRows DEF Adopt, Owned
  <2>4. DoAdoption => Owned'
    BY OtherRows DEF DoAdoption, Owned
  <2>5. SyncLocalState => Undisturbed
    BY DEF SyncLocalState, Undisturbed
  <2>6. DoTakeover => Undisturbed
    BY DEF DoTakeover, Undisturbed
  <2>7. DoNodeTearDown => Elsewhere
    BY OtherRows DEF DoNodeTearDown, Elsewhere
  <2>8. TearDown => Elsewhere
    BY OtherRows DEF TearDown, Elsewhere
  <2>9. Redeploy => Owned'
    <3>1. Redeploy => machine'.is = "instance"
      BY MachineIs DEF Redeploy
    <3> QED
      BY <3>1, OtherRows DEF Redeploy, Owned
  <2>10. Manage => Elsewhere
    BY OtherRows DEF Manage, Elsewhere
  <2>11. Provide => Elsewhere
    BY OtherRows DEF Provide, Elsewhere
  <2>12. UpdateMaintenance => Undisturbed
    BY MaintenanceRow DEF UpdateMaintenance, Undisturbed
  <2> QED
    BY <1>2, <2>1, <2>2, <2>3, <2>4, <2>5, <2>6, <2>7, <2>8, <2>9, <2>10, <2>11, <2>12, OwnedAfter DEF OtherWork
<1> QED
  BY <1>1, <1>2

LEMMA OwnedStep ==
    ASSUME TypeOK, Placed, Owned, ~May("adopts blindly"), Next
    PROVE  Owned'
<1>0. node \in NodeRows /\ OthersOK
  BY TypeIs
<1>1. CASE RescueWork \/ RescueCalls \/ UnrescueWork
  BY <1>1, OwnedInRescue
<1>2. CASE InspectionWork \/ OtherWork
  BY <1>2, OwnedInTheRest
<1>3. CASE Accidents
  <2>1. Crash \/ Restart \/ CheckOrphanNodes \/ ReportLost => Undisturbed
    BY DEF Crash, Restart, CheckOrphanNodes, ReportLost, Undisturbed, world, run
  <2>2. AgentBoots \/ AgentReports \/ AgentLost => Undisturbed
    BY <1>0, OtherRows DEF AgentBoots, AgentReports, AgentLost, Undisturbed, Kept
  <2>3. CorrectStuckStates => Undisturbed
    BY <1>0, OtherRows DEF CorrectStuckStates, Corrected, Kept, Undisturbed, world, run
  <2> QED
    BY <1>3, <2>1, <2>2, <2>3, OwnedAfter DEF Accidents
<1> QED
  BY ActionsByFlow, <1>1, <1>2, <1>3

----------------------------------------------------------------------------
(* Theorems *)

Kernel == TypeOK /\ Placed /\ Connected

LEMMA KernelInit ==
    ASSUME Init
    PROVE  Kernel
<1>1. node \in NodeRows /\ node.state \in {"active", "enroll"} /\ node.password = 0
  BY DEF Init, NodeRows, RowStates, EntryStates
<1>2. OthersOK
  <2>1. machine \in MachineType /\ boots \in {"instance", "ramdisk", "nothing"}
    BY Machines DEF Init
  <2>2. 0 \in 0..MaxRequests /\ 0 \in 0..MaxInspections /\ 0 \in 0..MaxCrashes
    BY FlowAssumption
  <2> QED
    BY <2>1, <2>2 DEF Init, OthersOK
<1>3. Placed
  BY DEF Init, Placed, BeforeFinalize, Unrescuing
<1>4. Connected
  BY DEF Init, Connected
<1> QED
  BY <1>1, <1>2, <1>3, <1>4, TypeIs DEF Kernel

LEMMA Stuttering ==
    ASSUME UNCHANGED vars
    PROVE  /\ TypeOK => TypeOK'
           /\ Placed => Placed'
           /\ Connected => Connected'
           /\ Freed => Freed'
           /\ Owned => Owned'
<1>1. TypeOK => TypeOK'
  <2>1. node' = node /\ lock' = lock /\ pc' = pc /\ machine' = machine /\ calls' = calls
    BY DEF vars, world, run
  <2>2. boots' = boots /\ nets' = nets /\ initial' = initial /\ report' = report
    BY DEF vars, world, arguments
  <2>3. /\ inventory' = inventory /\ wanted' = wanted /\ recover' = recover
        /\ orphan' = orphan /\ attached' = attached
    BY DEF vars, counts
  <2>4. requests' = requests /\ inspections' = inspections /\ crashes' = crashes
    BY DEF vars, counts
  <2> SUFFICES ASSUME TypeOK PROVE TypeOK'
    OBVIOUS
  <2>5. node' \in NodeRows
    BY <2>1, TypeIs
  <2>6. OthersOK'
    <3>1. recover' \in BOOLEAN /\ orphan' \in BOOLEAN /\ attached' \in BOOLEAN
      BY <2>3 DEF TypeOK
    <3>2. inventory' \in {0} \cup Inspections /\ wanted' \in {0} \cup Passwords
      BY <2>3 DEF TypeOK
    <3> QED
      BY <2>1, <2>2, <2>4, <3>1, <3>2, TypeIs DEF OthersOK
  <2> QED
    BY <2>5, <2>6 DEF TypeOK, OthersOK, NodeRows, RowStates
<1>2. Placed => Placed'
  BY DEF vars, Placed
<1>3. Connected => Connected'
  <2>1. Awaited' <=> Awaited
    BY DEF vars, Awaited
  <2>2. attached' = attached /\ nets' = nets
    BY DEF vars, world, counts
  <2>3. attached => attached'
    BY <2>2
  <2> QED
    BY <2>1, <2>2, <2>3 DEF Connected
<1>4. Freed => Freed'
  BY DEF vars, world, arguments, Freed, Rescued, AfterRescue
<1>5. Owned => Owned'
  BY DEF vars, world, run, Owned
<1> QED
  BY <1>1, <1>2, <1>3, <1>4, <1>5

LEMMA KernelStep ==
    ASSUME Kernel, [Next]_vars
    PROVE  Kernel'
<1>1. CASE Next
  <2>1. node' \in NodeRows
    BY <1>1, RowType DEF Kernel
  <2>2. OthersOK'
    BY <1>1, OthersType DEF Kernel
  <2>3. TypeOK'
    BY <2>1, <2>2 DEF TypeOK, OthersOK, NodeRows, RowStates
  <2>4. Placed'
    BY <1>1, PlacedStep DEF Kernel
  <2>5. Connected'
    BY <1>1, ConnectedStep DEF Kernel
  <2> QED
    BY <2>3, <2>4, <2>5 DEF Kernel
<1>2. CASE UNCHANGED vars
  BY <1>2, Stuttering DEF Kernel
<1> QED
  BY <1>1, <1>2

\* Whoever is about to take the next step of a flow holds the lock and finds the node
\* in the state this step is for, and the inspection network is attached only for an
\* inspection that still has to detach it (conductor/manager.py).
LEMMA KernelHolds == Spec => []Kernel
<1>1. Init => Kernel
  BY KernelInit
<1>2. Kernel /\ [Next]_vars => Kernel'
  BY KernelStep
<1> QED
  BY <1>1, <1>2, PTL DEF Spec

\* The row, the machine, the boot configuration and the networks keep to what the
\* handlers of rescue, inspection and adoption may set them to (conductor/manager.py).
THEOREM TypeCorrect == Spec => []TypeOK
<1>1. Kernel => TypeOK
  BY DEF Kernel
<1> QED
  BY <1>1, KernelHolds, PTL

\* Whatever fails, times out or is aborted on the way, a node that is back in ACTIVE
\* with nobody working on it belongs to its instance altogether (_do_node_unrescue,
\* _do_node_tear_down, _do_adoption), provided that no conductor dies before the
\* rescue has begun or before its clean up, the request for it meets no network error,
\* which leaves the password in the row, and the clean up does not fail.
THEOREM TheInstanceGetsItsMachine ==
    CleanRescue /\ ~May("adopts blindly") /\ Spec => []ActiveIsTheInstances
<1> DEFINE Inv == Kernel /\ Freed /\ Owned
<1> SUFFICES ASSUME CleanRescue, ~May("adopts blindly")
             PROVE  Spec => []ActiveIsTheInstances
  OBVIOUS
<1>1. Init => Inv
  <2>1. Init => node.password = 0 /\ node.state \in {"active", "enroll"}
    BY DEF Init
  <2>2. Init => machine.is = "instance" /\ nets = {"tenant"} /\ pc = "idle"
    BY MachineIs DEF Init
  <2>3. Init => (node.state = "active" => boots = "instance")
    BY DEF Init
  <2>4. Init => Freed
    <3>1. nets = {"tenant"} => "rescuing" \notin nets
      OBVIOUS
    <3> QED
      BY <2>1, <2>2, <3>1 DEF Freed
  <2>5. Init => Owned
    BY <2>2, <2>3 DEF Owned
  <2> QED
    BY <2>4, <2>5, KernelInit
<1>2. Inv /\ [Next]_vars => Inv'
  <2> SUFFICES ASSUME Inv, [Next]_vars
               PROVE  Inv'
    OBVIOUS
  <2>1. Kernel'
    BY KernelStep
  <2>2. Freed'
    BY FreedStep, Stuttering DEF Kernel
  <2>3. Owned'
    BY OwnedStep, Stuttering DEF Kernel
  <2> QED
    BY <2>1, <2>2, <2>3
<1>3. Inv => ActiveIsTheInstances
  <2> SUFFICES ASSUME Inv, node.state = "active", lock = "free"
               PROVE  /\ node.password = 0
                      /\ machine.is = "instance" /\ boots = "instance"
                      /\ nets \ (IF attached THEN {"inspection"} ELSE {}) = {"tenant"}
    BY DEF ActiveIsTheInstances
  <2>1. pc = "idle" /\ nets \subseteq {"tenant", "rescuing", "inspection"}
    BY DEF Kernel, Placed, TypeOK
  <2>2. ~Rescued /\ ~Awaited
    BY <2>1 DEF Rescued, RescueStates, Awaited
  <2>3. node.password = 0 /\ "rescuing" \notin nets
    BY <2>1, <2>2 DEF Freed
  <2>4. machine.is = "instance" /\ boots = "instance" /\ "tenant" \in nets
    BY DEF Owned
  <2>5. "inspection" \in nets => attached
    BY <2>2 DEF Kernel, Connected
  <2>6. CASE attached
    BY <2>1, <2>3, <2>4, <2>6
  <2>7. CASE ~attached
    BY <2>1, <2>3, <2>4, <2>5, <2>7
  <2> QED
    BY <2>3, <2>4, <2>6, <2>7
<1> QED
  BY <1>1, <1>2, <1>3, PTL DEF Spec

----------------------------------------------------------------------------
(* The password of a rescue *)

\* The row has the password of the request until the agent has it, and the network
\* of the rescue is gone before the one of the tenant is back.
Ready ==
    /\ pc \in BeforeFinalize => node.password = wanted
    /\ node.state = "rescue wait" /\ pc # "asked" => node.password \in {0, wanted}
    /\ pc \in {"finalize", "reattach"} => machine.is = "rescue" /\ machine.entry = wanted
    /\ pc = "reattach" => node.password = 0 /\ "rescuing" \notin nets

\* An action after which no rescue is under way, and one that it does not notice.
NoRescue ==
    node'.state # "rescue wait" /\ pc' \notin BeforeFinalize \cup {"finalize", "reattach"}
Unconcerned ==
    /\ pc' = pc /\ node'.state = node.state /\ node'.password = node.password
    /\ wanted' = wanted /\ nets' = nets
    /\ machine.is = "rescue" => machine' = machine

LEMMA ReadyAfter ==
    ASSUME Ready, NoRescue \/ Unconcerned
    PROVE  Ready'
<1>1. CASE NoRescue
  BY <1>1 DEF NoRescue, Ready
<1>2. CASE Unconcerned
  BY <1>2 DEF Unconcerned, Ready
<1> QED
  BY <1>1, <1>2

LEMMA ReadyInRescue ==
    ASSUME TypeOK, Placed, Ready, AllOrNothing, RescueWork \/ RescueCalls \/ UnrescueWork
    PROVE  Ready'
<1>0. node \in NodeRows /\ OthersOK
  BY TypeIs
<1> USE <1>0 DEF Placed, Working, Stay, Acquire, Release, Briefly, BeforeFinalize, Unrescuing,
                 Rescuable, Unrescuable, Kept, Cleared, LetGo, world, run, arguments, counts
<1>1. CASE RescueWork
  <2>1. AcceptRescue => Ready'
    BY RescueRows DEF AcceptRescue, Ready
  <2>2. RefuseRescue => Ready'
    BY RescueRows DEF RefuseRescue, AllOrNothing, Ready
  <2>3. RescuePowersOff => Ready'
    BY DEF RescuePowersOff, Ready
  <2>4. RescueDetaches => Ready'
    BY DEF RescueDetaches, Ready
  <2>5. RescueAttaches => Ready'
    BY DEF RescueAttaches, Ready
  <2>6. RescueBoots => Ready'
    BY RescueRows DEF RescueBoots, Ready
  <2>7. RescueFails => NoRescue
    BY RescueRows DEF RescueFails, NoRescue
  <2>8. FinalizeCleansUp => Ready'
    BY RescueRows DEF FinalizeCleansUp, CleanUp, Ready
  <2>9. FinalizeReattaches => NoRescue
    BY RescueRows DEF FinalizeReattaches, NoRescue
  <2>10. FinalizeFails => NoRescue
    BY DEF FinalizeFails, NoRescue
  <2>11. HandleError => NoRescue
    BY RescueErrorRows DEF HandleError, CleanUp, NoRescue
  <2>12. AbortRescue => NoRescue
    BY RescueErrorRows DEF AbortRescue, CleanUp, NoRescue
  <2> QED
    BY <1>1, <2>1, <2>2, <2>3, <2>4, <2>5, <2>6, <2>7, <2>8, <2>9, <2>10, <2>11, <2>12, ReadyAfter DEF RescueWork
<1>2. CASE RescueCalls
  <2>1. DoNodeRescue => Ready'
    BY RequestRow DEF DoNodeRescue, Ready
  <2>2. HeartbeatFinalizes => Ready'
    <3>1. HeartbeatFinalizes => machine'.is = "rescue" /\ machine'.entry = node.password
      BY DEF HeartbeatFinalizes, Machine
    <3>2. HeartbeatFinalizes => node.password = wanted
      BY DEF HeartbeatFinalizes, Heartbeat, Ready
    <3> QED
      BY <3>1, <3>2, RescueRows DEF HeartbeatFinalizes, Ready
  <2>3. HeartbeatFails => Ready'
    BY DEF HeartbeatFails, Heartbeat, Ready
  <2>4. HeartbeatInMaintenance => Ready'
    BY DEF HeartbeatInMaintenance, Heartbeat, Ready
  <2>5. DoAbort => Ready'
    BY RescueErrorRows DEF DoAbort, Ready
  <2>6. CheckRescuewaitTimeouts => NoRescue
    BY RescueErrorRows DEF CheckRescuewaitTimeouts, NoRescue
  <2> QED
    BY <1>2, <2>1, <2>2, <2>3, <2>4, <2>5, <2>6, ReadyAfter DEF RescueCalls
<1>3. CASE UnrescueWork
  <2>1. DoNodeUnrescue => NoRescue
    BY UnrescueRows DEF DoNodeUnrescue, NoRescue
  <2>2. UnrescuePowersOff => NoRescue
    BY DEF UnrescuePowersOff, NoRescue
  <2>3. UnrescueCleansUp => NoRescue
    BY UnrescueRows DEF UnrescueCleansUp, CleanUp, NoRescue
  <2>4. UnrescueRestores => NoRescue
    BY DEF UnrescueRestores, NoRescue
  <2>5. UnrescueBoots => NoRescue
    BY UnrescueRows DEF UnrescueBoots, NoRescue
  <2>6. UnrescueFails => NoRescue
    BY UnrescueRows DEF UnrescueFails, NoRescue
  <2> QED
    BY <1>3, <2>1, <2>2, <2>3, <2>4, <2>5, <2>6, ReadyAfter DEF UnrescueWork
<1> QED
  BY <1>1, <1>2, <1>3

LEMMA ReadyInTheRest ==
    ASSUME TypeOK, Placed, Ready, AllOrNothing, InspectionWork \/ OtherWork
    PROVE  Ready'
<1>0. node \in NodeRows /\ OthersOK
  BY TypeIs
<1> USE <1>0 DEF Placed, Working, Stay, Acquire, Release, Briefly, BeforeFinalize, Unrescuing,
                 Rescuable, Unrescuable, Kept, Cleared, LetGo, world, run, arguments, counts
<1>1. CASE InspectionWork
  <2>1. InspectHardware => NoRescue
    BY InspectionRows DEF InspectHardware, NoRescue
  <2>2. InspectPrepares => NoRescue
    BY InspectionRows DEF InspectPrepares, NoRescue
  <2>3. InspectBoots => NoRescue
    BY InspectionRows DEF InspectBoots, NoRescue
  <2>4. InspectFails => NoRescue
    BY DEF InspectFails, NoRescue
  <2>5. ContinueInspection => NoRescue
    BY InspectionRows DEF ContinueInspection, NoRescue
  <2>6. ProcessCleansUp => NoRescue
    BY InspectionErrorRows DEF ProcessCleansUp, NoRescue
  <2>7. StoreInventory => NoRescue
    BY InspectionRows DEF StoreInventory, NoRescue
  <2>8. ProcessFails => NoRescue
    BY DEF ProcessFails, NoRescue
  <2>9. UndoInspection => NoRescue
    BY InspectionRows DEF UndoInspection, NoRescue
  <2>10. HandleInspectionError => NoRescue
    BY InspectionErrorRows DEF HandleInspectionError, NoRescue
  <2>11. DoAbortInspection => NoRescue
    BY DEF DoAbortInspection, NoRescue
  <2>12. AbortInspection => NoRescue
    BY InspectionErrorRows DEF AbortInspection, NoRescue
  <2>13. CheckInspectWaitTimeouts => NoRescue
    BY InspectionErrorRows DEF CheckInspectWaitTimeouts, NoRescue
  <2> QED
    BY <1>1, <2>1, <2>2, <2>3, <2>4, <2>5, <2>6, <2>7, <2>8, <2>9, <2>10, <2>11, <2>12, <2>13, ReadyAfter DEF InspectionWork
<1>2. CASE OtherWork
  <2>1. Verify => NoRescue
    BY OtherRows DEF Verify, NoRescue
  <2>2. DoNodeVerify => NoRescue
    BY OtherRows DEF DoNodeVerify, NoRescue
  <2>3. Adopt => NoRescue
    BY OtherRows DEF Adopt, NoRescue
  <2>4. DoAdoption => NoRescue
    BY OtherRows DEF DoAdoption, NoRescue
  <2>5. SyncLocalState => NoRescue
    BY DEF SyncLocalState, NoRescue
  <2>6. DoTakeover => NoRescue
    BY DEF DoTakeover, NoRescue
  <2>7. DoNodeTearDown => NoRescue
    BY OtherRows DEF DoNodeTearDown, NoRescue
  <2>8. TearDown => NoRescue
    BY OtherRows DEF TearDown, CleanUp, NoRescue
  <2>9. Redeploy => NoRescue
    BY OtherRows DEF Redeploy, NoRescue
  <2>10. Manage => NoRescue
    BY OtherRows DEF Manage, NoRescue
  <2>11. Provide => NoRescue
    BY OtherRows DEF Provide, NoRescue
  <2>12. UpdateMaintenance => Unconcerned
    BY MaintenanceRow DEF UpdateMaintenance, Unconcerned
  <2> QED
    BY <1>2, <2>1, <2>2, <2>3, <2>4, <2>5, <2>6, <2>7, <2>8, <2>9, <2>10, <2>11, <2>12, ReadyAfter DEF OtherWork
<1> QED
  BY <1>1, <1>2

LEMMA ReadyStep ==
    ASSUME TypeOK, Placed, Ready, AllOrNothing, Next
    PROVE  Ready'
<1>0. node \in NodeRows /\ OthersOK
  BY TypeIs
<1>1. CASE RescueWork \/ RescueCalls \/ UnrescueWork
  BY <1>1, ReadyInRescue
<1>2. CASE InspectionWork \/ OtherWork
  BY <1>2, ReadyInTheRest
<1>3. CASE Accidents
  <2>1. Crash => Ready'
    BY DEF Crash, AllOrNothing, Ready, BeforeFinalize, world
  <2>2. Restart \/ CheckOrphanNodes \/ ReportLost => Unconcerned
    BY DEF Restart, CheckOrphanNodes, ReportLost, Unconcerned, world, run
  <2>3. AgentBoots \/ AgentReports \/ AgentLost => Unconcerned
    BY <1>0, OtherRows DEF AgentBoots, AgentReports, AgentLost, Unconcerned, Kept
  <2>4. CorrectStuckStates => NoRescue \/ Unconcerned
    BY <1>0, OtherRows DEF CorrectStuckStates, Corrected, Kept, Placed, BeforeFinalize,
       NoRescue, Unconcerned, world, run
  <2> QED
    BY <1>3, <2>1, <2>2, <2>3, <2>4, ReadyAfter DEF Accidents
<1> QED
  BY ActionsByFlow, <1>1, <1>2, <1>3

\* Nothing else brings a node into RESCUE.
LEMMA IntoRescue ==
    ASSUME TypeOK, Placed, Next, node.state # "rescue", node'.state = "rescue"
    PROVE  FinalizeReattaches
<1>0. node \in NodeRows /\ OthersOK
  BY TypeIs
<1> USE <1>0 DEF Kept, Cleared, LetGo
<1>1. CASE RescueWork
  <2>1. \/ RescuePowersOff \/ RescueDetaches \/ RescueAttaches \/ FinalizeFails
      => node' = node
    BY DEF RescuePowersOff, RescueDetaches, RescueAttaches, FinalizeFails
  <2>2. ~(\/ AcceptRescue \/ RefuseRescue \/ RescueBoots \/ RescueFails
          \/ FinalizeCleansUp \/ HandleError \/ AbortRescue)
    BY RescueRows, RescueErrorRows
  <2> QED
    BY <1>1, <2>1, <2>2 DEF RescueWork
<1>2. CASE RescueCalls
  <2>1. HeartbeatFails \/ HeartbeatInMaintenance => node' = node
    BY DEF HeartbeatFails, HeartbeatInMaintenance
  <2>2. ~(\/ DoNodeRescue \/ HeartbeatFinalizes \/ DoAbort \/ CheckRescuewaitTimeouts)
    BY RescueRows, RescueErrorRows, RequestRow
  <2> QED
    BY <1>2, <2>1, <2>2 DEF RescueCalls
<1>3. CASE UnrescueWork
  <2>1. UnrescuePowersOff \/ UnrescueRestores => node' = node
    BY DEF UnrescuePowersOff, UnrescueRestores
  <2>2. ~(\/ DoNodeUnrescue \/ UnrescueCleansUp \/ UnrescueBoots \/ UnrescueFails)
    BY UnrescueRows
  <2> QED
    BY <1>3, <2>1, <2>2 DEF UnrescueWork
<1>4. CASE InspectionWork
  <2>1. InspectFails \/ ProcessFails \/ DoAbortInspection => node' = node
    BY DEF InspectFails, ProcessFails, DoAbortInspection
  <2>2. ~(\/ InspectHardware \/ InspectPrepares \/ InspectBoots \/ ContinueInspection
          \/ ProcessCleansUp \/ StoreInventory \/ UndoInspection
          \/ HandleInspectionError \/ AbortInspection \/ CheckInspectWaitTimeouts)
    BY InspectionRows, InspectionErrorRows
  <2> QED
    BY <1>4, <2>1, <2>2 DEF InspectionWork
<1>5. CASE OtherWork
  <2>1. SyncLocalState \/ DoTakeover => node' = node
    BY DEF SyncLocalState, DoTakeover
  <2>2. ~(\/ Verify \/ DoNodeVerify \/ Adopt \/ DoAdoption \/ DoNodeTearDown
          \/ TearDown \/ Redeploy \/ Manage \/ Provide \/ UpdateMaintenance)
    BY OtherRows, MaintenanceRow
  <2> QED
    BY <1>5, <2>1, <2>2 DEF OtherWork
<1>6. CASE Accidents
  <2>1. \/ Crash \/ Restart \/ CheckOrphanNodes \/ AgentReports \/ ReportLost
        \/ AgentLost
      => node' = node
    BY DEF Crash, Restart, CheckOrphanNodes, AgentReports, ReportLost, AgentLost,
          world
  <2>2. ~(CorrectStuckStates \/ AgentBoots)
    BY OtherRows DEF Corrected
  <2> QED
    BY <1>6, <2>1, <2>2 DEF Accidents
<1> QED
  BY ActionsByFlow, <1>1, <1>2, <1>3, <1>4, <1>5, <1>6

\* A node that enters RESCUE lets in the password of the last accepted request, on the
\* network of the tenant, with the password gone from the row (_finalize_rescue), if a
\* request that is not accepted takes its password back: no conductor dies between the
\* save of a password and the event it is for, and its validation meets no network error.
THEOREM TheLastPasswordIsLetIn == AllOrNothing /\ Spec => RescueMeansReady
<1> DEFINE Inv == Kernel /\ Ready
<1> DEFINE Arrives == node.state # "rescue" /\ node'.state = "rescue" =>
                        /\ machine'.is = "rescue" /\ machine'.entry = wanted
                        /\ nets' \ (IF attached THEN {"inspection"} ELSE {}) = {"tenant"}
                        /\ node'.password = 0
<1> SUFFICES ASSUME AllOrNothing
             PROVE  Spec => RescueMeansReady
  OBVIOUS
<1>1. Init => Inv
  <2>1. Init => node.state # "rescue wait" /\ pc = "idle"
    BY DEF Init
  <2> QED
    BY <2>1, KernelInit DEF Ready, BeforeFinalize
<1>2. Inv /\ [Next]_vars => Inv'
  <2> SUFFICES ASSUME Inv, [Next]_vars
               PROVE  Inv'
    OBVIOUS
  <2>1. Kernel'
    BY KernelStep
  <2>2. UNCHANGED vars => Unconcerned
    BY DEF vars, world, run, Unconcerned
  <2> QED
    BY <2>1, <2>2, ReadyStep, ReadyAfter DEF Kernel
<1>3. Inv /\ [Next]_vars => [Arrives]_vars
  <2> SUFFICES ASSUME Inv, Next, node.state # "rescue", node'.state = "rescue"
               PROVE  /\ machine'.is = "rescue" /\ machine'.entry = wanted
                      /\ nets' \ (IF attached THEN {"inspection"} ELSE {}) = {"tenant"}
                      /\ node'.password = 0
    OBVIOUS
  <2>1. FinalizeReattaches
    BY IntoRescue DEF Kernel
  <2>2. /\ machine' = machine /\ nets' = nets \cup {"tenant"}
        /\ pc = "reattach" /\ node.state = "rescuing"
    BY <2>1 DEF FinalizeReattaches, Working, run, Kernel, Placed
  <2>3. nets \subseteq {"tenant", "rescuing", "inspection"} /\ "rescuing" \notin nets
    BY <2>2 DEF Kernel, TypeOK, Ready
  <2>4. "inspection" \in nets => attached
    BY <2>2 DEF Kernel, Connected, Awaited
  <2>5. nets' \ (IF attached THEN {"inspection"} ELSE {}) = {"tenant"}
    <3>1. CASE attached
      BY <2>2, <2>3, <3>1
    <3>2. CASE ~attached
      BY <2>2, <2>3, <2>4, <3>2
    <3> QED
      BY <3>1, <3>2
  <2>6. node'.password = 0
    BY <2>1, <2>2, RescueRows, TypeIs DEF Kernel, Kept, Ready
  <2> QED
    BY <2>2, <2>5, <2>6 DEF Ready
<1> QED
  BY <1>1, <1>2, <1>3, PTL DEF Spec, RescueMeansReady

----------------------------------------------------------------------------
(* The boot of an inspection *)

AfterDelete == RescueStates \cup {"deleting", "error"}

\* Only a boot that ironic manages attaches the machine, and leaves the ramdisk in
\* the boot configuration of a node without a rescue; the row knows of it.
Managed ==
    /\ "inspection" \in nets => ManageBoot
    /\ boots = "ramdisk" => ManageBoot \/ node.state \in AfterDelete
    /\ pc = "start" => boots = "instance"
    /\ node.state = "inspect wait" \/ pc \in {"launch", "process"} => (ManageBoot => node.manages)

AtBoot == {"start", "launch", "process"}

\* Actions that leave the node to the rescue and the tear down, that are about
\* something else, and that keep to the state.
IntoDelete ==
    /\ node'.state \in AfterDelete /\ pc' \notin AtBoot
    /\ "inspection" \in nets' => "inspection" \in nets
OffDelete ==
    /\ node.state \notin AfterDelete /\ boots' \in {boots, "instance", "nothing"}
    /\ node'.state # "inspect wait" /\ pc' \notin AtBoot
    /\ "inspection" \in nets' => "inspection" \in nets
AsBefore ==
    /\ node'.state = node.state /\ (node'.manages <=> node.manages)
    /\ boots' \in {boots, "instance", "nothing"}
    /\ pc' \in AtBoot => pc' = pc /\ boots' = boots
    /\ "inspection" \in nets' => "inspection" \in nets

LEMMA ManagedAfter ==
    ASSUME Managed, IntoDelete \/ OffDelete \/ AsBefore
    PROVE  Managed'
<1>1. CASE IntoDelete
  BY <1>1 DEF IntoDelete, Managed, AtBoot, AfterDelete, RescueStates
<1>2. CASE OffDelete
  BY <1>2 DEF OffDelete, Managed, AtBoot
<1>3. CASE AsBefore
  BY <1>3 DEF AsBefore, Managed, AtBoot
<1> QED
  BY <1>1, <1>2, <1>3

LEMMA ManagedInRescue ==
    ASSUME TypeOK, Placed, Managed, RescueWork \/ RescueCalls \/ UnrescueWork
    PROVE  Managed'
<1>0. node \in NodeRows /\ OthersOK
  BY TypeIs
<1> USE <1>0 DEF Placed, Working, Stay, Acquire, Release, Briefly, BeforeFinalize, Unrescuing,
                 Rescuable, Unrescuable, Kept, Cleared, LetGo, world, run, arguments, counts
<1>1. CASE RescueWork
  <2>1. AcceptRescue => IntoDelete
    BY RescueRows DEF AcceptRescue, IntoDelete, AtBoot, AfterDelete, RescueStates
  <2>2. RefuseRescue => AsBefore
    BY RescueRows DEF RefuseRescue, AsBefore, AtBoot, AfterDelete, RescueStates
  <2>3. RescuePowersOff => IntoDelete
    BY DEF RescuePowersOff, IntoDelete, AtBoot, AfterDelete, RescueStates
  <2>4. RescueDetaches => IntoDelete
    BY DEF RescueDetaches, IntoDelete, AtBoot, AfterDelete, RescueStates
  <2>5. RescueAttaches => IntoDelete
    BY DEF RescueAttaches, IntoDelete, AtBoot, AfterDelete, RescueStates
  <2>6. RescueBoots => IntoDelete
    BY RescueRows DEF RescueBoots, IntoDelete, AtBoot, AfterDelete, RescueStates
  <2>7. RescueFails => IntoDelete
    BY RescueRows DEF RescueFails, IntoDelete, AtBoot, AfterDelete, RescueStates
  <2>8. FinalizeCleansUp => IntoDelete
    BY RescueRows DEF FinalizeCleansUp, CleanUp, IntoDelete, AtBoot, AfterDelete, RescueStates
  <2>9. FinalizeReattaches => IntoDelete
    BY RescueRows DEF FinalizeReattaches, IntoDelete, AtBoot, AfterDelete, RescueStates
  <2>10. FinalizeFails => IntoDelete
    BY DEF FinalizeFails, IntoDelete, AtBoot, AfterDelete, RescueStates
  <2>11. HandleError => IntoDelete
    BY RescueErrorRows DEF HandleError, CleanUp, IntoDelete, AtBoot, AfterDelete, RescueStates
  <2>12. AbortRescue => IntoDelete
    BY RescueErrorRows DEF AbortRescue, CleanUp, IntoDelete, AtBoot, AfterDelete, RescueStates
  <2> QED
    BY <1>1, <2>1, <2>2, <2>3, <2>4, <2>5, <2>6, <2>7, <2>8, <2>9, <2>10, <2>11, <2>12, ManagedAfter DEF RescueWork
<1>2. CASE RescueCalls
  <2>1. DoNodeRescue => AsBefore
    BY RequestRow DEF DoNodeRescue, AsBefore, AtBoot, AfterDelete, RescueStates
  <2>2. HeartbeatFinalizes => IntoDelete
    BY RescueRows DEF HeartbeatFinalizes, Heartbeat, IntoDelete, AtBoot, AfterDelete,
          RescueStates
  <2>3. HeartbeatFails => IntoDelete
    BY DEF HeartbeatFails, Heartbeat, IntoDelete, AtBoot, AfterDelete, RescueStates
  <2>4. HeartbeatInMaintenance => IntoDelete
    BY DEF HeartbeatInMaintenance, Heartbeat, IntoDelete, AtBoot, AfterDelete,
          RescueStates
  <2>5. DoAbort => IntoDelete
    BY RescueErrorRows DEF DoAbort, IntoDelete, AtBoot, AfterDelete, RescueStates
  <2>6. CheckRescuewaitTimeouts => IntoDelete
    BY RescueErrorRows DEF CheckRescuewaitTimeouts, IntoDelete, AtBoot, AfterDelete, RescueStates
  <2> QED
    BY <1>2, <2>1, <2>2, <2>3, <2>4, <2>5, <2>6, ManagedAfter DEF RescueCalls
<1>3. CASE UnrescueWork
  <2>1. DoNodeUnrescue => IntoDelete
    BY UnrescueRows DEF DoNodeUnrescue, IntoDelete, AtBoot, AfterDelete, RescueStates
  <2>2. UnrescuePowersOff => IntoDelete
    BY DEF UnrescuePowersOff, IntoDelete, AtBoot, AfterDelete, RescueStates
  <2>3. UnrescueCleansUp => IntoDelete
    BY UnrescueRows DEF UnrescueCleansUp, CleanUp, IntoDelete, AtBoot, AfterDelete, RescueStates
  <2>4. UnrescueRestores => Managed'
    BY DEF UnrescueRestores, Managed, AtBoot, AfterDelete, RescueStates
  <2>5. UnrescueBoots => Managed'
    BY UnrescueRows DEF UnrescueBoots, Managed, AtBoot, AfterDelete, RescueStates
  <2>6. UnrescueFails => IntoDelete
    BY UnrescueRows DEF UnrescueFails, IntoDelete, AtBoot, AfterDelete, RescueStates
  <2> QED
    BY <1>3, <2>1, <2>2, <2>3, <2>4, <2>5, <2>6, ManagedAfter DEF UnrescueWork
<1> QED
  BY <1>1, <1>2, <1>3

LEMMA ManagedInTheRest ==
    ASSUME TypeOK, Placed, Managed, InspectionWork \/ OtherWork
    PROVE  Managed'
<1>0. node \in NodeRows /\ OthersOK
  BY TypeIs
<1> USE <1>0 DEF Placed, Working, Stay, Acquire, Release, Briefly, BeforeFinalize, Unrescuing,
                 Rescuable, Unrescuable, Kept, Cleared, LetGo, world, run, arguments, counts
<1>1. CASE InspectionWork
  <2>1. InspectHardware => OffDelete
    BY InspectionRows DEF InspectHardware, OffDelete, AtBoot, AfterDelete, RescueStates
  <2>2. InspectPrepares => Managed'
    BY InspectionRows DEF InspectPrepares, Managed, AtBoot, AfterDelete, RescueStates
  <2>3. InspectBoots => Managed'
    BY InspectionRows DEF InspectBoots, Managed, AtBoot, AfterDelete, RescueStates
  <2>4. InspectFails => AsBefore
    BY DEF InspectFails, AsBefore, AtBoot, AfterDelete, RescueStates
  <2>5. ContinueInspection => Managed'
    BY InspectionRows DEF ContinueInspection, Managed, AtBoot, AfterDelete, RescueStates
  <2>6. ProcessCleansUp => OffDelete
    BY InspectionErrorRows DEF ProcessCleansUp, OffDelete, AtBoot, AfterDelete, RescueStates,
          TearDownManagedBoot
  <2>7. StoreInventory => OffDelete
    BY InspectionRows DEF StoreInventory, OffDelete, AtBoot, AfterDelete, RescueStates
  <2>8. ProcessFails => AsBefore
    BY DEF ProcessFails, AsBefore, AtBoot, AfterDelete, RescueStates
  <2>9. UndoInspection => OffDelete
    BY InspectionRows DEF UndoInspection, OffDelete, AtBoot, AfterDelete, RescueStates,
          TearDownManagedBoot
  <2>10. HandleInspectionError => OffDelete
    BY InspectionErrorRows DEF HandleInspectionError, OffDelete, AtBoot, AfterDelete, RescueStates
  <2>11. DoAbortInspection => AsBefore
    BY DEF DoAbortInspection, AsBefore, AtBoot, AfterDelete, RescueStates
  <2>12. AbortInspection => OffDelete
    BY InspectionErrorRows DEF AbortInspection, OffDelete, AtBoot, AfterDelete, RescueStates,
          TearDownManagedBoot
  <2>13. CheckInspectWaitTimeouts => Managed'
    BY InspectionErrorRows DEF CheckInspectWaitTimeouts, Managed, AtBoot, AfterDelete, RescueStates
  <2> QED
    BY <1>1, <2>1, <2>2, <2>3, <2>4, <2>5, <2>6, <2>7, <2>8, <2>9, <2>10, <2>11, <2>12, <2>13, ManagedAfter DEF InspectionWork
<1>2. CASE OtherWork
  <2>1. Verify => OffDelete
    BY OtherRows DEF Verify, OffDelete, AtBoot, AfterDelete, RescueStates
  <2>2. DoNodeVerify => OffDelete
    BY OtherRows DEF DoNodeVerify, OffDelete, AtBoot, AfterDelete, RescueStates
  <2>3. Adopt => OffDelete
    BY OtherRows DEF Adopt, OffDelete, AtBoot, AfterDelete, RescueStates
  <2>4. DoAdoption => OffDelete
    BY OtherRows DEF DoAdoption, OffDelete, AtBoot, AfterDelete, RescueStates
  <2>5. SyncLocalState => AsBefore
    BY DEF SyncLocalState, AsBefore, AtBoot, AfterDelete, RescueStates
  <2>6. DoTakeover => AsBefore
    BY DEF DoTakeover, AsBefore, AtBoot, AfterDelete, RescueStates
  <2>7. DoNodeTearDown => IntoDelete
    BY OtherRows DEF DoNodeTearDown, IntoDelete, AtBoot, AfterDelete, RescueStates
  <2>8. TearDown => Managed'
    BY OtherRows DEF TearDown, CleanUp, Managed, AtBoot, AfterDelete, RescueStates
  <2>9. Redeploy => OffDelete
    BY OtherRows DEF Redeploy, OffDelete, AtBoot, AfterDelete, RescueStates
  <2>10. Manage => OffDelete
    BY OtherRows DEF Manage, OffDelete, AtBoot, AfterDelete, RescueStates
  <2>11. Provide => OffDelete
    BY OtherRows DEF Provide, OffDelete, AtBoot, AfterDelete, RescueStates
  <2>12. UpdateMaintenance => AsBefore
    BY MaintenanceRow DEF UpdateMaintenance, AsBefore, AtBoot, AfterDelete, RescueStates
  <2> QED
    BY <1>2, <2>1, <2>2, <2>3, <2>4, <2>5, <2>6, <2>7, <2>8, <2>9, <2>10, <2>11, <2>12, ManagedAfter DEF OtherWork
<1> QED
  BY <1>1, <1>2

LEMMA ManagedStep ==
    ASSUME TypeOK, Placed, Managed, Next
    PROVE  Managed'
<1>0. node \in NodeRows /\ OthersOK
  BY TypeIs
<1>1. CASE RescueWork \/ RescueCalls \/ UnrescueWork
  BY <1>1, ManagedInRescue
<1>2. CASE InspectionWork \/ OtherWork
  BY <1>2, ManagedInTheRest
<1>3. CASE Accidents
  <2>1. Crash \/ Restart \/ CheckOrphanNodes \/ ReportLost => AsBefore
    BY DEF Crash, Restart, CheckOrphanNodes, ReportLost, AsBefore, AtBoot, world, run
  <2>2. AgentBoots \/ AgentReports \/ AgentLost => AsBefore
    BY <1>0, OtherRows DEF AgentBoots, AgentReports, AgentLost, AsBefore, Kept
  <2>3. CorrectStuckStates => IntoDelete \/ OffDelete \/ AsBefore
    BY <1>0, OtherRows DEF CorrectStuckStates, Corrected, Kept, Placed, IntoDelete, OffDelete,
       AsBefore, AtBoot, AfterDelete, RescueStates, world
  <2> QED
    BY <1>3, <2>1, <2>2, <2>3, ManagedAfter DEF Accidents
<1> QED
  BY ActionsByFlow, <1>1, <1>2, <1>3

----------------------------------------------------------------------------
(* The data of an inspection *)

\* Only the ramdisk of the last inspection can report, and the node is in
\* INSPECTING after the clean up only if all of it was done.
Reported ==
    /\ pc = "launch" => calls = {} /\ machine.is = "off"
    /\ node.state = "inspect wait" =>
          calls \subseteq {inspections} /\ machine.data \in {0, inspections}
    /\ pc \in {"process", "store"} => report = inspections
    /\ pc = "store" /\ node.state = "inspecting" =>
          /\ "inspection" \notin nets /\ boots # "ramdisk"
          /\ PowerOffAfter => machine.is = "off"

AtReport == {"launch", "process", "store"}

\* An action after which no report is awaited, and one that does not change whose
\* it is.
NoReport == node'.state # "inspect wait" /\ pc' \notin AtReport
Unaware ==
    /\ node'.state = node.state /\ inspections' = inspections
    /\ calls' \subseteq calls /\ machine'.data \in {0, machine.data}
    /\ pc' \in AtReport => /\ pc' = pc /\ report' = report
                           /\ boots' = boots /\ nets' = nets
                           /\ machine.is = "off" => machine'.is = "off"

LEMMA ReportedAfter ==
    ASSUME Reported, NoReport \/ Unaware
    PROVE  Reported'
<1>1. CASE NoReport
  BY <1>1 DEF NoReport, Reported, AtReport
<1>2. CASE Unaware
  <2>1. pc' \in AtReport => Reported'
    BY <1>2 DEF Unaware, Reported, AtReport
  <2>2. pc' \notin AtReport => Reported'
    BY <1>2 DEF Unaware, Reported, AtReport
  <2> QED
    BY <2>1, <2>2
<1> QED
  BY <1>1, <1>2

LEMMA ReportedInRescue ==
    ASSUME TypeOK, Placed, Managed, Reported, ~May("late callback"), RescueWork \/ RescueCalls \/ UnrescueWork
    PROVE  Reported'
<1>0. node \in NodeRows /\ OthersOK
  BY TypeIs
<1> USE <1>0 DEF Placed, Working, Stay, Acquire, Release, Briefly, BeforeFinalize, Unrescuing,
                 Rescuable, Unrescuable, Kept, Cleared, LetGo, world, run, arguments, counts
<1>1. CASE RescueWork
  <2>1. AcceptRescue => NoReport
    BY RescueRows DEF AcceptRescue, NoReport, AtReport
  <2>2. RefuseRescue => NoReport
    BY RescueRows DEF RefuseRescue, NoReport, AtReport
  <2>3. RescuePowersOff => NoReport
    BY DEF RescuePowersOff, NoReport, AtReport
  <2>4. RescueDetaches => NoReport
    BY DEF RescueDetaches, NoReport, AtReport
  <2>5. RescueAttaches => NoReport
    BY DEF RescueAttaches, NoReport, AtReport
  <2>6. RescueBoots => NoReport
    BY RescueRows DEF RescueBoots, NoReport, AtReport
  <2>7. RescueFails => NoReport
    BY RescueRows DEF RescueFails, NoReport, AtReport
  <2>8. FinalizeCleansUp => NoReport
    BY RescueRows DEF FinalizeCleansUp, CleanUp, NoReport, AtReport
  <2>9. FinalizeReattaches => NoReport
    BY RescueRows DEF FinalizeReattaches, NoReport, AtReport
  <2>10. FinalizeFails => NoReport
    BY DEF FinalizeFails, NoReport, AtReport
  <2>11. HandleError => NoReport
    BY RescueErrorRows DEF HandleError, CleanUp, NoReport, AtReport
  <2>12. AbortRescue => NoReport
    BY RescueErrorRows DEF AbortRescue, CleanUp, NoReport, AtReport
  <2> QED
    BY <1>1, <2>1, <2>2, <2>3, <2>4, <2>5, <2>6, <2>7, <2>8, <2>9, <2>10, <2>11, <2>12, ReportedAfter DEF RescueWork
<1>2. CASE RescueCalls
  <2>1. DoNodeRescue => NoReport
    BY RequestRow DEF DoNodeRescue, NoReport, AtReport
  <2>2. HeartbeatFinalizes => NoReport
    BY RescueRows DEF HeartbeatFinalizes, Heartbeat, NoReport, AtReport
  <2>3. HeartbeatFails => NoReport
    BY DEF HeartbeatFails, Heartbeat, NoReport, AtReport
  <2>4. HeartbeatInMaintenance => NoReport
    BY DEF HeartbeatInMaintenance, Heartbeat, NoReport, AtReport
  <2>5. DoAbort => NoReport
    BY RescueErrorRows DEF DoAbort, NoReport, AtReport
  <2>6. CheckRescuewaitTimeouts => NoReport
    BY RescueErrorRows DEF CheckRescuewaitTimeouts, NoReport, AtReport
  <2> QED
    BY <1>2, <2>1, <2>2, <2>3, <2>4, <2>5, <2>6, ReportedAfter DEF RescueCalls
<1>3. CASE UnrescueWork
  <2>1. DoNodeUnrescue => NoReport
    BY UnrescueRows DEF DoNodeUnrescue, NoReport, AtReport
  <2>2. UnrescuePowersOff => NoReport
    BY DEF UnrescuePowersOff, NoReport, AtReport
  <2>3. UnrescueCleansUp => NoReport
    BY UnrescueRows DEF UnrescueCleansUp, CleanUp, NoReport, AtReport
  <2>4. UnrescueRestores => NoReport
    BY DEF UnrescueRestores, NoReport, AtReport
  <2>5. UnrescueBoots => NoReport
    BY UnrescueRows DEF UnrescueBoots, NoReport, AtReport
  <2>6. UnrescueFails => NoReport
    BY UnrescueRows DEF UnrescueFails, NoReport, AtReport
  <2> QED
    BY <1>3, <2>1, <2>2, <2>3, <2>4, <2>5, <2>6, ReportedAfter DEF UnrescueWork
<1> QED
  BY <1>1, <1>2, <1>3

LEMMA ReportedInTheRest ==
    ASSUME TypeOK, Placed, Managed, Reported, ~May("late callback"), InspectionWork \/ OtherWork
    PROVE  Reported'
<1>0. node \in NodeRows /\ OthersOK
  BY TypeIs
<1> USE <1>0 DEF Placed, Working, Stay, Acquire, Release, Briefly, BeforeFinalize, Unrescuing,
                 Rescuable, Unrescuable, Kept, Cleared, LetGo, world, run, arguments, counts
<1>1. CASE InspectionWork
  <2>1. InspectHardware => NoReport
    BY InspectionRows DEF InspectHardware, NoReport, AtReport
  <2>2. InspectPrepares => Reported'
    <3>1. InspectPrepares => machine'.is = "off" /\ calls' = {}
      BY MachineIs DEF InspectPrepares, PowerOff
    <3> QED
      BY <3>1, InspectionRows DEF InspectPrepares, Reported
  <2>3. InspectBoots => Reported'
    <3>1. inspections \in {0} \cup Inspections
      BY Counters
    <3>2. InspectBoots => machine'.data = inspections
      BY <3>1 DEF InspectBoots, Machine
    <3> QED
      BY <3>2, InspectionRows DEF InspectBoots, Reported
  <2>4. InspectFails => NoReport
    BY DEF InspectFails, NoReport, AtReport
  <2>5. ContinueInspection => Reported'
    BY InspectionRows DEF ContinueInspection, Reported, AtReport
  <2>6. ProcessCleansUp => Reported'
    <3> SUFFICES ASSUME ProcessCleansUp PROVE Reported'
      OBVIOUS
    <3>1. /\ pc = "process" /\ pc' = "store" /\ node.state = "inspecting"
          /\ report' = report /\ inspections' = inspections
      BY DEF ProcessCleansUp
    <3>2. PICK errors \in SUBSET Undone(node) :
             TearDownManagedBoot(errors) /\ node' = CleanedUp(node, errors)
      BY DEF ProcessCleansUp
    <3>3. LetGo(node, node', IF errors = {} THEN node.state ELSE "inspect failed")
      BY <3>1, <3>2, CleanedUpRow
    <3>4. CASE errors = {}
      <4>1. nets' = IF "network" \in Undone(node) THEN nets \ {"inspection"} ELSE nets
        BY <3>2, <3>4 DEF TearDownManagedBoot
      <4>2. boots' = IF "boot" \in Undone(node) /\ boots = "ramdisk" THEN "nothing" ELSE boots
        BY <3>2, <3>4 DEF TearDownManagedBoot
      <4>3. "power" \in Undone(node) => machine'.is = "off"
        BY <3>2, <3>4, MachineIs DEF TearDownManagedBoot, PowerOff
      <4>4. ManageBoot => "boot" \in Undone(node) /\ "network" \in Undone(node)
        BY <3>1 DEF Undone, Managed
      <4>5. PowerOffAfter => "power" \in Undone(node)
        BY DEF Undone, TearDownSteps
      <4>6. "inspection" \notin nets'
        BY <4>1, <4>4 DEF Managed
      <4>7. boots' # "ramdisk"
        BY <3>1, <4>2, <4>4 DEF Managed, AfterDelete, RescueStates
      <4> QED
        BY <3>1, <3>3, <3>4, <4>3, <4>5, <4>6, <4>7 DEF Reported
    <3>5. CASE errors # {}
      BY <3>1, <3>3, <3>5 DEF Reported
    <3> QED
      BY <3>4, <3>5
  <2>7. StoreInventory => NoReport
    BY InspectionRows DEF StoreInventory, NoReport, AtReport
  <2>8. ProcessFails => NoReport
    BY DEF ProcessFails, NoReport, AtReport
  <2>9. UndoInspection => NoReport
    BY InspectionRows DEF UndoInspection, NoReport, AtReport
  <2>10. HandleInspectionError => NoReport
    BY InspectionErrorRows DEF HandleInspectionError, NoReport, AtReport
  <2>11. DoAbortInspection => Unaware
    BY DEF DoAbortInspection, Unaware, AtReport
  <2>12. AbortInspection => NoReport
    BY InspectionErrorRows DEF AbortInspection, NoReport, AtReport
  <2>13. CheckInspectWaitTimeouts => NoReport \/ Unaware
    BY InspectionErrorRows DEF CheckInspectWaitTimeouts, NoReport, Unaware, AtReport
  <2> QED
    BY <1>1, <2>1, <2>2, <2>3, <2>4, <2>5, <2>6, <2>7, <2>8, <2>9, <2>10, <2>11, <2>12, <2>13, ReportedAfter DEF InspectionWork
<1>2. CASE OtherWork
  <2>1. Verify => NoReport
    BY OtherRows DEF Verify, NoReport, AtReport
  <2>2. DoNodeVerify => NoReport
    BY OtherRows DEF DoNodeVerify, NoReport, AtReport
  <2>3. Adopt => NoReport
    BY OtherRows DEF Adopt, NoReport, AtReport
  <2>4. DoAdoption => NoReport
    BY OtherRows DEF DoAdoption, NoReport, AtReport
  <2>5. SyncLocalState => NoReport
    BY DEF SyncLocalState, NoReport, AtReport
  <2>6. DoTakeover => NoReport
    BY DEF DoTakeover, NoReport, AtReport
  <2>7. DoNodeTearDown => NoReport
    BY OtherRows DEF DoNodeTearDown, NoReport, AtReport
  <2>8. TearDown => NoReport
    BY OtherRows DEF TearDown, CleanUp, NoReport, AtReport
  <2>9. Redeploy => NoReport
    BY OtherRows DEF Redeploy, NoReport, AtReport
  <2>10. Manage => NoReport
    BY OtherRows DEF Manage, NoReport, AtReport
  <2>11. Provide => NoReport
    BY OtherRows DEF Provide, NoReport, AtReport
  <2>12. UpdateMaintenance => Unaware
    BY MaintenanceRow DEF UpdateMaintenance, Unaware, AtReport
  <2> QED
    BY <1>2, <2>1, <2>2, <2>3, <2>4, <2>5, <2>6, <2>7, <2>8, <2>9, <2>10, <2>11, <2>12, ReportedAfter DEF OtherWork
<1> QED
  BY <1>1, <1>2

LEMMA ReportedStep ==
    ASSUME TypeOK, Placed, Managed, Reported, ~May("late callback"), Next
    PROVE  Reported'
<1>0. node \in NodeRows /\ OthersOK
  BY TypeIs
<1>1. CASE RescueWork \/ RescueCalls \/ UnrescueWork
  BY <1>1, ReportedInRescue
<1>2. CASE InspectionWork \/ OtherWork
  BY <1>2, ReportedInTheRest
<1>3. CASE Accidents
  <2>1. Crash \/ Restart \/ CheckOrphanNodes \/ ReportLost => Unaware
    BY DEF Crash, Restart, CheckOrphanNodes, ReportLost, Unaware, AtReport, world, run,
       arguments, counts
  <2>2. AgentBoots => Unaware
    <3>1. AgentBoots => machine'.data = machine.data /\ machine.is # "off"
      BY <1>0 DEF AgentBoots, OthersOK, MachineType
    <3> QED
      BY <1>0, <3>1, OtherRows DEF AgentBoots, Unaware, Kept, arguments, counts
  <2>3. AgentReports => Reported'
    <3>1. AgentReports => machine'.data = 0 /\ machine'.is = machine.is
      BY <1>0 DEF AgentReports, OthersOK, MachineType
    <3> QED
      BY <3>1 DEF AgentReports, Reported, arguments, counts
  <2>4. AgentLost => Unaware
    <3>1. AgentLost => machine'.data = 0 /\ machine'.is = "off"
      BY MachineIs DEF AgentLost
    <3> QED
      BY <3>1 DEF AgentLost, Unaware, arguments, counts
  <2>5. CorrectStuckStates => NoReport \/ Unaware
    BY <1>0, OtherRows DEF CorrectStuckStates, Corrected, Kept, Placed, AtReport,
       NoReport, Unaware, world, run, arguments
  <2> QED
    BY <1>3, <2>1, <2>2, <2>3, <2>4, <2>5, ReportedAfter DEF Accidents
<1> QED
  BY ActionsByFlow, <1>1, <1>2, <1>3

\* Nothing else takes a node from INSPECTING to MANAGEABLE.
LEMMA IntoManageable ==
    ASSUME TypeOK, Placed, Next, node.state = "inspecting", node'.state = "manageable"
    PROVE  StoreInventory
<1>0. node \in NodeRows /\ OthersOK
  BY TypeIs
<1> USE <1>0 DEF Kept, Cleared, LetGo
<1>1. CASE RescueWork
  <2>1. \/ RescuePowersOff \/ RescueDetaches \/ RescueAttaches \/ FinalizeFails
      => node' = node
    BY DEF RescuePowersOff, RescueDetaches, RescueAttaches, FinalizeFails
  <2>2. ~(\/ AcceptRescue \/ RefuseRescue \/ RescueBoots \/ RescueFails
          \/ FinalizeCleansUp \/ FinalizeReattaches \/ HandleError \/ AbortRescue)
    BY RescueRows, RescueErrorRows
  <2> QED
    BY <1>1, <2>1, <2>2 DEF RescueWork
<1>2. CASE RescueCalls
  <2>1. HeartbeatFails \/ HeartbeatInMaintenance => node' = node
    BY DEF HeartbeatFails, HeartbeatInMaintenance
  <2>2. ~(\/ DoNodeRescue \/ HeartbeatFinalizes \/ DoAbort \/ CheckRescuewaitTimeouts)
    BY RescueRows, RescueErrorRows, RequestRow
  <2> QED
    BY <1>2, <2>1, <2>2 DEF RescueCalls
<1>3. CASE UnrescueWork
  <2>1. UnrescuePowersOff \/ UnrescueRestores => node' = node
    BY DEF UnrescuePowersOff, UnrescueRestores
  <2>2. ~(\/ DoNodeUnrescue \/ UnrescueCleansUp \/ UnrescueBoots \/ UnrescueFails)
    BY UnrescueRows
  <2> QED
    BY <1>3, <2>1, <2>2 DEF UnrescueWork
<1>4. CASE InspectionWork
  <2>1. InspectFails \/ ProcessFails \/ DoAbortInspection => node' = node
    BY DEF InspectFails, ProcessFails, DoAbortInspection
  <2>2. ~(\/ InspectHardware \/ InspectPrepares \/ InspectBoots \/ ContinueInspection
          \/ ProcessCleansUp \/ UndoInspection \/ HandleInspectionError
          \/ AbortInspection \/ CheckInspectWaitTimeouts)
    BY InspectionRows, InspectionErrorRows
  <2> QED
    BY <1>4, <2>1, <2>2 DEF InspectionWork
<1>5. CASE OtherWork
  <2>1. SyncLocalState \/ DoTakeover => node' = node
    BY DEF SyncLocalState, DoTakeover
  <2>2. ~(\/ Verify \/ Adopt \/ DoAdoption \/ DoNodeTearDown
          \/ TearDown \/ Redeploy \/ Manage \/ Provide \/ UpdateMaintenance)
    BY OtherRows, MaintenanceRow
  <2>3. ~DoNodeVerify
    BY DEF DoNodeVerify, Working, Placed
  <2> QED
    BY <1>5, <2>1, <2>2, <2>3 DEF OtherWork
<1>6. CASE Accidents
  <2>1. \/ Crash \/ Restart \/ CheckOrphanNodes \/ AgentReports \/ ReportLost
        \/ AgentLost
      => node' = node
    BY DEF Crash, Restart, CheckOrphanNodes, AgentReports, ReportLost, AgentLost,
          world
  <2>2. ~(CorrectStuckStates \/ AgentBoots)
    BY OtherRows DEF Corrected
  <2> QED
    BY <1>6, <2>1, <2>2 DEF Accidents
<1> QED
  BY ActionsByFlow, <1>1, <1>2, <1>3, <1>4, <1>5, <1>6

\* A node that has been inspected has the data of this inspection, and is off the
\* network, out of the ramdisk and powered off as configured (continue_inspection),
\* whichever clean up has failed before, if the data of a ramdisk do not arrive after
\* it was powered off.
THEOREM TheLastInspectionCounts == ~May("late callback") /\ Spec => InspectedMeansDone
<1> DEFINE Inv == Kernel /\ Managed /\ Reported
<1> DEFINE Arrives == node.state = "inspecting" /\ node'.state = "manageable" =>
                        /\ inventory' = inspections
                        /\ "inspection" \notin nets' /\ boots' # "ramdisk"
                        /\ PowerOffAfter => machine'.is = "off"
<1> SUFFICES ASSUME ~May("late callback")
             PROVE  Spec => InspectedMeansDone
  OBVIOUS
<1>1. Init => Inv
  <2>1. Init => node.state # "inspect wait" /\ pc = "idle"
    BY DEF Init
  <2>2. Init => "inspection" \notin nets /\ boots # "ramdisk"
    BY DEF Init
  <2>3. Init => Managed
    BY <2>1, <2>2 DEF Managed
  <2>4. Init => Reported
    BY <2>1 DEF Reported
  <2> QED
    BY <2>3, <2>4, KernelInit
<1>2. Inv /\ [Next]_vars => Inv'
  <2> SUFFICES ASSUME Inv, [Next]_vars
               PROVE  Inv'
    OBVIOUS
  <2>1. Kernel'
    BY KernelStep
  <2>2. UNCHANGED vars => AsBefore /\ Unaware
    BY DEF vars, world, run, arguments, counts, AsBefore, Unaware
  <2>3. Managed'
    BY <2>2, ManagedStep, ManagedAfter DEF Kernel
  <2>4. Reported'
    BY <2>2, ReportedStep, ReportedAfter DEF Kernel
  <2> QED
    BY <2>1, <2>3, <2>4
<1>3. Inv /\ [Next]_vars => [Arrives]_vars
  <2> SUFFICES ASSUME Inv, Next, node.state = "inspecting", node'.state = "manageable"
               PROVE  /\ inventory' = inspections
                      /\ "inspection" \notin nets' /\ boots' # "ramdisk"
                      /\ PowerOffAfter => machine'.is = "off"
    OBVIOUS
  <2>1. StoreInventory
    BY IntoManageable DEF Kernel
  <2>2. /\ pc = "store" /\ inventory' = report /\ machine' = machine
        /\ nets' = nets /\ boots' = boots
    BY <2>1 DEF StoreInventory, Working, world, run
  <2> QED
    BY <2>2 DEF Reported
<1> QED
  BY <1>1, <1>2, <1>3, PTL DEF Spec, InspectedMeansDone

=============================================================================

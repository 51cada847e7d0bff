-------------------------- MODULE ProvisionStates --------------------------
(***************************************************************************)
(* The provisioning state machine of a node (common/state_machine.py), the *)
(* automaton that runs it (common/fsm.py), and what                        *)
(* TaskManager.process_event writes to nodes.provision_state and           *)
(* nodes.target_provision_state when an event is fired.                    *)
(***************************************************************************)

NoState == "none"       \* states.NOSTATE

Stable == {"enroll", "manageable", "available", "active", "error", "rescue"}

\* <<event, next state>>, for each state in the order of the source.
Moves(s) ==
    CASE s = "available" ->
            {<<"deploy", "deploying">>, <<"manage", "manageable">>}
      [] s = "deploying" ->
            {<<"fail", "deploy failed">>, <<"wait", "wait call-back">>,
             <<"hold", "deploy hold">>, <<"done", "active">>}
      [] s = "deploy failed" ->
            {<<"rebuild", "deploying">>, <<"deploy", "deploying">>,
             <<"delete", "deleting">>}
      [] s = "wait call-back" ->
            {<<"hold", "deploy hold">>, <<"resume", "deploying">>,
             <<"fail", "deploy failed">>, <<"abort", "deploy failed">>,
             <<"delete", "deleting">>}
      [] s = "deploy hold" ->
            {<<"unhold", "wait call-back">>, <<"abort", "deploy failed">>}
      [] s = "active" ->
            {<<"rebuild", "deploying">>, <<"delete", "deleting">>,
             <<"rescue", "rescuing">>, <<"service", "servicing">>}
      [] s = "deleting" -> {<<"fail", "error">>, <<"clean", "cleaning">>}
      [] s = "cleaning" ->
            {<<"done", "available">>, <<"fail", "clean failed">>,
             <<"wait", "clean wait">>, <<"hold", "clean hold">>,
             <<"manage", "manageable">>}
      [] s = "clean wait" ->
            {<<"fail", "clean failed">>, <<"abort", "clean failed">>,
             <<"hold", "clean hold">>, <<"resume", "cleaning">>}
      [] s = "clean hold" ->
            {<<"abort", "clean failed">>, <<"unhold", "clean wait">>}
      [] s = "clean failed" -> {<<"manage", "manageable">>}
      [] s = "manageable" ->
            {<<"provide", "cleaning">>, <<"clean", "cleaning">>,
             <<"inspect", "inspecting">>, <<"adopt", "adopting">>}
      [] s = "error" -> {<<"rebuild", "deploying">>, <<"delete", "deleting">>}
      [] s = "inspecting" ->
            {<<"done", "manageable">>, <<"fail", "inspect failed">>,
             <<"wait", "inspect wait">>}
      [] s = "inspect wait" ->
            {<<"done", "manageable">>, <<"fail", "inspect failed">>,
             <<"abort", "inspect failed">>, <<"resume", "inspecting">>}
      [] s = "inspect failed" ->
            {<<"manage", "manageable">>, <<"inspect", "inspecting">>}
      [] s = "rescuing" ->
            {<<"done", "rescue">>, <<"wait", "rescue wait">>,
             <<"fail", "rescue failed">>}
      [] s = "rescue wait" ->
            {<<"resume", "rescuing">>, <<"fail", "rescue failed">>,
             <<"abort", "rescue failed">>, <<"delete", "deleting">>}
      [] s = "rescue" ->
            {<<"rescue", "rescuing">>, <<"delete", "deleting">>,
             <<"unrescue", "unrescuing">>}
      [] s = "rescue failed" ->
            {<<"rescue", "rescuing">>, <<"unrescue", "unrescuing">>,
             <<"delete", "deleting">>}
      [] s = "unrescuing" ->
            {<<"done", "active">>, <<"fail", "unrescue failed">>}
      [] s = "unrescue failed" ->
            {<<"rescue", "rescuing">>, <<"unrescue", "unrescuing">>,
             <<"delete", "deleting">>}
      [] s = "enroll" -> {<<"manage", "verifying">>}
      [] s = "verifying" -> {<<"done", "manageable">>, <<"fail", "enroll">>}
      [] s = "adopting" -> {<<"done", "active">>, <<"fail", "adopt failed">>}
      [] s = "adopt failed" ->
            {<<"adopt", "adopting">>, <<"manage", "manageable">>}
      [] s = "servicing" ->
            {<<"done", "active">>, <<"fail", "service failed">>,
             <<"wait", "service wait">>, <<"hold", "service hold">>}
      [] s = "service wait" ->
            {<<"hold", "service hold">>, <<"resume", "servicing">>,
             <<"fail", "service failed">>, <<"abort", "service failed">>,
             <<"delete", "deleting">>}
      [] s = "service hold" ->
            {<<"service", "servicing">>, <<"unhold", "service wait">>,
             <<"fail", "service failed">>, <<"abort", "service failed">>}
      [] s = "service failed" ->
            {<<"service", "servicing">>, <<"rescue", "rescuing">>,
             <<"wait", "service wait">>, <<"hold", "service hold">>,
             <<"delete", "deleting">>, <<"abort", "active">>}
      [] OTHER -> {}

CleanStates == {"cleaning", "clean wait", "clean hold", "clean failed"}
DeployStates == {"deploying", "wait call-back", "deploy hold", "deploy failed"}
ServiceStates == {"servicing", "service wait", "service hold", "service failed"}

\* The state a node in "s" is on its way to, as add_state declares it.
DefaultTarget(s) ==
    CASE s \in CleanStates \cup {"deleting"} -> "available"
      [] s \in DeployStates \cup ServiceStates -> "active"
      [] s \in {"adopting", "adopt failed", "unrescuing", "unrescue failed"} -> "active"
      [] s \in {"verifying", "inspecting", "inspect wait", "inspect failed"} -> "manageable"
      [] s \in {"rescuing", "rescue wait", "rescue failed"} -> "rescue"
      [] OTHER -> NoState

States ==
    Stable \cup CleanStates \cup DeployStates \cup ServiceStates
    \cup {"deleting", "verifying", "adopting", "adopt failed",
          "inspecting", "inspect wait", "inspect failed",
          "rescuing", "rescue wait", "rescue failed", "unrescuing", "unrescue failed"}

Allowed(s, event) == \E t \in States : <<event, t>> \in Moves(s)

Successor(s, event) == CHOOSE t \in States : <<event, t>> \in Moves(s)

\* No event has two outcomes, every next state is a state, and every state
\* has moves.
ASSUME TransitionsAreAFunction ==
    \A s \in States :
        /\ Moves(s) # {}
        /\ \A m1, m2 \in Moves(s) : m1[2] \in States /\ (m1[1] = m2[1] => m1 = m2)

\* FSM._post_process_event and FSM.process_event: the target in memory, when
\* the automaton was initialized from the node's state and target.
MachineTarget(s, target, event, override) ==
    LET t == Successor(s, event)
        before == IF target # NoState THEN target ELSE DefaultTarget(s)
    IN  CASE override # NoState -> override
          [] override = NoState /\ DefaultTarget(t) # NoState -> DefaultTarget(t)
          [] OTHER -> IF before = t THEN NoState ELSE before

\* TaskManager.process_event: the provision_state and the
\* target_provision_state that are saved.
AfterEvent(s, target, event, override, callback) ==
    LET t == Successor(s, event)
    IN  [state |-> t,
         target |-> IF ~callback /\ t \in Stable THEN NoState
                    ELSE MachineTarget(s, target, event, override)]

=============================================================================

------------------------------ MODULE NodeLock ------------------------------
(***************************************************************************)
(* What the reservation of nodes promises, without saying how.             *)
(*                                                                         *)
(* A node has at most one owner, and passes from one owner to another only *)
(* through being free.  A task can be robbed of its node, and does not     *)
(* notice; this happens only to the tasks of conductors under suspicion,   *)
(* that is, of those which have once failed to send a heartbeat in time.   *)
(***************************************************************************)
CONSTANTS Conductors, Nodes, Tasks, None, Host, NodeOf

VARIABLES
    owner,      \* the task a node belongs to
    believers,  \* tasks that act as if their node belonged to them
    suspect     \* conductors that have been late with a heartbeat

vars == <<owner, believers, suspect>>

Init ==
    /\ owner = [n \in Nodes |-> None]
    /\ believers = {}
    /\ suspect = {}

Acquire(t) ==
    /\ owner[NodeOf[t]] = None
    /\ t \notin believers
    /\ owner' = [owner EXCEPT ![NodeOf[t]] = t]
    /\ believers' = believers \cup {t}
    /\ UNCHANGED suspect

\* A task that was robbed does not know: when it lets its node go, it may set
\* free what by now belongs to another task of the same conductor.
Release(t) ==
    /\ t \in believers
    /\ believers' = believers \ {t}
    /\ \/ /\ owner[NodeOf[t]] # t
          /\ UNCHANGED owner
       \/ /\ owner[NodeOf[t]] # None
          /\ owner[NodeOf[t]] # t =>
               /\ Host[owner[NodeOf[t]]] = Host[t]
               /\ Host[t] \in suspect
          /\ owner' = [owner EXCEPT ![NodeOf[t]] = None]
    /\ UNCHANGED suspect

\* Nodes are taken from tasks of conductors under suspicion.
Rob(N) ==
    /\ \A n \in N : owner[n] # None /\ Host[owner[n]] \in suspect
    /\ owner' = [n \in Nodes |-> IF n \in N THEN None ELSE owner[n]]
    /\ UNCHANGED <<believers, suspect>>

Suspect(c) ==
    /\ suspect' = suspect \cup {c}
    /\ UNCHANGED <<owner, believers>>

\* A process ends, and its tasks with it.
End(c) ==
    /\ believers' = {t \in believers : Host[t] # c}
    /\ owner' = [n \in Nodes |->
                   IF owner[n] # None /\ Host[owner[n]] = c THEN None ELSE owner[n]]
    /\ UNCHANGED suspect

Next ==
    \/ \E t \in Tasks : Acquire(t) \/ Release(t)
    \/ \E N \in SUBSET Nodes : Rob(N)
    \/ \E c \in Conductors : Suspect(c) \/ End(c)

Spec == Init /\ [][Next]_vars

=============================================================================

---------------------- MODULE NodeReservationRefinement ----------------------
(* The reservation column, seen as a lock with owners. *)
EXTENDS NodeReservation

\* An owner is a task that believes to hold its node and has not been robbed.
OwnersOf(n) == {t \in Tasks : NodeOf[t] = n /\ Exclusive(t) /\ t \notin evicted}

owner == [n \in Nodes |-> IF OwnersOf(n) = {} THEN None
                          ELSE CHOOSE t \in OwnersOf(n) : TRUE]

believers == {t \in Tasks : Exclusive(t)}

Lock == INSTANCE NodeLock WITH suspect <- lapsed

\* The tasks, hosts and periodic tasks of the code, with a column that holds
\* host names only, implement the lock with owners (reserve_node, release_node
\* and everything in conductor/ that calls them).
ImplementsNodeLock == Lock!Spec

=============================================================================

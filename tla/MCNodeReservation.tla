------------------------- MODULE MCNodeReservation -------------------------
(* Small instances of NodeReservation for TLC. *)
EXTENDS NodeReservationRefinement, TLC

CONSTANTS c1, c2, n1, n2, t1, t2, t3, port1

\* Two conductors that fight for one node, two threads each.
OneNodeHost == [t \in Tasks |-> IF t \in {t1, t2} THEN c1 ELSE c2]
OneNodeOf == [t \in Tasks |-> n1]

\* Two nodes: c1 works on both, c2 on the second one.
TwoNodeOf == [t \in Tasks |-> IF t = t1 THEN n1 ELSE n2]

\* The names as they are deployed by default: one per host, no wildcard in them.
PlainConfHost == [c \in Conductors |-> c]
PlainSelfHost == [c \in Conductors |-> c]
PlainILike == [x \in Names |-> {x}]

\* json-rpc on a port other than 8089: prepare_host renames c1 to "c1:<port>".
PortSelfHost == [c \in Conductors |-> IF c = c1 THEN port1 ELSE c]

\* The name of c1, read as an ILIKE pattern, also matches the name of c2
\* ("node_1" and "node-1", or two names that differ in case only).
WildcardILike == [x \in Names |-> IF x = c1 THEN {c1, c2} ELSE {x}]

\* The two threads of c1 can be exchanged.
ThreadSymmetry == Permutations({t1, t2})

=============================================================================

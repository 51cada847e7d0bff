------------------------------- MODULE Matching -------------------------------
(***************************************************************************)
(* What an allocation promises: a request is granted one free node or it   *)
(* fails, and the node stays with it until the allocation is released.     *)
(***************************************************************************)
CONSTANTS Allocs, Nodes, None

VARIABLES
    status,     \* [Allocs -> {"new", "requested", "granted", "failed", "gone"}]
    owner       \* the allocation each node is granted to, or None

Init ==
    /\ status = [a \in Allocs |-> "new"]
    /\ owner = [n \in Nodes |-> None]

Request(a) ==
    /\ status[a] = "new"
    /\ status' = [status EXCEPT ![a] = "requested"]
    /\ UNCHANGED owner

Grant(a, n) ==
    /\ status[a] = "requested"
    /\ owner[n] = None
    /\ status' = [status EXCEPT ![a] = "granted"]
    /\ owner' = [owner EXCEPT ![n] = a]

Fail(a) ==
    /\ status[a] = "requested"
    /\ status' = [status EXCEPT ![a] = "failed"]
    /\ UNCHANGED owner

Release(a) ==
    /\ status[a] \in {"requested", "granted", "failed"}
    /\ status' = [status EXCEPT ![a] = "gone"]
    /\ owner' = [n \in Nodes |-> IF owner[n] = a THEN None ELSE owner[n]]

Next ==
    \E a \in Allocs :
        \/ Request(a)
        \/ \E n \in Nodes : Grant(a, n)
        \/ Fail(a)
        \/ Release(a)

Spec == Init /\ [][Next]_<<status, owner>>

\* A granted allocation has exactly one node, and no node is of any other.
Matched ==
    /\ \A n \in Nodes : owner[n] # None => status[owner[n]] = "granted"
    /\ \A a \in Allocs : status[a] = "granted" =>
         \E n \in Nodes : owner[n] = a /\ \A m \in Nodes : owner[m] = a => m = n
=============================================================================

---------------------------- MODULE MCAllocations ----------------------------
(* Small instances of Allocations for TLC. *)
EXTENDS Allocations, TLC

\* Any node will do for any request.
AllSuitable == [a \in Allocs |-> Nodes]

Symmetry == Permutations(Conductors) \cup Permutations(Nodes) \cup Permutations(Allocs)
=============================================================================

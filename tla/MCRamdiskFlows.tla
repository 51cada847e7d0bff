---------------------------- MODULE MCRamdiskFlows ----------------------------
(* A small instance of RamdiskFlows for TLC; the constants have plain values. *)
EXTENDS RamdiskFlows
=============================================================================

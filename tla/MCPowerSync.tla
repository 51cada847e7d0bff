---------------------------- MODULE MCPowerSync -----------------------------
(* PowerSync for TLC; its constants need no definitions of their own. *)
EXTENDS PowerSync
=============================================================================

------------------------------ MODULE MCMcpPool ------------------------------
(* McpPool for TLC.  Servers are ordered by name, so nothing is symmetric.   *)
EXTENDS McpPool
=============================================================================

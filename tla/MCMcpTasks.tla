------------------------------- MODULE MCMcpTasks -------------------------------
(* Model checking of McpTasks. *)
EXTENDS McpTasks
================================================================================

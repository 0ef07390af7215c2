----------------------------- MODULE MCMcpProxy -----------------------------
(* The calls of the run use the same request id.                           *)
EXTENDS McpProxy

CONSTANT i1

MCId == [c \in Calls |-> i1]

=============================================================================

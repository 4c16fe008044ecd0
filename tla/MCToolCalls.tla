----------------------------- MODULE MCToolCalls -----------------------------
(* An agent with every tool, one that may only run commands and delegate,   *)
(* and one that insists on the tool of a server.                            *)
EXTENDS ToolCalls

MCListed == [all |-> {}, plain |-> {"exec", "delegate"}, picked |-> {"mcp"}]
=============================================================================

----------------------------- MODULE MCAgentTurn -----------------------------
(* Small instances of AgentTurn for TLC.                                    *)
EXTENDS AgentTurn

CONSTANTS c1, c2

TwoCalls == {c1, c2}

FileAndMcp == [c \in {c1, c2} |-> IF c = c1 THEN "file" ELSE "mcp"]

=============================================================================

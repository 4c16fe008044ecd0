------------------------------ MODULE MCGateway ------------------------------
(* Every message of at most two parts, and two of three that mix kinds.    *)
EXTENDS Gateway

MCMessages ==
  UNION {[1..n -> PartKinds] : n \in 0..2}
    \cup {<<"reasoning", "text", "tool_call">>,
          <<"redacted", "tool_call", "text">>}
=============================================================================

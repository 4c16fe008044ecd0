---------------------------- MODULE MCRequestCodec ----------------------------
(* Options that between them hold every value an option can have.           *)
EXTENDS RequestCodec

Opts(max, stream, stop, tools, choice, keys) ==
  [max |-> max, stream |-> stream, stop |-> stop, tools |-> tools,
   choice |-> choice, keys |-> keys]
Tool(name, strict) == [name |-> name, strict |-> strict]

MCOptions ==
  {Opts(1, TRUE, FALSE, {Tool("f", "true")}, "required", {"hint"}),
   Opts(0, FALSE, TRUE, {Tool("f", "unset"), Tool("g", "false")}, "tool", {}),
   Opts(1, FALSE, TRUE, {}, "auto", {}),
   Opts(-1, FALSE, FALSE, {}, "", {}),
   Opts(1, FALSE, FALSE, {Tool("bad", "unset")}, "none", {}),
   Opts(1, FALSE, FALSE, {}, "bad", {}),
   Opts(1, FALSE, FALSE, {}, "", {"unknown"})}
=============================================================================

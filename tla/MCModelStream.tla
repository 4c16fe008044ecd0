---------------------------- MODULE MCModelStream ----------------------------
(* Messages of at most three parts, with two calls where it matters.       *)
EXTENDS ModelStream

MCMessages ==
  {<<>>, <<"text">>, <<"thinking", "text">>, <<"tool_use">>,
   <<"tool_use", "tool_use">>, <<"text", "tool_use", "tool_use">>,
   <<"thinking", "tool_use", "text">>}
=============================================================================

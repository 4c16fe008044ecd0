----------------------------- MODULE RequestCodec -----------------------------
(***************************************************************************)
(* TranslateRequest of proxy/codec: a request in the protocol of one       *)
(* provider is decoded to a canonical request and encoded in the protocol  *)
(* of another; or it is refused, with diagnostics, before that provider is *)
(* called.                                                                 *)
(*                                                                         *)
(* A client composes a conversation and has it translated after any turn,  *)
(* as an agent does that sends the whole history each time.                *)
(*                                                                         *)
(* Data.  A text is a sequence of chunks, so that joining texts is \o and  *)
(* <<>> is the empty text.  A wire message is a role and a sequence of     *)
(* parts; the items of a Responses input that are not messages have the    *)
(* item's type for a role.  What a decoder cannot read at all (a wrong JSON*)
(* type, an unsupported type, a missing id) is a part of type "bad", a role*)
(* "unknown", a tool or a choice "bad", an option key "unknown".           *)
(***************************************************************************)
EXTENDS Canonical

CONSTANTS Options,   \* the options that clients give, for every protocol
          MaxParts   \* bound: the parts of a conversation

ToolSet == [name : STRING, strict : {"unset", "true", "false"}]
OptionSet ==
  [max : Int, stream : BOOLEAN, stop : BOOLEAN, tools : SUBSET ToolSet,
   choice : STRING, keys : SUBSET {"hint", "unknown"}]

ASSUME OptionsAssumption == Options \subseteq OptionSet
ASSUME MaxPartsAssumption == MaxParts \in Nat \ {0}

VARIABLES
  from,        \* the protocol of the client
  to,          \* the protocol of the provider
  body,        \* the client's request
  translated   \* what TranslateRequest has made of it

requestVars == <<from, to, body, translated>>

-----------------------------------------------------------------------------
(* Canonical requests.                                                     *)

RequestContent(type, id, text, error) ==
  [type |-> type, id |-> id, text |-> text, error |-> error]
Text(text) == RequestContent("text", 0, text, FALSE)
ToolCall(id, arguments) == RequestContent("tool_call", id, arguments, FALSE)
ToolResult(id, text, error) == RequestContent("tool_result", id, text, error)

Message(role, content) == [role |-> role, content |-> content]
IsSystem(role) == role \in {"system", "developer"}

ContentText(content) == TextOf(content, "text")

-----------------------------------------------------------------------------
(* Decoders.                                                               *)

\* The parts that a message of a role may hold, per protocol.
Reads ==
  [anthropic |-> [user |-> {"text", "tool_call", "tool_result"},
                  assistant |-> {"text", "tool_call", "tool_result"}],
   responses |-> [system |-> {"text"}, developer |-> {"text"},
                  user |-> {"text"}, assistant |-> {"text"},
                  function_call |-> {"tool_call"},
                  function_call_output |-> {"tool_result"}],
   chat |-> [system |-> {"text"}, developer |-> {"text"}, user |-> {"text"},
             assistant |-> {"text", "tool_call"},
             tool |-> {"tool_result", "result_parts"}]]

CanonicalRole(role) ==
  CASE role = "function_call" -> "assistant"
    [] role \in {"function_call_output", "tool"} -> "user"
    [] OTHER -> role

\* A tool's answer in chat is read as a string: one given in parts is empty.
ReadPart(part) ==
  IF part.type = "result_parts" THEN ToolResult(part.id, <<>>, FALSE) ELSE part

Severity(protocol, m, part) ==
  IF part.type \in Reads[protocol][m.role] THEN "none"
  ELSE IF protocol = "anthropic" /\ part.type = "thinking" THEN "warning"
  ELSE "error"

\* What a message is read as, if its role is known, and whether any of it calls
\* for refusing the request.
ReadMessage(protocol, m) ==
  LET read == Keep(m.parts, LAMBDA p : Severity(protocol, m, p) = "none")
  IN Message(CanonicalRole(m.role), MapSeq(ReadPart, read))
Unreadable(protocol, m) ==
  \/ m.role \notin DOMAIN Reads[protocol]
  \/ \E i \in DOMAIN m.parts : Severity(protocol, m, m.parts[i]) = "error"

\* baseRequest and the option fields: Anthropic wants a positive max_tokens,
\* Responses has no stop sequences.
FieldsRefused(protocol, o) ==
  \/ protocol = "anthropic" /\ o.max <= 0
  \/ protocol = "responses" /\ o.stop
  \/ "unknown" \in o.keys
ToolsRefused(tools) == \E t \in tools : t.name = "bad"
ChoiceRefused(choice) == choice = "bad"

\* BlockingDiagnostics of a decoder: warnings are not.
Refuses(protocol, b) ==
  \/ FieldsRefused(protocol, b.options)
  \/ ToolsRefused(b.options.tools) \/ ChoiceRefused(b.options.choice)
  \/ \E i \in DOMAIN b.messages : Unreadable(protocol, b.messages[i])

\* What is read of the options: a tool of Anthropic is not strict, nothing is
\* read of a hint.
ReadOptions(protocol, o) ==
  [o EXCEPT !.keys = {},
            !.tools = IF protocol = "anthropic"
                      THEN {[t EXCEPT !.strict = "unset"] : t \in @} ELSE @]

\* system and instructions come first.
ReadSystem(protocol, text) ==
  IF text = <<>> THEN <<>>
  ELSE <<Message(IF protocol = "anthropic" THEN "system" ELSE "developer",
                 <<Text(text)>>)>>

DecodeRequest(protocol, b) ==
  [messages |-> ReadSystem(protocol, b.system) \o
                  MapSeq(LAMBDA m : ReadMessage(protocol, m), b.messages),
   options |-> ReadOptions(protocol, b.options)]

-----------------------------------------------------------------------------
(* Encoders.                                                               *)

Body(system, messages, options) ==
  [system |-> system, messages |-> messages, options |-> options]
WireMessage(role, parts) == [role |-> role, parts |-> parts]

SystemText(messages) ==
  Join(FlatMap(LAMBDA m : IF IsSystem(m.role) THEN m.content ELSE <<>>,
               messages))
Turns(messages) == Keep(messages, LAMBDA m : ~IsSystem(m.role))

DefaultMaxTokens == 1024
Positive(max) == IF max > 0 THEN max ELSE 0

\* Mutant of AppendMessage: a message of the same role replaces the last one.
AppendReplaces(messages, m) ==
  LET last == Len(messages) IN
    IF m.content = <<>> THEN messages
    ELSE IF last > 0 /\ messages[last].role = m.role
         THEN [messages EXCEPT ![last].parts = m.content]
         ELSE Append(messages, WireMessage(m.role, m.content))

\* Anthropic's turns alternate: a message of the same role extends the last one,
\* one without content is left out.
AppendMessage(messages, m) ==
  LET last == Len(messages) IN
    IF m.content = <<>> THEN messages
    ELSE IF last > 0 /\ messages[last].role = m.role
         THEN [messages EXCEPT ![last].parts = @ \o m.content]
         ELSE Append(messages, WireMessage(m.role, m.content))

EncodeAnthropicRequest(request) ==
  LET o == request.options IN
    Body(SystemText(request.messages),
         FoldLeft(AppendMessage, <<>>, Turns(request.messages)),
         [o EXCEPT !.max = IF @ > 0 THEN @ ELSE DefaultMaxTokens,
                   !.tools = {[t EXCEPT !.strict = "unset"] : t \in @}])

\* A turn's calls and results become items of their own, before its texts.
Quiet(c) == [c EXCEPT !.error = FALSE]
Item(c) ==
  CASE c.type = "tool_call" -> <<WireMessage("function_call", <<c>>)>>
    [] c.type = "tool_result" ->
         <<WireMessage("function_call_output", <<Quiet(c)>>)>>
    [] OTHER -> <<>>
ResponsesItems(m) ==
  LET texts == OfType(m.content, "text") IN
    FlatMap(Item, m.content)
       \o (IF texts = <<>> THEN <<>> ELSE <<WireMessage(m.role, texts)>>)

EncodeResponsesRequest(request) ==
  Body(SystemText(request.messages),
       FlatMap(ResponsesItems, Turns(request.messages)),
       [request.options EXCEPT !.max = Positive(@), !.stop = FALSE])

\* Results become messages of their own, before the rest of their turn, whose
\* texts are joined.
ChatMessages(m) ==
  LET text == ContentText(m.content)
      calls == OfType(m.content, "tool_call")
      results == OfType(m.content, "tool_result")
      role == IF m.role = "developer" THEN "system" ELSE m.role
      content == IF text = <<>> /\ calls # <<>> THEN <<>> ELSE <<Text(text)>>
  IN MapSeq(LAMBDA c : WireMessage("tool", <<Quiet(c)>>), results)
       \o (IF text # <<>> \/ calls # <<>> \/ m.content = <<>>
           THEN <<WireMessage(role, content \o calls)>> ELSE <<>>)

\* A stream is asked to report its usage, which is a hint to a decoder.
EncodeChatRequest(request) ==
  Body(<<>>, FlatMap(ChatMessages, request.messages),
       [request.options EXCEPT
          !.max = Positive(@),
          !.keys = IF request.options.stream THEN {"hint"} ELSE {}])

EncodeRequest(protocol, request) ==
  CASE protocol = "responses" -> EncodeResponsesRequest(request)
    [] protocol = "anthropic" -> EncodeAnthropicRequest(request)
    [] protocol = "chat" -> EncodeChatRequest(request)

\* Mutant: a system message is to have one part.
EncodeRefusesSeveral(protocol, request) ==
  /\ protocol = "anthropic"
  /\ \E i \in DOMAIN request.messages :
       LET m == request.messages[i] IN
         IsSystem(m.role) /\ Len(m.content) # 1

\* The diagnostics of an encoder: only Anthropic's has one, for content of a
\* system message that is not text.
EncodeRefuses(protocol, request) ==
  /\ protocol = "anthropic"
  /\ \E i \in DOMAIN request.messages :
       LET m == request.messages[i] IN
         IsSystem(m.role) /\ OfType(m.content, "text") # m.content

\* requestForHooks: the OnRequest and OnResponse hooks are shown a request as
\* chat messages, whatever its protocol, without the choice of a tool.
ForHooks(request) ==
  Body(<<>>, FlatMap(ChatMessages, request.messages),
       [request.options EXCEPT !.choice = "",
          !.tools = {[t EXCEPT !.strict = "unset"] : t \in @}])

-----------------------------------------------------------------------------

NotYet == [status |-> "no"]
Refused == [status |-> "refused"]
Sent(request, wire) ==
  [status |-> "sent", request |-> request, wire |-> wire]

RequestInit ==
  /\ from \in Protocols
  /\ to \in Protocols \ {from}
  /\ body \in {Body(system, <<>>, o) : o \in Options,
                 system \in IF from = "chat" THEN {<<>>} ELSE {<<>>, <<0>>}}
  /\ translated = NotYet

\* What a client of a protocol may add.  The k-th part of a conversation has the
\* text or the arguments <<k>>, or an empty text; a result answers a call.
PartsSaid == Len(FlatMap(LAMBDA m : m.parts, body.messages))
Texts == {Text(<<PartsSaid + 1>>), Text(<<>>)}
Calls == {ToolCall(PartsSaid + 1, <<PartsSaid + 1>>)}
Asked == {c.id : c \in {p \in UNION {ToSet(body.messages[i].parts) :
                                       i \in DOMAIN body.messages} :
                          p.type = "tool_call"}}
Results(errors) ==
  {ToolResult(id, <<PartsSaid + 1>>, e) : id \in Asked, e \in errors}
Other(type) == {RequestContent(type, 0, <<PartsSaid + 1>>, FALSE)}
InParts == {[r EXCEPT !.type = "result_parts"] : r \in Results({FALSE})}

Utterances ==
  CASE from = "anthropic" ->
         [user |-> Texts \cup Results(BOOLEAN) \cup Other("bad"),
          assistant |-> Texts \cup Calls \cup Other("thinking")]
    [] from = "responses" ->
         [developer |-> Texts, user |-> Texts \cup Other("bad"),
          assistant |-> Texts, function_call |-> Calls,
          function_call_output |-> Results({FALSE}),
          reasoning |-> Other("thinking")]
    [] from = "chat" ->
         [system |-> Texts, user |-> Texts \cup Other("bad"),
          assistant |-> Texts \cup Calls,
          tool |-> Results({FALSE}) \cup InParts, unknown |-> Texts]

\* A message of these roles holds one part.
Single == {"function_call", "function_call_output", "reasoning", "tool"}

\* The client adds a part, in a message of its own or to its last message.
Compose(role, part) ==
  /\ PartsSaid < MaxParts
  /\ translated # Refused
  /\ LET last == Len(body.messages) IN
       \/ body' = [body EXCEPT !.messages =
                             Append(@, WireMessage(role, <<part>>))]
       \/ /\ last > 0 /\ body.messages[last].role = role /\ role \notin Single
          /\ body' = [body EXCEPT !.messages[last].parts = Append(@, part)]
  /\ translated' = NotYet
  /\ UNCHANGED <<from, to>>

TranslateRequest ==
  /\ translated = NotYet
  /\ LET request == DecodeRequest(from, body) IN
       translated' =
         IF Refuses(from, body) \/ EncodeRefuses(to, request) THEN Refused
         ELSE Sent(request, EncodeRequest(to, request))
  /\ UNCHANGED <<from, to, body>>

RequestNext ==
  \/ \E role \in DOMAIN Utterances :
       \E part \in Utterances[role] : Compose(role, part)
  \/ TranslateRequest

RequestSpec == RequestInit /\ [][RequestNext]_requestVars

-----------------------------------------------------------------------------
(* Properties.                                                             *)

\* What a request says in every protocol: the text of the system, and the turns
\* of the user and of the assistant, each with its text, its calls and its
\* results, each of the three in order.  Only Anthropic's protocol can say that
\* a result is an error, and not every protocol can say where among the texts
\* of its turn a call was made.
Turn(role, c) ==
  [role |-> role,
   text |-> IF c.type = "text" THEN c.text ELSE <<>>,
   calls |-> IF c.type = "tool_call" THEN <<c>> ELSE <<>>,
   results |-> IF c.type = "tool_result" THEN <<Quiet(c)>> ELSE <<>>]
Extend(t, u) ==
  [t EXCEPT !.text = @ \o u.text, !.calls = @ \o u.calls,
            !.results = @ \o u.results]
AddTurn(turns, t) ==
  IF turns # <<>> /\ Last(turns).role = t.role
  THEN Append(Front(turns), Extend(Last(turns), t))
  ELSE Append(turns, t)

TurnsIn(m) ==
  FlatMap(LAMBDA c : IF c.type = "text" /\ c.text = <<>> THEN <<>>
                     ELSE <<Turn(m.role, c)>>, m.content)
Transcript(messages) ==
  [system |-> SystemText(messages),
   turns |-> FoldLeft(AddTurn, <<>>, FlatMap(TurnsIn, Turns(messages)))]

Unset(tools) == {[t EXCEPT !.strict = "unset"] : t \in tools}

\* Anthropic wants turns that alternate, none of them empty.
Alternate(messages) ==
  \A i \in DOMAIN messages :
    /\ messages[i].parts # <<>>
    /\ i > 1 => messages[i].role # messages[i - 1].role

\* What the provider is sent is a request of its protocol, and read as such it
\* holds the conversation that the client's request was read as: every text,
\* call and result, once, in its turn, with the system's instructions; and the
\* choice of a tool, the tools, the stream and the limit, Anthropic's protocol
\* adding a limit where there is none.  Three things are not claimed: is_error,
\* which is always dropped, since the client's protocol has it only if the
\* provider's has not; stop sequences, where the provider's protocol is
\* Responses; and the place of a call among the texts of its turn
\* (proxy/codec/request.go:663-749).  What the hooks are shown, as a chat
\* request, is that conversation too.
RequestCarried ==
  translated.status = "sent" =>
    LET again == DecodeRequest(to, translated.wire)
        was == translated.request
        shown == DecodeRequest("chat", ForHooks(was))
    IN /\ Transcript(shown.messages) = Transcript(was.messages)
       /\ ~Refuses(to, translated.wire)
       /\ to = "anthropic" => Alternate(translated.wire.messages)
       /\ Transcript(again.messages) = Transcript(was.messages)
       /\ again.options.choice = was.options.choice
       /\ again.options.stream = was.options.stream
       /\ Unset(again.options.tools) = Unset(was.options.tools)
       /\ again.options.max =
            IF was.options.max > 0 THEN was.options.max
            ELSE IF to = "anthropic" THEN DefaultMaxTokens ELSE 0
       /\ to # "responses" => again.options.stop = was.options.stop

\* "Portable": "tool results, and error results", "stop sequences"
\* (docs/PROXY_ARCHITECTURE.md:143-151): what is sent says which results are
\* errors, and whether there are stop sequences, as the client's request did.
PortableIsCarried ==
  translated.status = "sent" =>
    LET again == DecodeRequest(to, translated.wire)
        was == translated.request
        Errors(messages) ==
          {c.id : c \in {p \in UNION {ToSet(messages[i].content) :
                                      i \in DOMAIN messages} : p.error}}
    IN /\ Errors(again.messages) = Errors(was.messages)
       /\ again.options.stop = was.options.stop

\* A request is refused for what its client has put in it, and then whatever the
\* provider: an encoder has nothing left to refuse.
RefusalIsTheClients ==
  translated.status # "no" =>
    (translated.status = "refused" <=> Refuses(from, body))

=============================================================================

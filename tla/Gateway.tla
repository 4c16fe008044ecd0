------------------------------- MODULE Gateway -------------------------------
(***************************************************************************)
(* One request through the proxy's protocol handlers: ChatCompletions,     *)
(* Responses and Messages, forwardNative and forwardTranslated             *)
(* (proxy/protocols), with the conversions of StreamCodec.                 *)
(*                                                                         *)
(* A request arrives in the protocol of its endpoint and goes to a provider*)
(* that speaks the same protocol, whose bytes are copied, or another one.  *)
(* The client wants a stream or a document, the provider gives one or the  *)
(* other, so a translated answer is relayed event by event, collected,     *)
(* rendered as a stream, or converted whole.  The provider may refuse, its *)
(* stream may be cut or report an error, the client may go away.           *)
(*                                                                         *)
(* The SSE reader, the decoder and the encoder run in the handler's one    *)
(* goroutine: an event is read, decoded, encoded and written in one step.  *)
(***************************************************************************)
EXTENDS StreamCodec

CONSTANT Messages    \* the answers a provider may give: sequences of part kinds

PartKinds == ContentTypes \cup {"redacted"}

ASSUME MessagesAssumption == Messages \subseteq Seq(PartKinds)

VARIABLES
  req,      \* the request, and the answer it will get
  handler,  \* the handler: received, calling, relaying, reading, done
  gives,    \* what the provider's answer is: "stream", "document"
  todo,     \* what the provider has still to send, stage by stage
  dec,      \* the state of the stream decoder
  col,      \* the response as it has been collected
  out,      \* the events, or the document, written to the client
  status,   \* the status lines written to the client
  calls,    \* the requests sent to the provider
  hook,     \* what OnResponse has been called with
  outcome   \* how the handler ended: "", "answered", "cut", "failed", "refused"

gatewayVars ==
  <<req, handler, gives, todo, dec, col, out, status, calls, hook, outcome>>

-----------------------------------------------------------------------------
(* What the provider says.  Part i of a message is block, item or call i;  *)
(* its chunks are <<i, 1>>, <<i, 2>>, ...                                  *)

\* The provider may give no arguments to its tool calls: r.bare.
Length(r, kind) == IF kind = "tool_call" /\ r.bare THEN 0 ELSE Chunks
PartContent(kind, i, n) ==
  Content(kind, IF kind = "tool_call" THEN i ELSE -1,
          [k \in 1..n |-> <<i, k>>])

Whole(r) ==
  FlattenSeq([i \in DOMAIN r.message |->
    IF r.message[i] = "redacted" THEN <<>>
    ELSE <<PartContent(r.message[i], i, Length(r, r.message[i]))>>])

Says(message, kind) == \E i \in DOMAIN message : message[i] = kind
RealUsage == Usage(1, 1)

\* Why a provider may say that it stopped, as its decoder reads it.  A Responses
\* provider does not name tool calls; it may have failed or been cancelled.
StopsSaid(protocol) ==
  CASE protocol = "anthropic" -> {"stop", "length", "tool_use"}
    [] protocol = "chat" -> {"stop", "length", "tool_use", "content_filter"}
    [] protocol = "responses" -> {"stop", "length", "error", "cancelled"}

\* Only Anthropic redacts; a chat message has one text and one reasoning; a
\* Responses provider may send text whose content part it has not announced.
CanSay(r) ==
  /\ r.from # "anthropic" => ~Says(r.message, "redacted")
  /\ r.from = "chat" =>
       \A kind \in {"text", "reasoning"} :
         Cardinality({i \in DOMAIN r.message : r.message[i] = kind}) <= 1
  /\ r.stop \in StopsSaid(r.from)
  /\ r.bare \/ r.stop = "tool_use" => Says(r.message, "tool_call")
  /\ ~r.announced => r.from = "responses" /\ Says(r.message, "text")

\* A stream has no way to say that the response was cancelled; that it failed is
\* an error of the stream.  The content of a document needs no announcement, and
\* the input of an Anthropic call is an object.
CanGive(r, answer) ==
  IF answer = "stream" THEN r.stop \notin {"error", "cancelled"}
  ELSE r.announced /\ (r.bare => r.from # "anthropic")

Deltas(type, kind, i, n) ==
  [k \in 1..n |-> Wire(type, i, kind, -1, <<<<i, k>>>>)]

PartScript(protocol, kind, i, n) ==
  LET event(type) == Wire(type, i, kind, i, <<>>) IN
  CASE protocol = "anthropic" ->
         <<event("content_block_start")>>
           \o (IF kind = "redacted" THEN <<>>
               ELSE Deltas("content_block_delta", kind, i, n))
           \o <<event("content_block_stop")>>
    [] protocol = "responses" ->
         (IF kind = "text" THEN <<event("content_part.added")>>
          ELSE <<event("output_item.added")>>)
           \o Deltas(DeltaType[kind], kind, i, n)
           \o (IF kind = "text" THEN <<event("content_part.done")>>
               ELSE <<event("output_item.done")>>)
    [] protocol = "chat" ->
         (IF kind = "tool_call" THEN <<Chunk(kind, i, i, <<>>)>> ELSE <<>>)
           \o Deltas("chunk", kind, i, n)

Opening(protocol) ==
  CASE protocol = "anthropic" -> <<Closing("message_start", "", Usage(1, 0))>>
    [] protocol = "responses" -> <<Closing("response.created", "", NoUsage)>>
    [] protocol = "chat" -> <<Chunk("role", -1, -1, <<>>)>>

Ending(protocol, stop) ==
  CASE protocol = "anthropic" ->
         <<Closing("message_delta", stop, Usage(0, 1)),
           Closing("message_stop", "", NoUsage)>>
    [] protocol = "responses" ->
         <<Closing(IF stop = "length" THEN "response.incomplete"
                   ELSE "response.completed", stop, RealUsage)>>
    [] protocol = "chat" ->
         <<ClosingChunk("finish", stop, NoUsage),
           ClosingChunk("usage", "", RealUsage), [type |-> "[DONE]"]>>

\* Stage 0 opens the stream, stage i is part i, the last one ends the stream.
FinalStage(r) == Len(r.message) + 1
Script(r) ==
  [i \in 0..FinalStage(r) |->
     IF i = 0 THEN Opening(r.from)
     ELSE IF i = FinalStage(r) THEN Ending(r.from, r.stop)
     ELSE IF r.message[i] = "text" /\ ~r.announced
          THEN Deltas("output_text.delta", "text", i, Chunks)
     ELSE PartScript(r.from, r.message[i], i, Length(r, r.message[i]))]

\* A chat provider may mix the chunks of a message's parts, the others send one
\* block or item after the other.
Ready(i) ==
  /\ todo[i] # <<>>
  /\ \A j \in 0..(i - 1) :
       todo[j] # <<>> => req.from = "chat" /\ j > 0 /\ i < FinalStage(req)

AllSent == \A i \in DOMAIN todo : todo[i] = <<>>

WholeDocument ==
  Document(DocumentContent(req.from, Whole(req)), req.stop, RealUsage)

-----------------------------------------------------------------------------
Native == req.from = req.to
Relays == gives = "stream" /\ (Native \/ req.stream)

Exchanges ==
  {r \in [from : Protocols, to : Protocols, stream : BOOLEAN,
          message : Messages, stop : UNION {StopsSaid(p) : p \in Protocols},
          bare : BOOLEAN, announced : BOOLEAN] : CanSay(r)}

GatewayInit ==
  /\ req \in Exchanges
  /\ handler = "received"
  /\ gives = ""
  /\ todo = <<>>
  /\ dec = Decoder
  /\ col = Collector
  /\ out = <<>>
  /\ status = <<>>
  /\ calls = 0
  /\ hook = <<>>
  /\ outcome = ""

\* canonicalResponseToChat: the OnResponse hook is shown every answer as a chat
\* message, with one text and one reasoning.
ChatOutput(response) == EncodeResponse("chat", response)

Answered(output) == [error |-> FALSE, response |-> output]
Failed == [error |-> TRUE, response |-> Collector]
\* What has been copied was too long to be kept (limitedBuffer).
Unseen == [error |-> FALSE, response |-> Collector]

WriteStatus(s) == status' = Append(status, s)
Return(how) == handler' = "done" /\ outcome' = how
\* Env.end, the last call of a handler that has got as far as a provider.
End(how, result) == Return(how) /\ hook' = Append(hook, result)

\* The method, the body, the OnRequest hook or the model is not accepted: the
\* handler answers and returns before the end hook is reached.
Refuse ==
  /\ handler = "received"
  /\ \E s \in {400, 403, 405} : WriteStatus(s)
  /\ Return("refused")
  /\ UNCHANGED <<req, gives, todo, dec, col, out, calls, hook>>

\* A request with data that the provider's protocol cannot express is refused
\* before the provider is called.
RejectRequest ==
  /\ handler = "received"
  /\ ~Native
  /\ WriteStatus(400)
  /\ End("failed", Failed)
  /\ UNCHANGED <<req, gives, todo, dec, col, out, calls>>

\* The provider's base URL, its credentials or the source's preparation of the
\* body fail (newRequest), before the call.
RequestNotBuilt ==
  /\ handler = "received"
  /\ WriteStatus(502)
  /\ End("failed", Failed)
  /\ UNCHANGED <<req, gives, todo, dec, col, out, calls>>

CallUpstream ==
  /\ handler = "received"
  /\ handler' = "calling"
  /\ calls' = calls + 1
  /\ UNCHANGED <<req, gives, todo, dec, col, out, status, hook, outcome>>

\* Mutant: the error return does not reach the end hook.
CallFailsUnhooked ==
  /\ handler = "calling"
  /\ \E s \in {429, 502} : WriteStatus(s)
  /\ Return("failed")
  /\ UNCHANGED <<req, gives, todo, dec, col, out, calls, hook>>

\* The call fails (502), or the provider answers with an error: its status is
\* passed on, its body copied or put in the client's error envelope.
CallFails ==
  /\ handler = "calling"
  /\ \E s \in {429, 502} : WriteStatus(s)
  /\ End("failed", Failed)
  /\ UNCHANGED <<req, gives, todo, dec, col, out, calls>>

\* The status is written at once when the body is copied and when a stream is
\* made from a stream (newSSEWriter).
UpstreamAnswers ==
  /\ handler = "calling"
  /\ \E g \in {"stream", "document"} :
       /\ CanGive(req, g)
       /\ gives' = g
       /\ handler' = IF g = "stream" THEN "relaying" ELSE "reading"
       /\ todo' = IF g = "stream" THEN Script(req) ELSE <<>>
       /\ IF Native \/ (g = "stream" /\ req.stream) THEN WriteStatus(200)
          ELSE UNCHANGED status
  /\ UNCHANGED <<req, dec, col, out, calls, hook, outcome>>

\* What the handler does with the canonical events of a step, and with the
\* event itself when it copies.
Emit(events, copied) ==
  LET r == EncodeAll(req.to, col, events) IN
    /\ col' = r.c
    /\ out' = IF Native THEN out \o copied
              ELSE IF Relays THEN out \o r.out ELSE out

RelayEvent(i) ==
  /\ handler = "relaying"
  /\ Ready(i)
  /\ LET e == Head(todo[i]) IN
       \E r \in Decode(req.from, dec, e) :
         /\ dec' = r.d
         /\ Emit(r.events, <<e>>)
  /\ todo' = [todo EXCEPT ![i] = Tail(@)]
  /\ UNCHANGED <<req, handler, gives, status, calls, hook, outcome>>

\* A copied answer is observed as what the request asked for.  A stream that was
\* not asked for is parsed as a document, which fails; a document that was got
\* for a stream is read as a stream without events.  Of a document, all of a
\* chat or Messages answer is kept, of a Responses answer what the codec reads.
ObserveStream ==
  IF Native /\ ~req.stream THEN {Failed, Unseen}
  ELSE {Answered(ChatOutput(col'))} \cup IF Native THEN {Unseen} ELSE {}

ObserveDocument(doc) ==
  CASE req.stream ->
         Answered(ChatOutput(ApplyAll(Collector, <<Done("stop", NoUsage)>>)))
    [] ~req.stream /\ req.from = "responses" ->
         Answered(ChatOutput(DecodeResponse("responses", doc)))
    [] OTHER -> Answered(ChatOutput(doc))

\* The connection ends, after the last event or before it: the decoder finishes
\* what is open, and a collected response is written whole.
EndOfStream ==
  /\ handler = "relaying"
  /\ \E r \in Finish(req.from, dec) :
       LET c == ApplyAll(col, r.events) IN
         /\ dec' = r.d
         /\ IF Relays THEN Emit(r.events, <<>>) /\ UNCHANGED status
            ELSE /\ col' = c
                 /\ out' = <<EncodeResponse(req.to, c)>>
                 /\ WriteStatus(200)
  /\ \E seen \in ObserveStream :
       End(IF AllSent THEN "answered" ELSE "cut", seen)
  /\ UNCHANGED <<req, gives, todo, calls>>

\* The provider reports an error in its stream, or the connection breaks.  A
\* client that is being streamed to only sees its stream end.
StreamFails ==
  /\ handler = "relaying"
  /\ ~AllSent
  /\ IF Relays THEN UNCHANGED status ELSE WriteStatus(502)
  /\ End("failed", Failed)
  /\ UNCHANGED <<req, gives, todo, dec, col, out, calls>>

ClientGone ==
  /\ handler = "relaying"
  /\ Relays
  /\ End("failed", Failed)
  /\ UNCHANGED <<req, gives, todo, dec, col, out, status, calls>>

-----------------------------------------------------------------------------
(* A provider's document.                                                  *)

\* It cannot be read, is no JSON, or holds what cannot be translated; a copied
\* one has been written when it turns out not to be JSON.
DocumentFails ==
  /\ handler = "reading"
  /\ IF Native THEN UNCHANGED status ELSE WriteStatus(502)
  /\ End("failed", Failed)
  /\ UNCHANGED <<req, gives, todo, dec, col, out, calls>>

CopyDocument ==
  /\ handler = "reading"
  /\ Native
  /\ out' = <<WholeDocument>>
  /\ \E seen \in {ObserveDocument(WholeDocument), Unseen} :
       End("answered", seen)
  /\ UNCHANGED <<req, gives, todo, dec, col, status, calls>>

TranslateDocument ==
  /\ handler = "reading"
  /\ ~Native /\ ~Blocked(req.from, WholeDocument)
  /\ LET read == DecodeResponse(req.from, WholeDocument) IN
       /\ out' = IF req.stream THEN Render(req.to, read)
                 ELSE <<EncodeResponse(req.to, read)>>
       /\ End("answered", Answered(ChatOutput(read)))
  /\ WriteStatus(200)
  /\ UNCHANGED <<req, gives, todo, dec, col, calls>>

\* The client leaves while a document is rendered for it as a stream.
RenderBroken ==
  /\ handler = "reading"
  /\ ~Native /\ ~Blocked(req.from, WholeDocument) /\ req.stream
  /\ LET rendered == Render(req.to, DecodeResponse(req.from, WholeDocument)) IN
       \E n \in 0..(Len(rendered) - 1) : out' = SubSeq(rendered, 1, n)
  /\ WriteStatus(200)
  /\ End("failed", Failed)
  /\ UNCHANGED <<req, gives, todo, dec, col, calls>>

GatewayNext ==
  \/ Refuse \/ RejectRequest \/ RequestNotBuilt
  \/ CallUpstream \/ CallFails \/ UpstreamAnswers
  \/ \E i \in DOMAIN todo : RelayEvent(i)
  \/ EndOfStream \/ StreamFails \/ ClientGone
  \/ DocumentFails \/ CopyDocument \/ TranslateDocument \/ RenderBroken

GatewaySpec == GatewayInit /\ [][GatewayNext]_gatewayVars

-----------------------------------------------------------------------------
(* Properties.                                                             *)

\* What the client has been sent is a stream of events; otherwise a document.
IsStream == Relays \/ (gives = "document" /\ ~Native /\ req.stream)

ClientReadings ==
  IF IsStream THEN CollectStream(req.to, out)
  ELSE {DecodeResponse(req.to, out[k]) : k \in DOMAIN out}

CallsIn(content) == OfType(content, "tool_call")

\* Why the provider stopped, as far as a reader of the protocol is told.  What
\* was cut short is never taken for complete.  A content filter is told in the
\* chat protocol only, a failed or cancelled response in none but its own: they
\* read as an ordinary end.  A Responses answer that holds tool calls stopped
\* for them.
ToldStop(protocol) ==
  CASE \/ req.stop \in {"length", "tool_use"}
       \/ req.stop = "content_filter" /\ protocol = "chat"
       \/ req.stop \in {"error", "cancelled"} /\ protocol = req.from -> req.stop
    [] /\ Says(req.message, "tool_call")
       /\ \/ protocol = "responses"
          \/ req.from = "responses" /\ req.stop = "stop" -> "tool_use"
    [] OTHER -> "stop"

\* Each call once, with its id and its whole arguments, or null for none.
Heard(content) ==
  {[call EXCEPT !.text = ParseArguments(@)] : call \in ToSet(CallsIn(content))}

\* A response, as a reader of the protocol has it, says what the provider's
\* message says, as far as its texts and its calls come through.
Matches(response, protocol, textRead, callsRead) ==
  LET whole == Whole(req) IN
    /\ textRead => TextOf(response.content, "text") = TextOf(whole, "text")
    /\ callsRead =>
         /\ ToSet(CallsIn(response.content)) = Heard(whole)
         /\ Len(CallsIn(response.content)) = Len(CallsIn(whole))
         /\ response.stop = ToldStop(protocol)

\* The decoders do not read the reasoning of a Responses stream or of a chat
\* document.
ReasoningRead ==
  IF gives = "stream" THEN req.from # "responses"
  ELSE Native \/ req.from # "chat"

\* Whatever the two protocols, whether the answer is relayed, collected,
\* rendered or converted, in whatever order a provider interleaves its calls: of
\* a complete answer the client, and the OnResponse hook, get all the text and
\* the calls, and why it stopped as far as ToldStop goes.  The code does not do
\* so for a text without a content part (stream.go:207: it is relayed, to a chat
\* client whole, but never collected), nor for a call without arguments in a
\* document (stream.go:575, response.go:131: null, or none).  The hook cannot
\* see a copied answer that is too long or not of the kind asked for.  The
\* reasoning of an answer is part of it where the provider's decoder reads it,
\* and for a stream's client where its protocol can say it.
FaithfulDelivery ==
  outcome = "answered" =>
    LET reasoning == TextOf(Whole(req), "reasoning")
        seen == hook[1].response
    IN
      /\ ClientReadings # {}
      /\ \A r \in ClientReadings :
           Matches(r, req.to, req.announced \/ (IsStream /\ req.to = "chat"),
                   req.bare => IsStream \/ (~Native /\ req.to # "anthropic"))
      /\ (Native => hook[1] # Unseen /\ req.stream = (gives = "stream")) =>
           /\ Matches(seen, "chat", req.announced,
                      req.bare => gives = "stream")
           /\ ReasoningRead => TextOf(seen.content, "reasoning") = reasoning
      /\ IsStream /\ gives = "stream" /\ "responses" \notin {req.from, req.to}
           => \A r \in ClientReadings :
                TextOf(r.content, "reasoning") = reasoning

\* At any moment, and after a cut, an error or a lost client too: the text the
\* client can read is the beginning of the provider's, and a tool call is one of
\* the provider's with all its arguments or none.  (Of Anthropic blocks that
\* were not announced a reader does not know the order.)  Why a cut answer
\* stopped is not part of it: the decoders say that it stopped by itself
\* (stream.go:235, 399).
NothingInvented ==
  \A r \in ClientReadings :
    LET whole == Whole(req) IN
      /\ req.announced \/ req.to # "anthropic" =>
           IsPrefix(TextOf(r.content, "text"), TextOf(whole, "text"))
      /\ \A c \in ToSet(CallsIn(r.content)) :
           \E w \in ToSet(CallsIn(whole)) :
             c = w \/ c = [w EXCEPT !.text = NilArguments]

\* The events that open, extend and close a block of a stream, and those that
\* open and close the stream.
Opens(e) ==
  \/ e.type \in {"content_block_start", "output_item.added"}
  \/ e.type = "chunk" /\ e.kind = "tool_call" /\ e.id # -1
Extends(e) ==
  \/ e.type \in {"content_block_delta"} \cup {DeltaType[c] : c \in ContentTypes}
  \/ e.type = "chunk" /\ e.kind = "tool_call" /\ e.id = -1
Closes(e) == e.type \in {"content_block_stop", "output_item.done"}
Begins(e) == e.type \in {"message_start", "response.created"}
               \/ (e.type = "chunk" /\ e.kind = "role")
Ends(e) == e.type \in {"message_stop", "response.completed", "[DONE]"}

IsOpen(k, index) ==
  \E j \in 1..(k - 1) :
    /\ Opens(out[j]) /\ out[j].index = index
    /\ \A l \in (j + 1)..(k - 1) : ~(Closes(out[l]) /\ out[l].index = index)

\* A stream made for a client is well formed at every moment: it begins with its
\* opening event (unless the provider's stream ends before it has begun), every
\* block is opened once and only then extended or closed, nothing follows its
\* last event; and a complete one is ended, with every block closed.  That needs
\* a provider that announces its content parts, as the protocol has it.
StreamIsWellFormed ==
  (IsStream /\ ~Native /\ req.announced) =>
    /\ \A k \in DOMAIN out :
         /\ Begins(out[k]) => k = 1
         /\ k = 1 /\ (gives = "stream" => dec.started) => Begins(out[1])
         /\ Opens(out[k]) =>
              \A j \in 1..(k - 1) :
                Opens(out[j]) => out[j].index # out[k].index
         /\ (Extends(out[k]) \/ Closes(out[k])) => IsOpen(k, out[k].index)
         /\ Ends(out[k]) => k = Len(out)
    /\ outcome = "answered" =>
         /\ Ends(out[Len(out)])
         /\ req.to # "chat" =>
              \A k \in DOMAIN out :
                Opens(out[k]) => ~IsOpen(Len(out) + 1, out[k].index)

\* The handler answers once: one status line, the provider called at most once
\* and never for a request it rejects, the end hook called once for every call.
AnsweredOnce ==
  /\ Len(status) <= 1 /\ Len(hook) <= 1 /\ calls <= 1
  /\ handler = "done" =>
       /\ Len(status) = 1
       /\ calls = 1 => hook # <<>>
       /\ status[1] = 400 => calls = 0
=============================================================================

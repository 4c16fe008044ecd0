----------------------------- MODULE StreamCodec -----------------------------
(***************************************************************************)
(* The conversions of proxy/codec between the streaming protocols of three *)
(* providers, as operators.                                                *)
(*                                                                         *)
(* A decoder turns the events of one protocol into canonical events (Start,*)
(* ContentStart, ContentDelta, ContentStop, Done); the collector assembles *)
(* canonical events into a response; an encoder turns canonical events into*)
(* the events of another protocol, and collects them too.  The decoders    *)
(* keep state from event to event; two of them range over a Go map when    *)
(* the stream ends, so that Decode and Finish yield the set of possible    *)
(* results.                                                                *)
(*                                                                         *)
(* Data.  A text, or the JSON text of a tool call's arguments, is a        *)
(* sequence of chunks; the JSON of a call is whole when all its Chunks are *)
(* there.  A wire event is a record that holds what the decoders read.     *)
(***************************************************************************)
EXTENDS Canonical, FiniteSets

CONSTANT Chunks    \* chunks of a text, of the arguments of a tool call

ASSUME ChunksAssumption == Chunks \in Nat \ {0}

ContentTypes == {"text", "tool_call", "reasoning"}

-----------------------------------------------------------------------------
(* Canonical data.                                                         *)

NoUsage == [known |-> FALSE, input |-> 0, output |-> 0]
Usage(input, output) == [known |-> TRUE, input |-> input, output |-> output]

\* Contents and the blocks they are assembled in: the text of a tool call is
\* the text of its arguments.
Content(type, id, text) == [type |-> type, id |-> id, text |-> text]

Start(usage) == [type |-> "start", usage |-> usage]
ContentStart(index, type, id) ==
  [type |-> "content_start", index |-> index,
   content |-> Content(type, id, <<>>)]
ContentDelta(index, type, text) ==
  [type |-> "content_delta", index |-> index,
   content |-> Content(type, -1, text)]
ContentStop(index) == [type |-> "content_stop", index |-> index]
Done(stop, usage) == [type |-> "done", stop |-> stop, usage |-> usage]

\* Arguments whose JSON does not parse are nil: parseArguments' second result
\* is dropped.
NilArguments == <<"nil">>

\* Mutant: what has arrived of the arguments is taken for the whole.
ParseArgumentsLeniently(text) == text

ParseArguments(text) == IF Len(text) = Chunks THEN text ELSE NilArguments

-----------------------------------------------------------------------------
(* Wire events.  The index is the number of the block, the output item (an *)
(* item's id is made from it) or the tool call that the event is about; id *)
(* is the id of a tool call, which its first event carries.                *)

Wire(type, index, kind, id, text) ==
  [type |-> type, index |-> index, kind |-> kind, id |-> id, text |-> text]
Closing(type, stop, usage) == [type |-> type, stop |-> stop, usage |-> usage]

-----------------------------------------------------------------------------
(* Decoders.  One record serves the three: blocks maps the keys of a       *)
(* protocol's blocks to indexes, and only the fields a decoder has change. *)

Decoder == [started |-> FALSE, done |-> FALSE, blocks |-> <<>>, open |-> {},
            hadTool |-> FALSE, stop |-> "", usage |-> NoUsage]

\* The keys of the blocks, in the order of their allocation: the index of a
\* key is its position, from 0.
IndexOf(d, key) ==
  IF \E i \in DOMAIN d.blocks : d.blocks[i] = key
  THEN (CHOOSE i \in DOMAIN d.blocks : d.blocks[i] = key) - 1
  ELSE Len(d.blocks)
Allocate(d, key) ==
  IF IndexOf(d, key) < Len(d.blocks) THEN d
  ELSE [d EXCEPT !.blocks = Append(@, key)]

DefaultStopReason(stop) == IF stop = "" THEN "stop" ELSE stop

Result(d, events) == [d |-> d, events |-> events]

\* responsesStreamDecoder.  Reasoning items, their deltas and everything else
\* it does not name give no event.
StopBlock(d, key) ==
  LET i == IndexOf(d, key) IN
    IF i < Len(d.blocks) /\ i \in d.open
    THEN Result([d EXCEPT !.open = @ \ {i}], <<ContentStop(i)>>)
    ELSE Result(d, <<>>)

DecodeResponses(d, e) ==
  LET item == <<"item", e.index>>
      content == <<"content", e.index>>
      Begin(key, kind) ==
        LET i == IndexOf(d, key) IN
          Result([Allocate(d, key) EXCEPT
                    !.open = @ \cup {i}, !.hadTool = @ \/ kind = "tool_call"],
                 <<ContentStart(i, kind, e.id)>>)
      Delta(key, kind) ==
        Result(Allocate(d, key),
               <<ContentDelta(IndexOf(d, key), kind, e.text)>>)
      stop == IF d.hadTool /\ e.stop = "stop" THEN "tool_use" ELSE e.stop
      usage == IF e.usage.known THEN e.usage ELSE d.usage
  IN
  CASE e.type \in {"response.created", "response.in_progress"} ->
         IF d.started THEN Result(d, <<>>)
         ELSE Result([d EXCEPT !.started = TRUE], <<Start(NoUsage)>>)
    [] e.type = "output_item.added" /\ e.kind = "tool_call" ->
         Begin(item, "tool_call")
    [] e.type = "content_part.added" -> Begin(content, "text")
    [] e.type = "output_text.delta" -> Delta(content, "text")
    [] e.type = "function_call_arguments.delta" -> Delta(item, "tool_call")
    [] e.type = "content_part.done" -> StopBlock(d, content)
    [] e.type = "output_item.done" /\ e.kind = "tool_call" -> StopBlock(d, item)
    [] e.type \in {"response.completed", "response.incomplete"} ->
         Result([d EXCEPT !.done = TRUE, !.stop = stop, !.usage = usage],
                <<Done(stop, usage)>>)
    [] OTHER -> Result(d, <<>>)

\* anthropicStreamDecoder.  A block is closed by its stop event, and at the
\* end of the message in any order.
Stops(indexes) == {[k \in DOMAIN order |-> ContentStop(order[k])] :
                     order \in SetToSeqs(indexes)}

MergeUsage(old, new) == IF old.known THEN Usage(old.input, new.output) ELSE new

DecodeAnthropic(d, e) ==
  LET Delta ==
        LET delta == ContentDelta(e.index, e.kind, e.text) IN
          IF e.kind = "tool_call" \/ e.index \in d.open
          THEN Result(d, <<delta>>)
          ELSE Result([d EXCEPT !.open = @ \cup {e.index}],
                      <<ContentStart(e.index, e.kind, -1), delta>>)
  IN
  CASE e.type = "message_start" ->
         {Result([d EXCEPT !.started = TRUE, !.usage = e.usage],
                 <<Start(e.usage)>>)}
    [] e.type = "content_block_start" /\ e.kind # "redacted" ->
         {Result([d EXCEPT !.open = @ \cup {e.index}],
                 <<ContentStart(e.index, e.kind, e.id)>>)}
    [] e.type = "content_block_delta" -> {Delta}
    [] e.type = "content_block_stop" ->
         {Result([d EXCEPT !.open = @ \ {e.index}], <<ContentStop(e.index)>>)}
    [] e.type = "message_delta" ->
         {Result([d EXCEPT !.stop = e.stop,
                           !.usage = MergeUsage(@, e.usage)], <<>>)}
    [] e.type = "message_stop" ->
         {Result([d EXCEPT !.done = TRUE, !.open = {}],
                 Append(stops, Done(d.stop, d.usage))) :
            stops \in Stops(d.open)}
    [] OTHER -> {Result(d, <<>>)}

\* chatStreamDecoder.  The first text of a message opens the block of its text,
\* the first reasoning that of its reasoning, the first piece of a tool call
\* that of the call; they all stay open until the end, when the text's is closed
\* first and the others in the order in which Go ranges over a map.
TextKey == <<"text", 0>>
ChatKey(e) == IF e.kind = "tool_call" THEN <<"tool_call", e.index>>
              ELSE <<e.kind, 0>>
TextOpen(d) == ~d.done /\ IndexOf(d, TextKey) < Len(d.blocks)

\* Mutant: the open text is not closed.
CloseBlocksButText(d) == Stops(d.open)

CloseBlocks(d) ==
  LET text == IF TextOpen(d) THEN <<ContentStop(IndexOf(d, TextKey))>> ELSE <<>>
  IN {text \o stops : stops \in Stops(d.open)}

ChatDone(d) ==
  {Result([d EXCEPT !.done = TRUE, !.open = {}],
          Append(stops, Done(DefaultStopReason(d.stop), d.usage))) :
     stops \in CloseBlocks(d)}

ChatDelta(d, e) ==
  LET i == IndexOf(d, ChatKey(e))
      start == IF i < Len(d.blocks) THEN <<>>
               ELSE <<ContentStart(i, e.kind, e.id)>>
      delta == IF e.text = <<>> THEN <<>>
               ELSE <<ContentDelta(i, e.kind, e.text)>>
  IN Result([Allocate(d, ChatKey(e)) EXCEPT
               !.open = IF start # <<>> /\ e.kind # "text"
                        THEN @ \cup {i} ELSE @],
            start \o delta)

ChatChunk(d, e) ==
  CASE e.kind = "finish" -> Result([d EXCEPT !.stop = e.stop], <<>>)
    [] e.kind = "usage" -> Result([d EXCEPT !.usage = e.usage], <<>>)
    [] e.kind = "role" -> Result(d, <<>>)
    [] OTHER -> ChatDelta(d, e)

\* Mutant: every chunk starts the response.
DecodeChatRestarts(d, e) ==
  LET r == ChatChunk([d EXCEPT !.started = TRUE], e)
  IN IF e.type # "[DONE]" THEN {Result(r.d, <<Start(NoUsage)>> \o r.events)}
     ELSE IF d.done THEN {Result(d, <<>>)}
     ELSE ChatDone(d)

DecodeChat(d, e) ==
  LET r == ChatChunk([d EXCEPT !.started = TRUE], e)
      start == IF d.started THEN <<>> ELSE <<Start(NoUsage)>>
  IN IF e.type # "[DONE]" THEN {Result(r.d, start \o r.events)}
     ELSE IF d.done THEN {Result(d, <<>>)}
     ELSE ChatDone(d)

\* What an event may be decoded to, and what the end of the connection adds.
Decode(protocol, d, e) ==
  CASE protocol = "responses" -> {DecodeResponses(d, e)}
    [] protocol = "anthropic" -> DecodeAnthropic(d, e)
    [] protocol = "chat" -> DecodeChat(d, e)

Finish(protocol, d) ==
  IF d.done THEN {Result(d, <<>>)}
  ELSE IF protocol = "chat" THEN ChatDone(d)
  ELSE {Result(d, <<Done("stop", d.usage)>>)}

-----------------------------------------------------------------------------
(* The collector, streamEncoderBase.                                       *)

Collector == [content |-> <<>>, blocks |-> <<>>, stop |-> "", usage |-> NoUsage]

\* A delta without a start opens a block with its own content, to which the
\* text of the delta is then added again; only arguments start empty.
Block(c, ev) ==
  IF ev.index \in DOMAIN c.blocks THEN c.blocks[ev.index]
  ELSE IF ev.content.type = "tool_call" THEN Content("tool_call", -1, <<>>)
  ELSE ev.content

\* The blocks of the collector are a Go map by index.
Put(blocks, index, block) ==
  [i \in DOMAIN blocks \cup {index} |-> IF i = index THEN block ELSE blocks[i]]

Apply(c, ev) ==
  CASE ev.type = "start" ->
         [c EXCEPT !.usage = IF ev.usage.known THEN ev.usage ELSE @]
    [] ev.type = "content_start" ->
         [c EXCEPT !.blocks = Put(@, ev.index, ev.content)]
    [] ev.type = "content_delta" ->
         LET block == [Block(c, ev) EXCEPT !.text = @ \o ev.content.text] IN
           [c EXCEPT !.blocks = Put(@, ev.index, block)]
    [] ev.type = "content_stop" /\ ev.index \in DOMAIN c.blocks ->
         LET block == c.blocks[ev.index] IN
           [c EXCEPT !.content = Append(@,
              IF block.type = "tool_call"
              THEN [block EXCEPT !.text = ParseArguments(@)] ELSE block)]
    [] ev.type = "done" ->
         [c EXCEPT !.stop = DefaultStopReason(ev.stop),
                   !.usage = IF ev.usage.known THEN ev.usage ELSE @]
    [] OTHER -> c

-----------------------------------------------------------------------------
(* Encoders: the wire events for a canonical event, given what has been    *)
(* collected with it.                                                      *)

\* The stop reasons a protocol is told: any other is said as an ordinary end.
Sayable == [anthropic |-> {"length", "tool_use"},
            chat |-> {"length", "tool_use", "content_filter"},
            responses |-> {"length", "error"}]
SayStop(protocol, stop) == IF stop \in Sayable[protocol] THEN stop ELSE "stop"

EncodeAnthropic(ev) ==
  CASE ev.type = "start" ->
         <<Closing("message_start", "", Usage(ev.usage.input, 0))>>
    [] ev.type = "content_start" ->
         <<Wire("content_block_start", ev.index, ev.content.type,
                ev.content.id, <<>>)>>
    [] ev.type = "content_delta" ->
         <<Wire("content_block_delta", ev.index, ev.content.type, -1,
                ev.content.text)>>
    [] ev.type = "content_stop" ->
         <<Wire("content_block_stop", ev.index, "", -1, <<>>)>>
    [] ev.type = "done" ->
         <<Closing("message_delta", SayStop("anthropic", ev.stop),
                   Usage(0, ev.usage.output)),
           Closing("message_stop", "", NoUsage)>>

DeltaType == [text |-> "output_text.delta",
              tool_call |-> "function_call_arguments.delta",
              reasoning |-> "reasoning_summary_text.delta"]

EncodeResponses(c, ev) ==
  LET item(type, content) ==
        Wire(type, ev.index, content.type, content.id, <<>>)
  IN
  CASE ev.type = "start" ->
         <<Closing("response.created", "", NoUsage),
           Closing("response.in_progress", "", NoUsage)>>
    [] ev.type = "content_start" ->
         <<item("output_item.added", ev.content)>> \o
           (IF ev.content.type = "text"
            THEN <<item("content_part.added", ev.content)>> ELSE <<>>)
    [] ev.type = "content_delta" ->
         <<Wire(DeltaType[ev.content.type], ev.index, ev.content.type, -1,
                ev.content.text)>>
    [] ev.type = "content_stop" /\ ev.index \in DOMAIN c.blocks ->
         LET block == c.blocks[ev.index] IN
           (IF block.type = "text"
            THEN <<item("content_part.done", block)>> ELSE <<>>)
           \o <<item("output_item.done", block)>>
    [] ev.type = "done" ->
         <<Closing("response.completed", SayStop("responses", ev.stop),
                   c.usage)>>
    [] OTHER -> <<>>

Chunk(kind, index, id, text) == Wire("chunk", index, kind, id, text)
ClosingChunk(kind, stop, usage) ==
  [type |-> "chunk", kind |-> kind, stop |-> stop, usage |-> usage]

EncodeChat(ev) ==
  CASE ev.type = "start" -> <<Chunk("role", -1, -1, <<>>)>>
    [] ev.type = "content_start" /\ ev.content.type = "tool_call" ->
         <<Chunk("tool_call", ev.index, ev.content.id, <<>>)>>
    [] ev.type = "content_delta" ->
         <<Chunk(ev.content.type, ev.index, -1, ev.content.text)>>
    [] ev.type = "done" ->
         <<ClosingChunk("finish", SayStop("chat", ev.stop), NoUsage)>>
           \o (IF ev.usage.known
               THEN <<ClosingChunk("usage", "", ev.usage)>> ELSE <<>>)
           \o <<[type |-> "[DONE]"]>>
    [] OTHER -> <<>>

Encode(protocol, c, ev) ==
  CASE protocol = "responses" -> EncodeResponses(c, ev)
    [] protocol = "anthropic" -> EncodeAnthropic(ev)
    [] protocol = "chat" -> EncodeChat(ev)

\* An encoder that has collected c, and the events it has yet to write.  It
\* collects a canonical event before it writes what its protocol has for it.
Encoder(protocol, c) == [to |-> protocol, c |-> c, out |-> <<>>]
EncodeNext(x, ev) ==
  LET next == Apply(x.c, ev) IN
    [x EXCEPT !.c = next, !.out = @ \o Encode(x.to, next, ev)]
EncodeAll(protocol, c, events) ==
  FoldLeft(EncodeNext, Encoder(protocol, c), events)

ApplyAll(c, events) == FoldLeft(Apply, c, events)

\* WriteResponseStream: a complete response as a stream.
Render(protocol, response) ==
  LET block(i) == LET content == response.content[i] IN
        <<ContentStart(i - 1, content.type, content.id),
          ContentDelta(i - 1, content.type, content.text),
          ContentStop(i - 1)>>
      events == <<Start(response.usage)>>
                  \o FlattenSeq([i \in DOMAIN response.content |-> block(i)])
                  \o <<Done(response.stop, response.usage)>>
  IN EncodeAll(protocol, Collector, events).out

-----------------------------------------------------------------------------
(* Whole responses (response.go).  A document is a list of contents, a stop*)
(* reason and the usage; a chat message has one text, one reasoning and a  *)
(* list of calls.                                                          *)

Merged(content, type) ==
  IF TextOf(content, type) = <<>> THEN <<>>
  ELSE <<Content(type, -1, TextOf(content, type))>>

ChatMessage(content) ==
  Merged(content, "text") \o Merged(content, "reasoning")
    \o OfType(content, "tool_call")

Document(content, stop, usage) ==
  [content |-> content, stop |-> stop, usage |-> usage]

DocumentContent(protocol, content) ==
  IF protocol = "chat" THEN ChatMessage(content) ELSE content

EncodeResponse(protocol, response) ==
  Document(DocumentContent(protocol, response.content),
           SayStop(protocol, response.stop), response.usage)

\* A tool call is read when its arguments are an object, or a text that is JSON:
\* the text null is, the empty one is not.  Any other call is left out, which
\* stops the translation of the document.
Legible(protocol, x) ==
  x.type = "tool_call" =>
    IF protocol = "anthropic" THEN x.text # NilArguments ELSE x.text # <<>>

Blocked(protocol, doc) ==
  \E i \in DOMAIN doc.content : ~Legible(protocol, doc.content[i])

\* A chat message's reasoning is not read.
ReadContent(protocol, content) ==
  Keep(content, LAMBDA x : /\ Legible(protocol, x)
                           /\ protocol = "chat" => x.type # "reasoning")

DecodeChatResponse(doc) ==
  Document(ReadContent("chat", doc.content), doc.stop, doc.usage)

DecodeAnthropicResponse(doc) ==
  Document(ReadContent("anthropic", doc.content), doc.stop, doc.usage)

\* A Responses document says tool_use by holding a tool call.
DecodeResponsesResponse(doc) ==
  LET content == ReadContent("responses", doc.content)
      hasTool == OfType(content, "tool_call") # <<>>
  IN Document(content,
              IF doc.stop = "stop" /\ hasTool THEN "tool_use" ELSE doc.stop,
              doc.usage)

DecodeResponse(protocol, doc) ==
  CASE protocol = "responses" -> DecodeResponsesResponse(doc)
    [] protocol = "anthropic" -> DecodeAnthropicResponse(doc)
    [] protocol = "chat" -> DecodeChatResponse(doc)

-----------------------------------------------------------------------------
(* CollectStream, as a client of the protocol may use it to read a stream: *)
(* the responses and the canonical events that the wire may be read as.    *)

Readings(protocol, wire) ==
  LET read(states, e) ==
        UNION {{[d |-> r.d, events |-> s.events \o r.events] :
                  r \in Decode(protocol, s.d, e)} : s \in states}
      ends == FoldLeft(read, {[d |-> Decoder, events |-> <<>>]}, wire)
  IN UNION {{s.events \o r.events : r \in Finish(protocol, s.d)} : s \in ends}

CollectStream(protocol, wire) ==
  {ApplyAll(Collector, events) : events \in Readings(protocol, wire)}
=============================================================================

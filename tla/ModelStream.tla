----------------------------- MODULE ModelStream -----------------------------
(***************************************************************************)
(* One streamed response of a model, from the connection to the agent loop.*)
(*                                                                         *)
(*  provider -> reader -> [relay ->] adapter -> loop                       *)
(*                                                                         *)
(* The reader is the goroutine of sse.Do, the relay that of anthropic's    *)
(* CreateMessageStream, the adapter that of openai's                       *)
(* CreateChatCompletionStream or anthropic's                               *)
(* AnthropicStreamToChatCompletionStream, and the loop is the part of      *)
(* Agent.Run that ranges over the chunks and merges them into a message.   *)
(* They pass events over unbuffered channels: a send and its receive are   *)
(* one action of both.  Each may leave, by a failure, an end or a cancel,  *)
(* while its neighbour waits for it.                                       *)
(*                                                                         *)
(* Data.  The message the provider sends is a sequence of parts; part i is *)
(* the pieces <<i, 1>> .. <<i, Chunks>>, and a tool call's id is the number*)
(* of its part.  Names of tools go with ids, and usage and finish reasons, *)
(* which the loop does not read, are left out.                             *)
(***************************************************************************)
EXTENDS Naturals, Sequences, FiniteSets, SequencesExt

CONSTANTS Messages,     \* the messages a provider may send
          Chunks,       \* bound: pieces of a part
          SinkMayFail   \* whether the loop's sink may fail

PartKinds == {"thinking", "text", "tool_use"}

ASSUME StreamAssumption ==
  /\ Messages \subseteq Seq(PartKinds)
  /\ Chunks \in Nat \ {0}
  /\ SinkMayFail \in BOOLEAN

NoId == 0

-----------------------------------------------------------------------------
(* Chunks of a response, as the loop receives them.                        *)

\* A fragment of a tool call.
Fragment(id, index, args) == [id |-> id, index |-> index, args |-> args]

NoDelta == [role |-> FALSE, thinking |-> <<>>, text |-> <<>>, calls |-> <<>>]
Delta(kind, piece) == [NoDelta EXCEPT ![kind] = <<piece>>]
CallDelta(fragments) == [NoDelta EXCEPT !.calls = fragments]

Chunk(delta) == [error |-> FALSE, delta |-> delta]
FailureChunk == [error |-> TRUE, delta |-> NoDelta]

-----------------------------------------------------------------------------
(* The message builder.                                                    *)

\* byIndex: the position in calls for the indices seen.  The map by id holds
\* the calls that have one.
EmptyBuilder == [role |-> FALSE, thinking |-> <<>>, text |-> <<>>,
                 calls |-> <<>>, byIndex |-> <<>>]

\* Mutant: the index is asked before the id.
PlaceByIndex(b, f) ==
  IF f.index \in DOMAIN b.byIndex THEN b.byIndex[f.index]
  ELSE Len(b.calls) + 1

\* The position of the call that a fragment belongs to; one past the last for
\* a new call.
Place(b, f) ==
  LET known == {i \in DOMAIN b.calls : b.calls[i].id = f.id}
  IN  CASE f.id # NoId /\ known # {} -> CHOOSE i \in known : TRUE
        [] f.id # NoId /\ known = {} -> Len(b.calls) + 1
        [] f.id = NoId /\ f.index \in DOMAIN b.byIndex -> b.byIndex[f.index]
        [] OTHER -> IF b.calls = <<>> THEN 1 ELSE Len(b.calls)

MergeCall(b, f) ==
  LET at == Place(b, f)
      calls == IF at \in DOMAIN b.calls
               THEN [b.calls EXCEPT ![at].args = @ \o f.args]
               ELSE Append(b.calls, [id |-> f.id, args |-> f.args])
      byIndex == [i \in DOMAIN b.byIndex \cup {f.index} |->
                    IF i = f.index THEN at ELSE b.byIndex[i]]
  IN  [b EXCEPT !.calls = calls, !.byIndex = byIndex]

Update(b, delta) ==
  FoldLeft(MergeCall,
           [b EXCEPT !.role = TRUE,
                     !.thinking = @ \o delta.thinking,
                     !.text = @ \o delta.text],
           delta.calls)

Build(b) == [thinking |-> b.thinking, text |-> b.text, calls |-> b.calls]

\* ChatCompletionMessage.IsEmpty: of a delta, or of a built message.
IsEmpty(m) == ~m.role /\ m.thinking = <<>> /\ m.text = <<>> /\ m.calls = <<>>

-----------------------------------------------------------------------------
(* The provider.                                                           *)

Part(i) == [n \in 1..Chunks |-> <<i, n>>]

Join(s, t) == s \o t
Flat(ss) == FoldLeft(Join, <<>>, ss)

\* The message as its provider means it.
Call(i) == [id |-> i, args |-> Part(i)]
Unsaid == [parts |-> 0, thinking |-> <<>>, text |-> <<>>, calls |-> <<>>]
AddPart(m, kind) ==
  LET i == m.parts + 1
      said == [m EXCEPT !.parts = i]
  IN  IF kind = "tool_use" THEN [said EXCEPT !.calls = Append(@, Call(i))]
      ELSE [said EXCEPT ![kind] = @ \o Part(i)]
Meant(message) == FoldLeft(AddPart, Unsaid, message)
Whole(message) == Build(Meant(message))

\* Events of a connection; those of type "broken" are no JSON.
Event(type) == [type |-> type]
ChatEvent(delta) == [type |-> "chunk", delta |-> delta]

\* Chat providers differ in how they cut up tool calls.  "indexed": the id
\* comes with the first fragment, the index with all; "interleaved": so, and
\* the fragments of the calls alternate, behind the other parts; "repeated":
\* the id comes with all; "unindexed": so is "indexed", with no index;
\* "together": every call comes whole, in one chunk and with no index, behind
\* the other parts.  A missing index reads as 0.
Styles == {"indexed", "interleaved", "repeated", "unindexed", "together"}

CallNumber(message, i) ==
  Cardinality({j \in 1..(i - 1) : message[j] = "tool_use"})

ChatPart(style, message, i) ==
  [n \in 1..Chunks |->
     IF message[i] = "tool_use"
     THEN ChatEvent(CallDelta(<<Fragment(
            IF n = 1 \/ style = "repeated" THEN i ELSE NoId,
            IF style = "unindexed" THEN 0 ELSE CallNumber(message, i),
            <<<<i, n>>>>)>>))
     ELSE ChatEvent(Delta(message[i], <<i, n>>))]
ChatParts(style, message) ==
  Flat([i \in DOMAIN message |-> ChatPart(style, message, i)])

\* The parts that are no calls, the n-th fragments of the calls, all calls.
SpokenParts(message) ==
  Flat([i \in DOMAIN message |->
          IF message[i] = "tool_use" THEN <<>>
          ELSE ChatPart("interleaved", message, i)])
Round(calls, n) ==
  [k \in DOMAIN calls |->
     ChatEvent(CallDelta(<<Fragment(IF n = 1 THEN calls[k].id ELSE NoId,
                                    k - 1, <<calls[k].args[n]>>)>>))]
Together(calls) ==
  ChatEvent(CallDelta([k \in DOMAIN calls |->
                         Fragment(calls[k].id, 0, calls[k].args)]))

ChatEvents(style, message) ==
  LET calls == Whole(message).calls
  IN  CASE style = "interleaved" ->
             SpokenParts(message)
               \o Flat([n \in 1..Chunks |-> Round(calls, n)])
        [] style = "together" ->
             SpokenParts(message) \o <<Together(calls)>>
        [] OTHER -> ChatParts(style, message)
ChatScript(style, message) ==
  <<ChatEvent([NoDelta EXCEPT !.role = TRUE])>>
    \o ChatEvents(style, message)
    \o <<ChatEvent(NoDelta), Event("[DONE]")>>

\* The events of a text block's start, of the ends of blocks and pings, which
\* have no chunk, are left out: message_start is one of their kind.
Block(message, i) ==
  LET deltas == [n \in 1..Chunks |->
                   [type |-> "content_block_delta", kind |-> message[i],
                    index |-> i - 1, piece |-> <<i, n>>]]
  IN  IF message[i] = "tool_use"
      THEN <<[type |-> "content_block_start", index |-> i - 1, id |-> i]>>
             \o deltas
      ELSE deltas
MessagesScript(message) ==
  <<Event("message_start")>>
    \o Flat([i \in DOMAIN message |-> Block(message, i)])
    \o <<Event("message_delta"), Event("message_stop")>>

Script(kind, style, message) ==
  IF kind = "openai" THEN ChatScript(style, message)
  ELSE MessagesScript(message)

-----------------------------------------------------------------------------
VARIABLES
  model,      \* kind of client, style of its provider, message
  wire,       \* events of the response that have not been read
  conn,       \* the connection: "open", "eof" or "error"
  whole,      \* history: the provider has not failed, nothing was cut off
  mute,       \* history: it has reported an error without saying which
  reader,     \* where the reader stands
  readEvent,  \* the event it holds
  streamErr,  \* an error is in the stream's channel of errors
  relay,      \* where the relay stands; "none" in the openai client
  relayEvent, \* the event it holds
  adapter,    \* where the adapter stands; it closes its channel when done
  chunk,      \* the chunk it holds
  loop,       \* "range", or how the loop has left the range over the chunks
  builder,    \* the loop's message builder
  ctxDone     \* the context of the prompt is cancelled

vars == <<model, wire, conn, whole, mute, reader, readEvent, streamErr, relay,
          relayEvent, adapter, chunk, loop, builder, ctxDone>>

readerVars == <<wire, conn, whole, reader, readEvent, streamErr>>
relayVars == <<relay, relayEvent>>
adapterVars == <<adapter, chunk>>
loopVars == <<loop, builder>>

Anthropic == model.kind = "anthropic"

Init ==
  /\ model \in [kind : {"openai"}, style : Styles, message : Messages]
        \cup [kind : {"anthropic"}, style : {"indexed"}, message : Messages]
  /\ wire = Script(model.kind, model.style, model.message)
  /\ conn = "open" /\ whole = TRUE /\ mute = FALSE
  /\ reader = "read" /\ readEvent = Event("none") /\ streamErr = FALSE
  /\ relay = IF Anthropic THEN "recv" ELSE "none"
  /\ relayEvent = Event("none")
  /\ adapter = "recv" /\ chunk = Chunk(NoDelta)
  /\ loop = "range" /\ builder = EmptyBuilder
  /\ ctxDone = FALSE

-----------------------------------------------------------------------------
(* The provider and the user.                                              *)

\* The provider ends the response: after its last event, or by a failure.
ProviderCloses ==
  /\ conn = "open" /\ wire = <<>>
  /\ conn' \in {"eof", "error"}
  /\ UNCHANGED <<model, mute, wire, whole, reader, readEvent, streamErr,
                 relayVars, adapterVars, loopVars, ctxDone>>

\* The connection ends in the middle.  What has come of an event by the end
\* of the file is still dispatched.
ConnectionCut ==
  /\ conn = "open" /\ wire # <<>>
  /\ whole' = FALSE
  /\ \/ conn' \in {"eof", "error"} /\ wire' = <<>>
     \/ conn' = "eof" /\ wire' = <<Event("broken")>>
  /\ UNCHANGED <<model, mute, reader, readEvent, streamErr, relayVars,
                 adapterVars, loopVars, ctxDone>>

\* The provider reports an error in place of the rest: in the Messages protocol
\* by an event of type error, whose error object may be missing.
ProviderFails ==
  /\ conn = "open" /\ wire # <<>> /\ whole
  /\ whole' = FALSE
  /\ \/ wire' = <<Event("error")>> /\ mute' = mute
     \/ Anthropic /\ wire' = <<Event("bareError")>> /\ mute' = TRUE
  /\ UNCHANGED <<model, conn, reader, readEvent, streamErr, relayVars,
                 adapterVars, loopVars, ctxDone>>

Cancel ==
  /\ ~ctxDone /\ loop = "range"
  /\ ctxDone' = TRUE
  /\ UNCHANGED <<model, mute, readerVars, relayVars, adapterVars, loopVars>>

-----------------------------------------------------------------------------
(* The reader.                                                             *)

ReadEvent ==
  /\ reader = "read" /\ wire # <<>>
  /\ reader' = "send" /\ readEvent' = Head(wire) /\ wire' = Tail(wire)
  /\ UNCHANGED <<model, mute, conn, whole, streamErr, relayVars, adapterVars,
                 loopVars, ctxDone>>

\* Read's check of the context, the failing read of a cancelled request, and
\* the other case of the select that sends.
ReaderCancelled ==
  /\ reader \in {"read", "send"} /\ ctxDone
  /\ reader' = "closeEvents"
  /\ UNCHANGED <<model, mute, wire, conn, whole, readEvent, streamErr,
                 relayVars, adapterVars, loopVars, ctxDone>>

\* The error goes into its channel before the events are closed.
ReadEnds ==
  /\ reader = "read" /\ wire = <<>> /\ conn # "open"
  /\ reader' = "closeEvents"
  /\ streamErr' = (conn = "error" /\ ~ctxDone)
  /\ UNCHANGED <<model, mute, wire, conn, whole, readEvent, relayVars,
                 adapterVars, loopVars, ctxDone>>

\* Stream.Close closes the events and then the errors.
CloseEvents ==
  /\ reader = "closeEvents" /\ reader' = "closeErr"
  /\ UNCHANGED <<model, mute, wire, conn, whole, readEvent, streamErr,
                 relayVars, adapterVars, loopVars, ctxDone>>
CloseErr ==
  /\ reader = "closeErr" /\ reader' = "done"
  /\ UNCHANGED <<model, mute, wire, conn, whole, readEvent, streamErr,
                 relayVars, adapterVars, loopVars, ctxDone>>

EventsClosed == reader \in {"closeErr", "done"}
ErrReady == streamErr \/ reader = "done"

\* The reader's half of a send.
ReaderSends ==
  /\ reader = "send" /\ reader' = "read"
  /\ UNCHANGED <<wire, conn, whole, readEvent, streamErr>>

-----------------------------------------------------------------------------
(* The relay of the anthropic client.                                      *)

\* emitError drops the error of a cancelled stream.
EmitError ==
  /\ relay' = IF ctxDone THEN "done" ELSE "send"
  /\ relayEvent' = Event("streamError")

RelayReceives ==
  /\ Anthropic /\ relay = "recv" /\ ReaderSends
  /\ IF readEvent.type = "broken" THEN EmitError
     ELSE relay' = "send" /\ relayEvent' = readEvent
  /\ UNCHANGED <<model, mute, adapterVars, loopVars, ctxDone>>

\* The events are closed: the relay waits for the error or its close, not for
\* the context.
RelaySeesClose ==
  /\ Anthropic /\ relay = "recv" /\ EventsClosed
  /\ relay' = "await"
  /\ UNCHANGED <<model, mute, readerVars, relayEvent, adapterVars, loopVars,
                 ctxDone>>

RelaySeesErr ==
  /\ Anthropic /\ relay \in {"recv", "await"} /\ ErrReady
  /\ EmitError
  /\ UNCHANGED <<model, mute, readerVars, adapterVars, loopVars, ctxDone>>

RelayCancelled ==
  /\ Anthropic /\ relay \in {"recv", "send"} /\ ctxDone
  /\ relay' = "done"
  /\ UNCHANGED <<model, mute, readerVars, relayEvent, adapterVars, loopVars,
                 ctxDone>>

-----------------------------------------------------------------------------
(* The adapters.                                                           *)

\* The delta of an event of the Messages protocol.
MessagesDelta(e) ==
  CASE e.type = "content_block_start" ->
         CallDelta(<<Fragment(e.id, e.index, <<>>)>>)
    [] e.type = "content_block_delta" ->
         IF e.kind = "tool_use"
         THEN CallDelta(<<Fragment(NoId, e.index, <<e.piece>>)>>)
         ELSE Delta(e.kind, e.piece)
    [] OTHER -> NoDelta

\* Mutant: the relay goes on after message_stop.
AdapterConvertsOn ==
  /\ Anthropic /\ relay = "send" /\ adapter = "recv"
  /\ relay' = IF relayEvent.type = "streamError" THEN "done" ELSE "recv"
  /\ CASE relayEvent.type \in {"error", "streamError"} ->
            adapter' = "last" /\ chunk' = FailureChunk
       [] relayEvent.type \in {"message_stop", "bareError"} ->
            adapter' = "done" /\ UNCHANGED chunk
       [] relayEvent.type \in {"content_block_start", "content_block_delta",
                               "message_delta"} ->
            adapter' = "send" /\ chunk' = Chunk(MessagesDelta(relayEvent))
       [] OTHER -> UNCHANGED adapterVars
  /\ UNCHANGED <<model, mute, readerVars, relayEvent, loopVars, ctxDone>>

\* AnthropicStreamToChatCompletionStream.  It knows no context, and returns
\* without a chunk on an error event that has no error object.
AdapterConverts ==
  /\ Anthropic /\ relay = "send" /\ adapter = "recv"
  /\ relay' = IF relayEvent.type \in {"message_stop", "streamError"}
              THEN "done" ELSE "recv"
  /\ CASE relayEvent.type \in {"error", "streamError"} ->
            adapter' = "last" /\ chunk' = FailureChunk
       [] relayEvent.type \in {"message_stop", "bareError"} ->
            adapter' = "done" /\ UNCHANGED chunk
       [] relayEvent.type \in {"content_block_start", "content_block_delta",
                               "message_delta"} ->
            adapter' = "send" /\ chunk' = Chunk(MessagesDelta(relayEvent))
       [] OTHER -> UNCHANGED adapterVars
  /\ UNCHANGED <<model, mute, readerVars, relayEvent, loopVars, ctxDone>>

AdapterSeesClose ==
  /\ Anthropic /\ relay = "done" /\ adapter = "recv"
  /\ adapter' = "done"
  /\ UNCHANGED <<model, mute, readerVars, relayVars, chunk, loopVars, ctxDone>>

\* Mutant: [DONE] is decoded as any other event.
AdapterReceivesAll ==
  /\ ~Anthropic /\ adapter = "recv" /\ ReaderSends
  /\ CASE readEvent.type \in {"[DONE]", "broken"} ->
            adapter' = "last" /\ chunk' = FailureChunk
       [] readEvent.type = "error" ->
            adapter' = "send" /\ chunk' = FailureChunk
       [] OTHER ->
            adapter' = "send" /\ chunk' = Chunk(readEvent.delta)
  /\ UNCHANGED <<model, mute, relayVars, loopVars, ctxDone>>

\* The goroutine of openai's CreateChatCompletionStream.
AdapterReceives ==
  /\ ~Anthropic /\ adapter = "recv" /\ ReaderSends
  /\ CASE readEvent.type = "[DONE]" -> adapter' = "done" /\ UNCHANGED chunk
       [] readEvent.type = "broken" ->
            adapter' = "last" /\ chunk' = FailureChunk
       [] readEvent.type = "error" ->
            adapter' = "send" /\ chunk' = FailureChunk
       [] OTHER ->
            adapter' = "send" /\ chunk' = Chunk(readEvent.delta)
  /\ UNCHANGED <<model, mute, relayVars, loopVars, ctxDone>>

\* The events are closed before [DONE], or there is an error: an error either
\* way.
AdapterSeesEnd ==
  /\ ~Anthropic /\ adapter = "recv" /\ (EventsClosed \/ ErrReady)
  /\ adapter' = "last" /\ chunk' = FailureChunk
  /\ UNCHANGED <<model, mute, readerVars, relayVars, loopVars, ctxDone>>

AdapterCancelled ==
  /\ ~Anthropic /\ adapter \in {"recv", "send", "last"} /\ ctxDone
  /\ adapter' = "done"
  /\ UNCHANGED <<model, mute, readerVars, relayVars, chunk, loopVars, ctxDone>>

-----------------------------------------------------------------------------
(* The loop.                                                               *)

\* A chunk passes from the adapter to the loop.  GetMessage is nil for a chunk
\* without a delta.
Deliver ==
  /\ adapter \in {"send", "last"} /\ loop = "range"
  /\ adapter' = IF adapter = "last" THEN "done" ELSE "recv"
  /\ IF chunk.error THEN loop' = "errored" /\ UNCHANGED builder
     ELSE IF IsEmpty(chunk.delta) THEN UNCHANGED loopVars
     ELSE /\ builder' = Update(builder, chunk.delta)
          /\ \/ UNCHANGED loop
             \/ /\ SinkMayFail
                /\ chunk.delta.thinking # <<>> \/ chunk.delta.text # <<>>
                /\ loop' = "sinkFailed"
  /\ UNCHANGED <<model, mute, readerVars, relayVars, chunk, ctxDone>>

\* The channel is closed.
RangeEnds ==
  /\ adapter = "done" /\ loop = "range"
  /\ loop' = IF ctxDone THEN "cancelled"
             ELSE IF IsEmpty(builder) THEN "empty" ELSE "accepted"
  /\ UNCHANGED <<model, mute, readerVars, relayVars, adapterVars, builder,
                 ctxDone>>

-----------------------------------------------------------------------------
Internal ==
  \/ ReaderCancelled \/ ReadEnds \/ CloseEvents \/ CloseErr
  \/ RelayReceives \/ RelaySeesClose \/ RelaySeesErr \/ RelayCancelled
  \/ AdapterConverts \/ AdapterSeesClose
  \/ AdapterReceives \/ AdapterSeesEnd \/ AdapterCancelled
  \/ Deliver \/ RangeEnds

Next ==
  \/ ProviderCloses \/ ConnectionCut \/ ProviderFails \/ Cancel
  \/ ReadEvent \/ Internal

Spec == Init /\ [][Next]_vars

\* Some goroutine that can go on does.  What has come before the end of the
\* connection is read; an open connection may be silent for ever, but a
\* provider that has sent its last event ends the response.
FairSpec ==
  /\ Spec
  /\ WF_vars(Internal \/ (conn # "open" /\ ReadEvent))
  /\ WF_vars(ProviderCloses)

-----------------------------------------------------------------------------
\* A message that the loop accepts is the provider's, whole: no chunk is lost
\* or merged into another call on the way, however the provider cuts up its
\* calls, and a response that was cut, failed or cancelled is not taken for a
\* message (openai/stream.go, openai/client.go:289-300,
\* anthropic/client.go:207-213, agent/agent.go:84-88).  The one exception: the
\* adapter of the anthropic client makes an orderly end of an error event
\* without an error object (anthropic/openai.go:265-269), and the loop accepts
\* what had come of the message.
AcceptedIsWhole ==
  loop = "accepted" =>
    /\ ~ctxDone
    /\ mute \/ (whole /\ Build(builder) = Whole(model.message))

\* The loop reports a failed stream only when there was one, and a response
\* that came to its end is accepted: the select of a client, which may see the
\* errors' channel before the last events, does not make an error of an
\* orderly end (openai/client.go:284-341, anthropic/client.go:202-238).  A
\* cancelled stream may look failed in the openai client only: its sendError
\* does not ask the context first.
FailureHasCause ==
  /\ loop = "errored" => ~whole \/ (ctxDone /\ ~Anthropic)
  /\ loop = "empty" => model.message = <<>> \/ ~whole
  /\ loop = "cancelled" => ctxDone

AllEnded ==
  reader = "done" /\ relay \in {"none", "done"} /\ adapter = "done"

\* Once the connection has ended or the prompt is cancelled, the loop leaves
\* its range, wherever the goroutines stand (agent/agent.go:79-98).  After a
\* response that was accepted, every goroutine of it ends and the connection is
\* released, unless the adapter has returned at an error without an error
\* object, before the relay's own failure could be passed on to it.  So after a
\* cancel, except that the adapter of the anthropic client, which sends without
\* a look at the context, stays behind when the loop left because its sink
\* failed (anthropic/openai.go:267-337).
StreamIsReleased ==
  /\ (conn # "open" \/ ctxDone) ~> loop # "range"
  /\ loop = "accepted" ~>
       \/ AllEnded
       \/ mute /\ reader = "done" /\ relay = "send" /\ adapter = "done"
  /\ ctxDone ~> \/ AllEnded
                \/ reader = "done" /\ relay = "done"
                   /\ Anthropic /\ loop = "sinkFailed"
=============================================================================

# miya-agents: a TLA+ verification project

This directory holds TLA+ modules that model the concurrent and stateful core of
miya-agents, TLC configurations that model-check them, and proofs checked by
TLAPS. Everything is translated from the Go source; `PROJECT.json` maps every
definition to the lines it stands for.

## The system

miya-agents runs LLM agents that are spoken to over the Agent Client Protocol
(ACP, JSON-RPC 2.0 over lines), and a proxy that translates between the APIs of
model providers.

| Part | State it keeps | Operations | Interacts with |
| --- | --- | --- | --- |
| ACP client `acp/client.go` | pending calls, `closed`, `closeOnce`, the updates channel | `sendRecv`, `readLoop`/`handleFrame`, `handleRequest`, `closePending`, `Close`, `ReceiveSessionUpdates` | an agent process, over its standard streams |
| ACP server `acp/server.go` | cancel functions by session, pending calls to the client, the encoder | `ServeFromReader`, `dispatch`, `handleRequest`, `handleNotification`, `handleResponse`, `callClient` | the client; a handler (the manager) |
| Agent manager `agent/manager.go` | a map of sessions, configuration | `NewSession`, `LoadSession`, `Prompt`, `DeleteSession`, `UseAgent`, `Delegate` | session store, agent loop |
| Agent loop `agent/agent.go`, recording `agent/recording.go`, notice `agent/context_notice.go` | the messages of a turn, the builder of a response | `Run`, the sink's `Update`/`Done`, `AppendContextMaintenanceNotice` | model client, tools, session |
| Session store `session/session.go` | one JSON file per session | `New`, `Load`, `Save`, `List`, `Delete` | used by concurrent handlers without a lock |
| Model clients `openai/`, `anthropic/`, `sse/` | a stream's goroutines and channel | create a completion, stream it | the agent loop, an HTTP server |
| Tools `tools/`, MCP client `mcp/client.go` | child processes, a lock and a closed flag per MCP client | `exec`, delegation, files, web, MCP calls | the agent loop, MCP servers, a shell |
| In-process transport `acp/inprocess.go` | two pipes | `DialInProcess` | a client and a server of one process |
| Proxy gateway `proxy/protocols`, `proxy/providers` | registered providers, hooks | the three chat endpoints, native and translated forwarding | HTTP clients, providers |
| Proxy codec `proxy/codec` | decoder and encoder state per stream | decode, collect, encode, render | gateway |
| Credential stores `proxy/providers/codex`, `claudecode` | rotating OAuth tokens in files | `BearerToken`, refresh, save | gateway; other processes |
| Agent to agent `a2a/acp` | event channels of runs | create, stream, cancel a run | other agents over HTTP |

What is hard in it: goroutines of the ACP client and server that share maps and
channels of capacity one; a close that races answers; cancels that race the
prompts they are meant for; a turn that may fail, be cancelled or crash between
any two of its steps while it keeps two histories and a file; prompts that save
whole files over each other; and streams that arrive in one protocol's order and
leave in another's. `PROJECT.json` lists these hazards at their lines.

## Modules

| Module | Models | Composes |
| --- | --- | --- |
| `RpcClient` | what a JSON-RPC client promises: a call is sent, and returns once with an answer it got or an error | |
| `AcpClient` | `acp/client.go` at the grain of one channel or lock operation | implements `RpcClient` |
| `AcpClientProofs` | its type invariant, its inductive invariant with the safety that follows, and that it implements `RpcClient` | extends `AcpClient` |
| `AcpServer` | `acp/server.go`, the pipe of `acp/inprocess.go` that is closed behind it, and the client that writes to it | |
| `ServerProofs` | the theorems about what the program serves: those of the ACP server, and of the proxy's handler and the streams it writes | extends `AcpServer` and `Gateway`, instantiates `Folding` |
| `AgentTurn` | `Manager.Prompt`, `Agent.Run`, the recording sink, the builder, the session file | |
| `AgentTurnProofs` | its inductive invariant and the safety that follows | extends `AgentTurn`, instantiates `Folding` |
| `ToolCalls` | the tools of a prompt: `UseAgent` and `Delegate`, the life of MCP servers and their calls, the command of `exec` | |
| `ToolCallsProofs` | its inductive invariant and the safety that follows | extends `ToolCalls` |
| `SessionStore` | the session files under concurrent handlers, at the grain of truncate and write | |
| `SessionStoreProofs` | its inductive invariant and the safety that follows | extends `SessionStore` |
| `Canonical` | the protocols, and the helpers on canonical content that both codecs use | |
| `StreamCodec` | the decoders, collector and encoders of `proxy/codec` as operators | extends `Canonical` |
| `Gateway` | one request through the proxy's handlers, with a provider that streams | extends `StreamCodec` |
| `RequestCodec` | `TranslateRequest` of `proxy/codec` over conversations a client composes | extends `Canonical` |
| `ModelStream` | `sse`, the streaming goroutines of `openai` and `anthropic`, the message builder and the loop that reads them | |
| `ModelStreamProofs` | what the builder makes of a whole response, its inductive invariant and the safety that follows | extends `ModelStream`, instantiates `Folding` |
| `TokenStore` | the credential stores of `proxy/providers/codex` and `claudecode`, shared by processes | |
| `ProxyProofs` | the proxy's other theorems: those of its credential stores and of the translation of requests | extends `TokenStore` and `RequestCodec`, instantiates `Folding` |
| `Folding` | what `FoldLeft` makes of a sequence, and induction over sequences, for any operator; what `FlattenSeq` makes of a sequence of sequences | |
| `MCProxy` | the proxy's three modules in one run: a behaviour is one of one of them, the other two stay where they begin | extends `MCGateway`, `MCRequestCodec` and `MCTokenStore` |
| `MC*` | small values for the constants | extend the module they name |

### AcpClient

A call is named by its id. `callPc` follows `sendRecv` through its registration,
its send, its select (split into reaching it, parking in it, and being woken) and
its deferred `removePending`; `outcome` is what it will return. `pending` is the
map, `respCh` the buffered channel of each call, `pendingMu` its mutex, which is a
variable because `closePending` holds it while it sends; the critical sections
that cannot block are single steps. `readerPc`/`readerTarget` follow the reader
between taking an entry from `pending` and sending on its channel. `closed`,
`closeOnce`, `closePc`, `closeTarget` are `closePending`, run by the reader and by
every caller of `Close`. `subscribed`, `updates`, `updatesClosed` are
`ReceiveSessionUpdates`; `panicked` is a send on the closed channel. The agent is
external: it answers, sends updates, asks, and ends when `AgentExits` lets it.

### AcpServer

`stdin` and `stdout` are the lines on the two streams. `reqPc` follows a request's
goroutine from dispatch through `setCancel`, the handler, the response and the
deferred `clearCancel`; `cancelFuncs` is the map by session, `ctxDone` the contexts.
A handler sends updates and may call the client back (`CallRegister` ...
`CallReturn`). A request of another method, or one whose params do not parse, is answered by
`AnswerAtOnce`; session/load sends its replay (`SendUpdate`) before that. The client sends prompts, cancels, replies and junk, and may close its end
(`"eof"`). The scan loop ends then, or at a line that is too long; `CloseStdout` is the
goroutine of `DialInProcess`, after which whatever `EncodeFrame` is given fails: a response is
lost, a call to the client returns the error. `Ended` is a goroutine of a request that is gone.
`crossed` is a history variable: the prompts whose goroutine was active together with that of
another prompt of their session.

### AgentTurn

`pc` walks `Manager.Prompt` and `Agent.Run`. `msgs` and `events` are the session's two
histories, `deltas`, `text` and `calls` the message builder, `next` the tool call being run. A
delta with nothing but a role makes the builder non-empty, as it does in the code. Any step may
fail according to `Failures`; `Cancel` closes the context at any moment and `Crash` returns to the
file. A save is `os.WriteFile`, which truncates the file before it writes it: it may fail before
the file is open, or behind the truncation, and a crash may come in the middle of it. `disk` is what
the last whole save wrote, `torn` says that the file has been truncated since and not written whole;
a torn file cannot be loaded, and nothing else in the code has what it had. A save that fails behind
the truncation may still have written everything.

`AnthropicRequest` is the conversion of a history by `anthropic/openai.go`, which leaves out
responses that hold only thoughts, since a history that suits one provider need not suit the other;
`Replay` is what `LoadSession` sends. `sent` is what the client has received; it is kept until
`lossy`, that is until a crash, a failed save or a failed send has set the file and what the client
saw apart.

### ToolCalls

`stack` is the call stack of a prompt: one frame for each agent, with the depth that `Delegate`
puts in its context, the MCP clients it has made (`client`), the servers whose tools it has
(`serving`), and the calls it has still to make. `left` and `at` walk `NewMcpManager`, which
connects one server after the other; a server that fails is closed and done without. A `shell`
command runs beside the prompt, with os/exec's goroutine that kills it (`Kill`) when the context
of the command is done (`execErr`), and the processes it leaves behind (`helper`) that keep its
output open. `Waits` names the two things nothing in the code bounds: an MCP server, since its
calls use a context of their own, and a holder of a dead command's output. Whatever fails inside
a delegated agent is a result of the call that asked for it (`Leave`).

### SessionStore

`file` is each session's content on disk (absent, torn, or a sequence of events), `born`
where its session/new stands, `copy` a handler's session value, `holds` the writers whose
open file is still the one on disk. `Save` is a truncation and a write. In the sessions of
`SaveFaults` either half may fail (`OpenFails`, `WriteFails`): the second leaves the file as it is,
or with a part of what was to be written, or, when closing it is what fails, with all of it. A failed
first save ends the prompt with an error; a failed loop and a failed save of the reply are followed
by another save whose error is dropped (`Rescue`, agent/manager.go:313-315). A list reads the
directory (`ReadDir`), then loads each file (`LoadListed`) and looks it up again (`StatListed`);
`left`, `loaded` and `found` are how far it is. `shared`, `cutShort` and `steady` are history
variables that only properties read: `cutShort` has the sessions whose last save was cut behind its
truncation, by a crash or by a fault, and that no later save has made good.

### StreamCodec and Gateway

`StreamCodec` has no state. `Decode` and `Finish` are the three stream decoders; since two
of them range over a Go map when a stream ends they yield sets of results. `Apply` is
the collector that every encoder embeds, `Encode` the three encoders, `EncodeNext` an
encoder that is given an event, `Render` `WriteResponseStream`,
`EncodeResponse`/`DecodeResponse` the conversion of whole responses. `Gateway` runs one request: `handler` is where the handler is, `req` fixes the two protocols, whether a stream is
wanted, and the message the provider will send; `todo` is the rest of the provider's
events, `dec` and `col` the decoder and collector, `out` what the client was sent. Decoding,
encoding and writing an event happen in the handler's only goroutine and are one step.
`RequestNotBuilt` is a request that fails before anything is sent. `hook` is what the end hook is
given: a translated answer in chat form (`ChatOutput`), or what `ObserveStream` and
`ObserveDocument` make of the copy that is kept of an answer passed on, if it fits (`Unseen`).
`RenderBroken` is a client that leaves in the middle of a document that is rendered as a stream.

A provider stops for any of the reasons its decoder reads (`StopsSaid`), a content filter, a failed
and a cancelled response among them; `StopReason` and `SayStop` are how the codec maps them, and
`ToldStop` what a reader of another protocol is left with. A provider may also give its tool calls no
arguments (`req.bare`), and a Responses provider stream text whose content part it has not announced
(`~req.announced`, as proxy/native_test.go:34 does). The same decoders, applied to `out`, say what a client can read.

### RequestCodec

A client composes a conversation part by part (`Compose`) and has it translated after any of
them (`TranslateRequest`). `Decode*` and `Encode*` are the three decoders and encoders; the
diagnostics that refuse a request are `Refuses` and `EncodeRefuses`. A text is a sequence of
chunks, so that joined texts can be compared; names and JSON values are abstract, and what a
decoder cannot read is a value `"bad"` or `"unknown"`. Results answer calls of the
conversation, as a client that follows its protocol gives them. `ForHooks` is the chat form in
which the hooks are shown a request.

### ModelStream

One response, from the connection to the agent loop, through the goroutines of the client
that serves the agent: `reader` (sse.Do), `relay` (the anthropic client's own goroutine),
`adapter` (the one that makes chunks) and `loop` (the range in `Agent.Run`). All their channels
are unbuffered, so a send and its receive are one action. `conn` is the connection, which may
end in an orderly way or be cut; `wire` is what the provider still has to send, `whole` whether
it sent its last event. A provider's
error may lack its error object (`bareError`): the anthropic client's adapter takes it for an
orderly end (anthropic/openai.go:265-269), which the history variable `mute` notes, and leaves; the
relay, which has passed it on, goes on reading, and then has what nobody takes until the context
ends. `Meant` is what the provider
means by a message, a fold over its parts; `Script` is the events it sends for it. A chat
provider cuts up its tool calls in one of five `Styles`: ids with every fragment or with the
first, fragments with an index or without, those of parallel calls one call after the other or
in turns, or each call whole. `Update` is the builder. `ctxDone` is the prompt's context, which may be cancelled any time.

### TokenStore

`creds` and `mu` are the store of each process, `pc` where each request stands in
`BearerToken`, `file` the shared credentials file, `issued`, `fresh`, `live` the token server.
Tokens are numbered by the refresh that issued them. `Lock` ... `Write` are the steps between
which a process may crash and another process may act; `Truncate` and `Write` are the two
effects of `os.WriteFile`. `rotates` says whether the server replaces refresh tokens. `saved`,
`unsaved`, `rotator` and `lost` are history variables that only properties read.

## Runs

| Run | Bounds | What it shows |
| --- | --- | --- |
| `acpclient_safety` | 2 calls, 1 closer, 1 request of the agent, 2 updates, updates channel of 1; the calls are symmetric | no interleaving loses an answer, leaks an entry, strands a call, blocks the reader for good, or reorders updates; when nothing goes on any more every call has returned; the client implements `RpcClient` |
| `acpclient_eof_hangs` | same size | finding: end of file against an undelivered answer deadlocks the client |
| `acpclient_updates_closed` | same size | finding: `Close` closes the updates channel under the reader |
| `acpserver` | 2 requests, 2 sessions, 4 frames, 1 cancel, 1 junk frame or the end of the input | the dispatcher is never held up; entries do not leak; a cancel reaches a prompt that has never overlapped with another of its session; a response comes last; everything is answered while the pipe is open, and no goroutine stays behind but one whose call the client leaves unanswered |
| `acpserver_cancel_lost` | 2 prompts of 1 session, which may overlap | finding: a cancel that is read before the prompt's goroutine has run is dropped |
| `agent_turn` | 2 turns, 1 round of tools, 2 deltas, 2 tools | the model's context is well formed for both providers, no cut response is stored, an answered turn is in every file that can be loaded, the file replays what was shown, a cancelled turn ends |
| `tool_calls` | 2 MCP servers, 3 agents, depth 2, 3 calls, 1 command at a time | delegation is bounded; just the servers whose tools are used run; exec tells the truth; a cancelled prompt ends and a command ends at its deadline, unless they wait for a server or for a holder of the output |
| `session_store` | 3 prompts, 2 of them of a session whose saves may fail and that may be deleted, 2 sessions, 1 list at a time, crashes; the 2 prompts are symmetric | turns that do not overlap keep their answered turns in every readable file; only a save under way, or cut, leaves an unreadable one; a readable file never mixes turns; a list misses no session that can be read throughout |
| `session_lost_turn` | same size, without a fault, deletion or crash | finding: of two overlapping prompts the later save removes the answered turn of the other |
| `proxy` | gateway: 3 protocols, every message of up to 2 parts of 2 chunks and 2 of 3 parts, every stop reason; requests: 3 protocols, conversations of up to 3 parts, 7 sets of options; tokens: 2 processes, 3 requests, all faults | complete answers arrive over every path, with their texts, calls and as much of the stop reason as the code tells, cut ones invent nothing, streams are well formed, the handler answers and reports once; what is sent says what was asked, turn by turn, and only the client's own mistakes refuse a request; one process never spends a refresh token twice, the newest tokens stay in reach, an overtaken process does not overwrite them |
| `portable_lost` | the requests of `proxy` | finding: error results and stop sequences are dropped without a refusal |
| `model_stream` | 2 clients, 5 ways to cut up calls, 7 messages of up to 3 parts of 2 pieces | an accepted message is whole unless an error came without its object, a failure has a cause, the loop leaves and the goroutines end |

Bounds. Two calls or prompts are enough for every pairwise race: the code's shared
maps are touched one entry at a time, and `closePending` has to meet two entries to
hold the lock across a blocked send. A channel of one stands for any capacity when it
can be both full and empty. One cancel, one closer and one deletion suffice because
each is idempotent in the code. Two turns let a turn inherit what the first left
behind. Three parts of an answer let reasoning, text and a call interleave and two parts two calls, two chunks let a fragment
be first or last; with three parts of a request a system text, a call and its result can meet in every
order the protocols allow. Two requests of one process and one of another are the smallest
instance with a race inside a process and one between processes; every request may refresh,
so the tokens are numbered up to three. In `session_store` the two prompts of one session, which
may overlap, have every fault, and the third prompt is there to be unaffected; that session may be
deleted, and the other may not.

`proxy` is one run of three modules because they share no variable and no property is about two of
them: interleaving them would multiply their states and show nothing. A behaviour moves one module
(`part`), and the properties of the other two hold in it trivially; since every initial state and
every step of each module is there for one value of `part`, an invariant holds in the run exactly if
it holds in the three modules alone.

Depth 2 stands for the code's limit of 4: an agent at the limit, one below it and one that starts
over are all there. Two servers let one fail while the other is connected, and three calls let a
tool be called after a delegation has come back.

Fairness. `acpclient_safety` needs none: `IdleMeansReturned` says that a client in which no
goroutine can take a step and whose agent says no more holds no call, and every goroutine's steps
are finite. The finding `acpclient_eof_hangs` does assume fairness, so that its counterexample is
not merely a system that has stopped. `AcpServer` and `AgentTurn` assume that a goroutine that can
take a step does (weak fairness: the Go scheduler) and that a model's stream goes on or ends.
`ToolCalls` assumes it of the prompt's goroutine, of timers and of os/exec, which kills and reaps;
MCP servers, models, commands and what they leave behind may be silent or run for ever. Nothing is
assumed of users, closers, cancels, crashes or deltas. `ModelStream` is weaker: some
goroutine that can go on does, and what came before the end of a connection is read; an open
connection may be silent for ever, except that a provider that has sent its last event ends
its response. `SessionStore`, `Gateway`, `RequestCodec` and `TokenStore` state safety only and
assume no fairness. Where Go's select may pick either of
two ready cases, fairness is on the select and not on a case.

Runs say `CHECK_DEADLOCK FALSE` since every one of these systems may stop: all calls have
returned, the request is answered, the client is silent.

## Findings

* `closePending` (acp/client.go:317-327) can block for ever on the full channel of a call
  that has its answer, holding the lock that call needs to leave.
* `ReceiveSessionUpdates` promises a channel closed by the reader's end; `Close` closes it
  earlier and a late update panics.
* A `session/cancel` right behind its `session/prompt` may be lost: the reading goroutine handles it
  before the prompt's goroutine has entered its cancel function (acp/server.go:96, 168). The deferred
  `clearCancel` of a prompt loses a cancel as well, since it deletes the entry of whichever prompt of
  the session is there (acp/server.go:331); that is why `CancelReachesOnlyPrompt` is about prompts
  that have not overlapped, and `CancelReachesActivePrompt`, which fails, is not.
* `events` is to be append-only (docs/AGENT_LOOP_ROADMAP.md:34), but every save writes the whole file
  from one prompt's copy: of two overlapping prompts of a session, the later save removes the turn
  that the earlier one has answered (session/session.go:206), without any failure.
  `AnsweredInTurnIsRecorded` is what holds for sessions prompted one turn at a time.
* Error results and stop sequences are listed as portable, and what is not is to be refused
  (docs/PROXY_ARCHITECTURE.md:143-151); `is_error` is dropped towards chat and Responses and `stop`
  towards Responses, without a refusal or a diagnostic. `RequestCarried` is what holds, and erases
  both; `PortableIsCarried` is what the document says.

Facts met while modelling that no run states:

* Turns. A cancelled prompt is answered with an error and not with `StopCancelled`
  (agent/manager.go:315, acp/README.md:238-239). MCP tools ignore the prompt's context
  (tools/mcp.go:97). A deleted session comes back when a running prompt saves
  (agent/manager.go:400). A save that a crash or a full disk cuts behind its truncation loses every
  turn of the session, answered ones too, and no copy is kept (session/session.go:206). The error of
  the save after a failed loop is dropped (agent/manager.go:314): the client has then seen what no
  file holds. A sink that fails between a call and its result (agent/agent.go:148), or a call without
  an id (112), leaves a call open in the session, and so in every later request to the model; that
  turn is answered with an error. A sink that fails makes the loop leave the stream's channel
  undrained (agent/agent.go:88).
* Tools. The servers of a prompt's agent, and of each agent it delegates to, are started anew and
  never closed (tools/mcp.go:183 is called by nothing); those of an agent that turns out to name an
  unknown tool stay too (agent/manager.go:120). After a cancel the calls of the response still run,
  MCP servers that they need included. exec reports a timeout for a command that has ended well if
  a process it left behind holds the output past the deadline, and then waits for that process
  however long it takes (tools/exec.go:98-100).
* In-process transport. When the server stops at a line that is too long it does not close the end
  it reads from: the client's next write to that pipe waits for ever (acp/inprocess.go:13-17).
* ACP client. A notification handler that makes a call on the client waits for itself
  (acp/client.go:156); none in the repository does.
* Model streams. The openai client may report a cancelled stream as a failed one, since its
  `sendError` does not ask the context; a provider that omits `[DONE]` is reported as failed.
  The adapter of the anthropic client ignores the context, an `error` event without an error
  object ends the stream silently, so that the loop accepts what had come of the message
  (anthropic/openai.go:265-269), and an empty message is an error there but accepted from
  the openai client. After a failed sink or a provider's error the goroutines and the
  connection stay until the context ends, which the server never brings about
  (acp/server.go:167).
* Responses through the proxy. Reasoning of a Responses stream is dropped by its decoder
  (proxy/codec/stream.go:176) and reasoning of a chat document by `decodeChatResponse`. A
  Responses text delta without a content part, as in proxy/native_test.go:34, is lost from the
  collected response (proxy/codec/stream.go:207). A content filter is told to chat clients only, and
  a failed or cancelled Responses document is told to others as an ordinary end
  (proxy/codec/response.go:460-511). A call without arguments is written as null, or not at all, in a
  document (stream.go:575, response.go:131). A cut upstream stream ends as a normal stop, so that
  it looks complete (stream.go:235, 399). The input tokens of a
  Responses stream never reach an Anthropic client, whose protocol reports them first
  (docs/PROXY_ARCHITECTURE.md:191-193, proxy/codec/stream.go:598-634).
* Requests through the proxy. `strict` is dropped towards Anthropic. A chat
  tool message whose content is given in parts is read as empty (proxy/codec/request.go:486).
  Parallel calls of a Responses input become one assistant message each for a chat provider.
* Credentials. A process reads the file once: when another one rotates the token, it must be
  restarted, although "token refresh does not require restarting the proxy"
  (docs/PROXY_ARCHITECTURE.md:98-99). A failed save is not tried again. Saving drops the keys of
  the file that the store does not know. Where tokens do not rotate, saves of two processes
  may overlap and leave a mixture.

## Theorems

The theorems are about every value of the constants: any sets of calls, requests, sessions,
prompts, servers and agents, any capacity and any bound. Each rests on the one assumption that
its module declares (`ClientAssumption`, `ServerAssumption`, `TurnAssumption`, `StreamAssumption`,
`ToolAssumption`, `StoreAssumption`, `TokenAssumption`): bounds are numbers, a request belongs to a process and a prompt to a session,
and the value for "nothing" is none of the values it must be told from. `OptionsAssumption` of
`RequestCodec` says what the options of a request are. Only the credential stores
need a finite set, that of the requests, because their tokens are counted by it.

The invariants that the runs check are seldom inductive. Each component's proof module defines
`IInv`, which is, and proves in `Inductive` that it holds; there is one lemma for each part of it,
with a step for each action, or one for each action, and lemmas on sequences before them. Each
`IInv` held in TLC on the instance of its run before it was proved.

### ACP client

`AcpClientProofs` proves `TypeCorrect`. `TypeOK` is inductive as it stands; the proof takes
the actions in groups by the part of the state they change. It then proves `PendingCorrect`, `NoAnswerLost`, `ReaderRuns`, `UpdatesOrdered` and
`NobodyStranded`, which state the invariants `PendingIsInFlight`, `AnswerNotLost`,
`ReaderNotBlocked`, `UpdatesInOrder` and `NoStrandedCall` of the run `acpclient_safety`. That the
reader finds room for an answer, for instance, needs that no second answer to that call exists
anywhere, and that nobody else has put an error there. `IInv` says so:

* `CallInv`: a call has a result exactly when it is out of its select, and what reached the
  agent was sent without an error;
* `CloserInv`: one closer runs the body of the Once, it holds the lock in its loop, and the
  entry it works on stays in the map;
* `LinkInv`: whoever closes has seen the connection down, it stays down, and an error in a
  channel or a result means that;
* `AnswerInv`: an answer is in one place: once on the wire, with the reader, in its call's
  channel, or returned;
* `WireUpdates`, `SeenInOrder`: the updates on the wire are those after the last one handled,
  without a gap and in order, and what the subscriber sees is behind them;
* `BeforeInv`: an answer comes behind the updates that were sent before it.

It proves `IdleReturned`, the safety half of `IdleMeansReturned`: in a client whose goroutines are all
where their guards leave nothing to do, and whose agent says no more, every call has returned, but
those that an agent which is still there has not answered, and but for the deadlock of the finding `acpclient_eof_hangs` (`ClosingHangs`). The guards are spelled out
(`Idle`), where the run's property says ENABLED;
`UnderWay` is the part of the invariant it needs besides `IInv`: what has begun is somewhere.

Last it proves `Implements`, `Spec => RpcSpec`. `Register` starts a call,
`AgentAnswer` replies, `RemovePending` returns, the first of `CloseTransport` and `AgentExit` takes
the link down, and every other step is a stutter. `IInv` is what shows that a returned answer was
given and that an error means a broken connection.

### ACP server

`ServerProofs` proves `TypeCorrect` (`TypeOK` is inductive), `DispatcherRuns`
(`DispatcherNotBlocked`), `EntriesFresh` (`NoStaleEntries`), `ResponsesLast` (`ResponseIsLast`) and
`CancelsReach` (the action property `CancelReachesOnlyPrompt`). Its parts:

* `QueueInv`: a request that is still to be read is in the input once and has no goroutine;
* `SessionInv`: a prompt has its session from when it is sent;
* `CrossInv`, `AloneInv`: prompts of one session that are active together are `crossed`, and a prompt
  in flight that is not is the one entered in `cancelFuncs`, whichever prompts its session had
  before;
* `ReplyInv`: the client's answer to a call is in one place: in the input, with the reader, or in
  the call's channel, which is why the reader finds room for it;
* `OutputInv`: a request whose response has been written is past its handler.

The client is part of the model and gives two facts: it sends a request's frame once, and answers
each call of the server at most once. A client that answered twice could block the dispatcher.

### Agent turns

`AgentTurnProofs` proves `ContextWellFormed` (`RequestWellFormed`), `WholeResponses`
(`NoInterruptedResponse`), `Durable` (`EndTurnIsDurable`) and `ReplayExact` (`ReplayIsExact`), for any
number of turns, rounds, deltas and tools. Its parts:

* `TurnTypeOK`: the call at hand is one of the calls of the response while tools run;
* `WholeInv`: the history in memory, which any save may write, holds whole responses only;
* `ReplayInv`: unless something was lost, the client has been sent the events in memory, and
  outside a turn those in the file, but for the prompts, which it knows;
* `ProgressInv`, `DurableInv`: a turn gathers its prompt, its last response and its usage before it
  is answered, and what an answered turn has is in the last whole file and in what will replace it,
  so that no save that is cut, and no save that works, leaves a loadable file without it;
* `BrokenInv`: a turn that has left calls without results has failed, and is not answered with
  end_turn;
* `FileInv`, `ContextInv`: the file, and the history between tool calls, are `Good`: every call has
  its result, one each and in order, in the chat form and in the anthropic form, but for broken
  turns. While tools run the history is `Open`: the results of the first calls are there, of the
  others none.

The histories are read through three folds: without the notices, as replayed events, and as the
messages of an anthropic request. `Folding` proves, from the library's definition of `FoldLeft`, that
the fold of a sequence with one more element is the operator applied to the fold of the sequence
(`FoldAppend`), and an induction over sequences that takes a set instead of a predicate
(`EverySequence`). It has the operator as a constant; the proofs instantiate it once for each fold.
With it, the step lemmas say how one more message changes each of the three readings, and
inductions over the history show that leaving out the notices disturbs none of them.

### Model streams

`ModelStreamProofs` proves `FailuresHaveCauses` (`FailureHasCause`) and `AcceptedWhole`
(`AcceptedIsWhole`) for both clients, any messages, any number of pieces and all `Styles`. There is an
argument about control and one about data. The invariant `IInv` is the first:

* `FlowInv`: while the provider has not failed and the prompt is not cancelled, each event of the
  script is in one place and in order: merged, with a goroutine, or on the wire (`Unread`, `Held`,
  `Merged`), and no goroutine has left before the last one came to it (`Leaving`). That excludes
  that a select which finds the errors' channel ready loses events behind it;
* `CutInv`: after a failure that was no error without its object (`~mute`), what says that the
  response is over is nowhere, so the adapter does not close the channel without a failed chunk
  while the loop reads;
* `CleanInv`: the anthropic client makes no failed chunk of a cancel;
* `OutcomeInv`: how the loop has left, in these terms: an accepted builder is what the builder
  makes of the whole script, or there was an error without its object.

`ScriptAbsorbed` is the second, and knows no state: what the builder makes of the whole script is the
provider's message. It is an induction over the parts of the message, and in each part over its
pieces. `Says` relates a builder to a message of so many parts; a part that is no call adds its pieces
at the end (`PiecesAbsorbed`), the first fragment of a call finds no call with its id and opens one,
and the next ones find it by id or by an index that points at it (`CallAbsorbed`). Where calls come in
turns the induction is over rounds, and says how far each call has come and that each index points
at its own call (`RoundAbsorbed`, `RoundsAbsorbed`). Where they come whole it is over the calls of
the one chunk (`TogetherAbsorbed`). The proof shows what the builder relies on: ids of calls differ,
and a fragment without an id has either an index of its own call or, for providers that send none, the
call that index 0 was given last.

For these folds `Folding` has two more facts: a fold over a sequence in two halves (`FoldJoined`),
and that what each element preserves from prefix to prefix holds at the end (`FoldInvariant`), with one
set for each length of the prefix.

### Tools

`ToolCallsProofs` proves `TypeCorrect`, which contains the bound on the depth of delegation,
`OnlyUsable` (`OnlyUsableServersRun`) and `ExecTruth` (the action property `ExecTellsTheTruth`).

* `StackInv`: an agent's depth is its place in the stack, and every agent but the innermost waits
  for a call; that is why `Delegate`'s own check bounds the stack;
* `ConnectInv`: while an agent's servers are being connected, a server is one of those left, the
  one at hand, or one whose tools the agent has;
* `UsableInv`: an agent has an open connection to exactly the servers whose tools it has, and to
  the one it is connecting;
* `StoppedInv`, inductive alone: os/exec has killed the command only if its context is done, so a
  command that ended well and is reported as failed was cancelled.

### Session store

`SessionStoreProofs` proves `TurnsCorrect` (`TurnsInPlace`), `AnswersStay`
(`AnsweredInTurnIsRecorded`), `FilesReadable` (`ReadableUnlessSaving`) and `ListsComplete`
(`ListIsComplete`).

* `TurnInv`, `NewInv`, `LastInv`: files and copies hold whole turns of their session; what a
  prompt has still to record is in none of them; until it is answered its copy ends with its
  message, so that the answer comes behind it;
* `BornInv`, `AloneInv`: a session that is prompted was answered to the client, and two prompts of
  it at a time make it `shared`;
* `SaveInv`: between the halves of a save, that after a failed loop included (`rescuing`), the file is
  empty or gone unless the session is shared, so a save that is alone puts there what it has, or
  leaves a torn file if it is cut;
* `AnswerInv`: an answered turn is in every copy that may come to replace the file, which is what
  makes `AnsweredInTurnIsRecorded` inductive, although saves fail at either half and a failed turn is saved
  too;
* `ListInv`: a list has found, or has still to look at, what could be read all along.

### Credential stores

`ProxyProofs` proves `TypeCorrect`, `OthersInvalidate` (`OnlyOthersInvalidate`), `FileCorrect`
(`FileNeverRegresses`) and `LoginKept` (`LoginSurvives`).

* `CountInv`: the server has issued at most one token for each request that has been there, which
  bounds the tokens of `TypeOK`;
* `LockInv`: a store's lock is held by the request that refreshes, in a running process;
* `PlainInv`: until the server rotates, there is only the refresh token of the login;
* `LiveInv`, `HeldInv`: nobody has a later refresh token than the live one; only the last process
  to have refreshed has tokens to save, in one request;
* `OwnInv`: unless tokens were lost, a process that nobody has overtaken has the live token, and
  the file has it or will be given it.

### Proxy handler

`ServerProofs` proves `RequestsAnsweredOnce` (`AnsweredOnce`), for whatever messages, chunks, faults
and streams of a provider. `OneAnswer`, the invariant, says for each place of the handler what has
been written and called there: nothing before the provider is called; a 200 as soon as the answer is
one that is relayed or passed on, and no status while one is collected or read; and at the end one status,
the end hook called at most once, and called if the provider was. The proof does not look into the events.

### Streams of the proxy

`ServerProofs` proves `StreamWellFormed` (`StreamIsWellFormed`), for every message of a provider that
announces its content parts, any number of chunks, every order in which its protocol lets them come, every order in which the decoders
close open blocks, and every place where a stream may be cut. The invariant is `StreamInv`: while a
translated stream is relayed, `Streams` relates the three states in the middle, those of the provider,
the decoder, and the collector with what has been written:

* `LeftInv`: what the provider has still to send is the rest of each stage of its script, and what it
  has begun is in the order its protocol wants;
* `DecoderInv`, for each of the protocols: the decoder has opened a block for each part that it reads
  and that has begun, and the blocks it has open are those of the parts that have not ended
  (`AnthropicInv`); under indexes that it has given them by their keys (`ResponsesInv`, with
  `Indexed`: no key has two); or, for chat, all of them until the end (`ChatInv`);
* `Emitted`: what has been written is a well-formed beginning (`Tidy`), in which the blocks that
  the decoder has open are open, with the types that the collector has for them.

The decoder and the encoder meet only in the types of the blocks and the indexes of the
live ones, so the proof has one half for each, and not one case for each pair of protocols. One half
says which canonical events each of the three encoders may be given for the stream to stay tidy, one
lemma for each kind of event (`RunStart` to `RunDone`, and `RunStops`, which closes blocks in whatever
order comes). The other says that what a decoder makes of the next event, whichever
stage it is from, is such events (`AnthropicRelayed`, `ResponsesRelayed`, `ChatRelayed`). A document that is
rendered as a stream is an induction over its contents (`RenderWritten`), and `WholeStreamable`
shows that the response decoders make only contents it holds for. `EncodeAll` is a fold, and
`StreamFold` is its instance of `Folding`.

### Translation of requests

`ProxyProofs` proves `ConversationCarried` (`RequestCarried`) and `RefusalIsFromDecoding`
(`RefusalIsTheClients`), for conversations of any length and all options. What the code drops is not
claimed: whether a result is an error, stop sequences towards Responses, and where among the texts
of its turn a call is made. The state machine is the
smaller part. `RequestInv`, which `RequestInvariant` proves, is two things: `RequestTypes`, which says what a client puts
in a message of each role of its protocol (`Writable`), and `Translation`, by which what was sent is
what the decoder and the encoder make of the whole body, unless the decoder's diagnostics refuse it. That
the encoder refuses nothing that a decoder has made (`EncoderAccepts`) is what makes it inductive.

The larger part is about sequences, since each conversion goes through a conversation from
the first message to the last, and a message becomes none, one or several of the other protocol.
`Along` maps a sequence along a function to sequences and flattens what comes of it; its laws
(`AlongAppend`, for a sequence in two halves, for one `Along` after another) are proved from the
library's definition of `FlattenSeq`, by induction over sequences. On them rests the argument:

* a conversation is compared as `Transcript` has it: the system text, and the turns, a fold that
  joins what follows each other in a role (`TurnFold`, an instance of `Folding`);
* `SameSaid` relates two sequences of content that have the same texts and calls and the same
  results: an encoder may move a result before a text of the same message, and join texts;
* `Retells(f)`: `f` makes of a message messages of its role that say the same. Such a function leaves
  the turns as they are (`TurnsRetold`), whatever comes before and behind;
* `Writes(p, g)`: an encoder writes messages that the decoder of `p` reads without a diagnostic, with
  the same said. An encoder and then its decoder is a function that retells (`RewrittenRetells`);
* one lemma for each protocol shows that its encoder `Writes`. `ChatCarries` is the theorem of chat,
  which serves twice, since `ForHooks` (`HooksShown`) is that encoder. Anthropic's encoder is a fold as
  well, which merges messages of one role (`MessageFold`): it does not write message by message,
  and it is the fold's invariant that the turns of what it has are the turns of what it was given,
  and that the roles alternate;
* `Decoded`: what a decoder does not refuse is canonical. `OptionsCarried`: the options that an
  encoder writes are read as they were, but for those its protocol does not have.

### Model-checked only

Liveness, which is out of the prover's reach; `IdleMeansReturned` of the ACP client, which speaks of
ENABLED, and of which `IdleReturned` is the form that can be proved; and two invariants of
`Gateway`: `FaithfulDelivery` and `NothingInvented`. These say what a client reads from a stream that
has gone through a decoder, a collector and an encoder: its decoder's and its collector's state
come on top of the three that `StreamInv` relates, and the text of a part has to be followed,
chunk by chunk, through all of them, for nine pairs of protocols.

## Plan

1. Proofs: the data of the streams, on top of `StreamInv`.
2. `A2AStream`: the event channel of `a2a/acp`, whose client drops events when it is full, the last
   one included, and cannot read the list of agents its server sends (a2a/acp/client.go:54-60,
   server.go:45).
3. `AcpPair`: `AcpClient` and `AcpServer` over pipes where a write waits for its reader.

Not modelled, and why: configuration, skills, logging, the command line and the examples are
read-once files and terminal output without a protocol; JSON layout, names and wording are
data that no property tells apart; timeouts of HTTP clients are failures that may happen at
any time.

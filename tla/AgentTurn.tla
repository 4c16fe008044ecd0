------------------------------ MODULE AgentTurn ------------------------------
(***************************************************************************)
(* The turns of one session: Manager.Prompt (agent/manager.go), the loop   *)
(* Agent.Run (agent/agent.go) and the recording sink (agent/recording.go). *)
(*                                                                         *)
(* A turn loads the session file, appends the user's message, and asks the *)
(* model for responses until one of them calls no tool.  A response comes  *)
(* as a stream of deltas, merged by the message builder; its tool calls    *)
(* are run one after the other once the stream has closed.  The turn keeps *)
(* two histories: messages, what the model is sent, and events, what the   *)
(* client was sent and session/load replays.  Every event is recorded      *)
(* before it is sent.  The session is saved before the first request, at   *)
(* the end of the turn, and when the loop returns an error.  A save        *)
(* truncates the file before it writes it (os.WriteFile): one that fails   *)
(* or is cut short by a crash may leave a torn file, which no later turn   *)
(* can load.                                                               *)
(*                                                                         *)
(* The turns run one after the other (SessionStore has several at once).   *)
(* The events of texts and of thoughts are one kind.  A tool call is named *)
(* by its id, whose tool is given by KindOf; a session is "near its        *)
(* context window" when it has WarnAt messages.                            *)
(***************************************************************************)
EXTENDS Naturals, Sequences, FiniteSets, SequencesExt

CONSTANTS Ids,        \* tool call ids the model uses
          KindOf,     \* the kind of tool each of them calls
          MissingId,  \* whether the model may leave the id of a call out
          Failures,   \* what may fail, see AllFailures
          WarnAt,     \* messages from which the maintenance notice is added
          MaxTurns,   \* bound: prompts of the session
          MaxRounds,  \* bound: responses of a turn that call tools
          MaxDeltas,  \* bound: deltas of a response
          None        \* no id, no answer

\* "unknown": no such tool; "file": attach_file; "badFile": attach_file whose
\* result has neither data nor URI; "mcp": a tool of an MCP server.
Kinds == {"plain", "unknown", "file", "badFile", "mcp"}
AllFailures == {"useAgent", "save", "sink", "request", "stream", "cancel",
                "crash"}

ASSUME TurnAssumption ==
  /\ KindOf \in [Ids -> Kinds]
  /\ MissingId \in BOOLEAN
  /\ Failures \subseteq AllFailures
  /\ WarnAt \in Nat /\ MaxTurns \in Nat /\ MaxRounds \in Nat
  /\ MaxDeltas \in Nat
  /\ None \notin Ids \cup {"end_turn", "error"}

Turns == 1..MaxTurns

VARIABLES
  pc,         \* where the turn stands; "idle" between turns
  turn,       \* the number of the current or last turn
  msgs,       \* Session.Messages in memory
  events,     \* Session.Events in memory
  titled,     \* Session.Title in memory is set
  disk,       \* the session file, as the last whole save left it
  torn,       \* the file has been truncated and not written whole since
  round,      \* how many requests of this turn the model has been sent
  deltas,     \* how many deltas of this response have come
  text,       \* the builder holds text, other than thoughts
  calls,      \* the tool calls the builder holds
  next,       \* the index in calls of the call being run
  ctxDone,    \* the context of the prompt is cancelled
  answers,    \* per turn: the answer to session/prompt
  sent,       \* history: the updates the client was sent, until lossy
  broken,     \* history: the turns whose loop left its tool calls
  lossy       \* history: a crash, a failed save or a failed send has set the
              \* file and what the client saw apart

session == <<msgs, events, titled>>
file == <<disk, torn>>
builder == <<deltas, text, calls, next>>
history == <<broken, lossy>>
vars == <<pc, turn, session, file, round, builder, ctxDone, answers, sent,
          history>>

-----------------------------------------------------------------------------
(* Messages and events                                                     *)

\* "whole" is history: the stream of this response was not cut short.
Message(role, t) == [role |-> role, turn |-> t, calls |-> <<>>, id |-> None,
                     text |-> TRUE, whole |-> TRUE]
User(t) == Message("user", t)
Response(t, cs, txt, w) ==
  [Message("assistant", t) EXCEPT !.calls = cs, !.text = txt, !.whole = w]
ToolResult(t, i) == [Message("tool", t) EXCEPT !.id = i]
Notice(t) == Message("notice", t)

Event(kind, i) == [kind |-> kind, turn |-> turn, id |-> i]

\* A tool call's events carry its id and stand for what they show of it.
CallEvent(kind) == Event(kind, calls[next])

Session == [msgs |-> msgs, events |-> events, titled |-> titled]
NewSession == [msgs |-> <<>>, events |-> <<>>, titled |-> FALSE]

\* AppendContextMaintenanceNotice: earlier notices go, one is added at the
\* end when the remaining messages come near the context window.
LeaveOut(out, m) == IF m.role = "notice" THEN out ELSE Append(out, m)
WithoutNotices(ms) == FoldLeft(LeaveOut, <<>>, ms)

WithNotice(ms) ==
  LET rest == WithoutNotices(ms)
  IN IF Len(rest) >= WarnAt THEN Append(rest, Notice(turn)) ELSE rest

\* What the anthropic client makes of the messages: uses are the calls of an
\* assistant's message, results the calls whose results a user's message holds;
\* results that follow one another go into one message, system messages go
\* elsewhere, a response of thoughts only is left out.
Blocks(m, uses, results) ==
  [role |-> IF m.role = "assistant" THEN "assistant" ELSE "user",
   turn |-> m.turn, uses |-> uses, results |-> results]

ToolResultsOnly(m) == m.role = "user" /\ m.results # <<>>

Convert(out, m) ==
  CASE m.role = "notice" \/ (m.role = "assistant" /\ ~m.text /\ m.calls = <<>>)
         -> out
    [] m.role = "tool" ->
         IF out # <<>> /\ ToolResultsOnly(Last(out))
         THEN [out EXCEPT ![Len(out)].results = Append(@, m.id)]
         ELSE Append(out, Blocks(m, <<>>, <<m.id>>))
    [] OTHER -> Append(out, Blocks(m, m.calls, <<>>))

AnthropicRequest(ms) == FoldLeft(Convert, <<>>, ms)

\* MessageBuilder.Update: a delta of a call already held, or one without an
\* id when a call is held, extends that call.
Merge(cs, i) ==
  IF (i = None /\ cs # <<>>) \/ \E k \in 1..Len(cs) : cs[k] = i
  THEN cs
  ELSE Append(cs, i)

Init ==
  /\ pc = "idle"
  /\ turn = 0
  /\ msgs = <<>> /\ events = <<>> /\ titled = FALSE
  /\ disk = NewSession /\ torn = FALSE
  /\ round = 0
  /\ deltas = 0 /\ text = FALSE /\ calls = <<>> /\ next = 1
  /\ ctxDone = FALSE
  /\ answers = [t \in Turns |-> None]
  /\ sent = <<>>
  /\ broken = {}
  /\ lossy = FALSE

\* The client is sent an update.
Send(event) ==
  sent' = (IF lossy THEN sent ELSE Append(sent, event)) /\ UNCHANGED lossy

\* From here on the file and what the client saw are not compared.
Apart == lossy' = TRUE /\ sent' = <<>>

\* The recording sink appends the event, then the ACP sink sends it; the turn
\* goes on to `then`, or to `failing` if the send fails.
Emit(event, then, failing) ==
  /\ events' = Append(events, event)
  /\ \/ Send(event) /\ pc' = then
     \/ "sink" \in Failures /\ Apart /\ pc' = failing

\* The same inside the loop over tool calls: the turn that fails leaves the
\* calls that are still to be answered.
EmitOrBreak(event, then) ==
  /\ Emit(event, then, "failed")
  /\ broken' = IF pc' = "failed" THEN broken \cup {turn} ELSE broken

\* The handler returns: the session in memory and its builder are gone.
Return ==
  /\ pc' = "idle"
  /\ msgs' = <<>> /\ events' = <<>> /\ titled' = FALSE
  /\ deltas' = 0 /\ text' = FALSE /\ calls' = <<>> /\ next' = 1
  /\ round' = 0
  /\ ctxDone' = FALSE

Answer(a) == answers' = [answers EXCEPT ![turn] = a] /\ Return

\* A save writes the file, or fails before it opens it, or after.
Saved(f) == disk' = f /\ torn' = FALSE
NotSaved == "save" \in Failures /\ torn' \in {torn, TRUE} /\ UNCHANGED disk

-----------------------------------------------------------------------------
(* Manager.Prompt up to the loop                                           *)

\* The file cannot be loaded.
PromptUnloaded ==
  /\ pc = "idle"
  /\ turn < MaxTurns
  /\ torn
  /\ turn' = turn + 1
  /\ answers' = [answers EXCEPT ![turn'] = "error"]
  /\ UNCHANGED <<pc, session, file, round, builder, ctxDone, sent, history>>

Prompt ==
  /\ pc = "idle"
  /\ turn < MaxTurns
  /\ ~torn
  /\ turn' = turn + 1
  /\ msgs' = Append(disk.msgs, User(turn'))
  /\ events' = Append(disk.events,
                      [kind |-> "user", turn |-> turn', id |-> None])
  /\ titled' = disk.titled
  /\ pc' = "loaded"
  /\ UNCHANGED <<file, round, builder, ctxDone, answers, sent, history>>

UseAgentFails ==
  /\ pc = "loaded"
  /\ "useAgent" \in Failures
  /\ Answer("error")
  /\ UNCHANGED <<turn, file, sent, history>>

\* An untitled session takes its title from the first user message; if the
\* update cannot be sent the handler returns without saving.
AnnounceTitle ==
  /\ pc = "loaded"
  /\ ~titled
  /\ \/ /\ events' = Append(events, Event("info", None))
        /\ Send(Event("info", None))
        /\ titled' = TRUE
        /\ pc' = "saving"
        /\ UNCHANGED <<msgs, round, builder, ctxDone, answers>>
     \/ /\ "sink" \in Failures
        /\ Apart
        /\ Answer("error")
  /\ UNCHANGED <<turn, file, broken>>

KeepTitle ==
  /\ pc = "loaded"
  /\ titled
  /\ pc' = "saving"
  /\ UNCHANGED <<turn, session, file, round, builder, ctxDone, answers, sent,
                 history>>

SavePrompt ==
  /\ pc = "saving"
  /\ \/ /\ Saved(Session)
        /\ pc' = "request"
        /\ UNCHANGED <<session, round, builder, ctxDone, answers, sent, lossy>>
     \/ /\ NotSaved
        /\ Apart
        /\ Answer("error")
  /\ UNCHANGED <<turn, broken>>

-----------------------------------------------------------------------------
(* Agent.Run: the request and its stream                                   *)

\* A request under a cancelled context is not sent.
CreateStream ==
  /\ pc = "request"
  /\ ~ctxDone
  /\ pc' = "streaming"
  /\ round' = round + 1
  /\ deltas' = 0 /\ text' = FALSE /\ calls' = <<>> /\ next' = 1
  /\ UNCHANGED <<turn, session, file, ctxDone, answers, sent, history>>

CreateStreamFails ==
  /\ pc = "request"
  /\ ctxDone \/ "request" \in Failures
  /\ pc' = "failed"
  /\ UNCHANGED <<turn, session, file, round, builder, ctxDone, answers, sent,
                 history>>

\* Text or a thought, recorded and sent.
ContentDelta(thought) ==
  /\ pc = "streaming"
  /\ deltas < MaxDeltas
  /\ deltas' = deltas + 1
  /\ text' = (text \/ ~thought)
  /\ Emit(Event("text", None), "streaming", "failed")
  /\ UNCHANGED <<turn, msgs, titled, file, round, calls, next, ctxDone,
                 answers, broken>>

\* A delta with nothing but its role.
RoleDelta ==
  /\ pc = "streaming"
  /\ deltas < MaxDeltas
  /\ deltas' = deltas + 1
  /\ UNCHANGED <<pc, turn, session, file, round, text, calls, next, ctxDone,
                 answers, sent, history>>

CallDelta(i) ==
  /\ pc = "streaming"
  /\ deltas < MaxDeltas
  /\ round <= MaxRounds
  /\ deltas' = deltas + 1
  /\ calls' = Merge(calls, i)
  /\ UNCHANGED <<pc, turn, session, file, round, text, next, ctxDone, answers,
                 sent, history>>

\* A chunk that carries an error.
StreamError ==
  /\ pc = "streaming"
  /\ "stream" \in Failures
  /\ pc' = "failed"
  /\ UNCHANGED <<turn, session, file, round, builder, ctxDone, answers, sent,
                 history>>

\* The first delta gives the builder's message its role, so it is no longer
\* empty, whatever that delta held.
AcceptResponse(whole) ==
  IF deltas > 0
  THEN /\ msgs' = Append(msgs, Response(turn, calls, text, whole))
       /\ pc' = IF calls = <<>> THEN "usage" ELSE "tools"
  ELSE pc' = "failed" /\ UNCHANGED msgs

\* Mutant of StreamCloses: ctx.Err is not looked at after the loop.
StreamClosesUnchecked(whole) ==
  /\ pc = "streaming"
  /\ whole \/ ctxDone
  /\ AcceptResponse(whole)
  /\ UNCHANGED <<turn, events, titled, file, round, builder, ctxDone, answers,
                 sent, history>>

\* Mutant of StreamCloses: the stream waits for the model without looking at
\* the context.
StreamClosesDeaf(whole) ==
  /\ pc = "streaming"
  /\ whole
  /\ IF ctxDone THEN pc' = "failed" /\ UNCHANGED msgs
                ELSE AcceptResponse(whole)
  /\ UNCHANGED <<turn, events, titled, file, round, builder, ctxDone, answers,
                 sent, history>>

\* The channel is closed: at the end of the response, or, with the context
\* done, in the middle of it.
StreamCloses(whole) ==
  /\ pc = "streaming"
  /\ whole \/ ctxDone
  /\ IF ctxDone THEN pc' = "failed" /\ UNCHANGED msgs
                ELSE AcceptResponse(whole)
  /\ UNCHANGED <<turn, events, titled, file, round, builder, ctxDone, answers,
                 sent, history>>

-----------------------------------------------------------------------------
(* Agent.Run: the tool calls of a response                                 *)

ToolCallStart ==
  /\ pc = "tools"
  /\ IF calls[next] = None
     THEN /\ pc' = "failed"
          /\ broken' = broken \cup {turn}
          /\ UNCHANGED <<events, sent, lossy>>
     ELSE EmitOrBreak(CallEvent("tool_call"), "running")
  /\ UNCHANGED <<turn, msgs, titled, file, round, builder, ctxDone, answers>>

\* The file a tool attaches is emitted; an error of the sink, like a file with
\* neither data nor URI, only becomes the tool's result.
AttachFile == Emit(CallEvent("file"), "ran", "ran")

\* The tool runs.
ToolRun ==
  /\ pc = "running"
  /\ IF KindOf[calls[next]] = "file"
     THEN AttachFile
     ELSE pc' = "ran" /\ UNCHANGED <<events, sent, lossy>>
  /\ UNCHANGED <<turn, msgs, titled, file, round, builder, ctxDone, answers,
                 broken>>

\* Mutant of ToolCallDone: the loop leaves when the context is cancelled,
\* without the results of the remaining calls.
ToolCallDoneStops ==
  /\ pc = "ran"
  /\ Emit(CallEvent("tool_call_update"),
          IF next = Len(calls) THEN "request"
          ELSE IF ctxDone THEN "failed" ELSE "tools", "failed")
  /\ msgs' = Append(msgs, ToolResult(turn, calls[next]))
  /\ next' = IF next = Len(calls) THEN 1 ELSE next + 1
  /\ UNCHANGED <<turn, titled, file, round, deltas, text, calls, ctxDone,
                 answers, broken>>

ToolCallDone ==
  /\ pc = "ran"
  /\ EmitOrBreak(CallEvent("tool_call_update"),
                 IF next = Len(calls) THEN "request" ELSE "tools")
  /\ IF pc' = "failed"
     THEN UNCHANGED <<msgs, next>>
     ELSE /\ msgs' = Append(msgs, ToolResult(turn, calls[next]))
          /\ next' = IF next = Len(calls) THEN 1 ELSE next + 1
  /\ UNCHANGED <<turn, titled, file, round, deltas, text, calls, ctxDone,
                 answers>>

-----------------------------------------------------------------------------
(* The end of a turn                                                       *)

SendUsage ==
  /\ pc = "usage"
  /\ Emit(Event("usage", None), "finishing", "failed")
  /\ UNCHANGED <<turn, msgs, titled, file, round, builder, ctxDone, answers,
                 broken>>

\* What the save of this moment writes: the one that ends the turn comes after
\* the maintenance notice.
FileToSave == IF pc = "finishing"
              THEN [Session EXCEPT !.msgs = WithNotice(msgs)]
              ELSE Session

\* Mutant of Finish: an error of the save is not looked at.
FinishUnchecked ==
  /\ pc = "finishing"
  /\ Saved(FileToSave) \/ NotSaved
  /\ Answer("end_turn")
  /\ UNCHANGED <<turn, sent, history>>

\* The maintenance notice, then Done, which saves.
Finish ==
  /\ pc = "finishing"
  /\ \/ /\ Saved(FileToSave)
        /\ Answer("end_turn")
     \/ /\ NotSaved
        /\ msgs' = WithNotice(msgs)
        /\ pc' = "failed"
        /\ UNCHANGED <<events, titled, round, builder, ctxDone, answers>>
  /\ UNCHANGED <<turn, sent, history>>

\* Mutant of Fail: an error is answered without saving.
FailUnsaved ==
  /\ pc = "failed"
  /\ Answer("error")
  /\ UNCHANGED <<turn, file, sent, history>>

\* The loop has returned an error: Prompt saves what there is, whatever comes
\* of it, and answers with the error.
Fail ==
  /\ pc = "failed"
  /\ \/ Saved(Session) /\ UNCHANGED <<sent, lossy>>
     \/ NotSaved /\ Apart
  /\ Answer("error")
  /\ UNCHANGED <<turn, broken>>

\* LoadSession: session/load sends the client the events of the file.
Replay == disk.events

\* Those of them that the client was sent before: all but its own messages.
Show(out, e) == IF e.kind = "user" THEN out ELSE Append(out, e)
Updates(es) == FoldLeft(Show, <<>>, es)

-----------------------------------------------------------------------------
(* The client's cancel, and the end of the process                         *)

Cancel ==
  /\ "cancel" \in Failures
  /\ pc # "idle"
  /\ ~ctxDone
  /\ ctxDone' = TRUE
  /\ UNCHANGED <<pc, turn, session, file, round, builder, answers, sent,
                 history>>

\* The process may end in the middle of a save, or between a save and the
\* answer.
Crash ==
  /\ "crash" \in Failures
  /\ pc # "idle"
  /\ \/ UNCHANGED file
     \/ /\ pc \in {"saving", "finishing", "failed"}
        /\ Saved(FileToSave) \/ (torn' = TRUE /\ UNCHANGED disk)
  /\ Apart
  /\ Return
  /\ UNCHANGED <<turn, answers, broken>>

\* The ids a delta may name a call by.
DeltaIds == Ids \cup IF MissingId THEN {None} ELSE {}

Respond == \/ \E thought \in BOOLEAN : ContentDelta(thought)
           \/ RoleDelta
           \/ \E i \in DeltaIds : CallDelta(i)
           \/ StreamError
           \/ \E whole \in BOOLEAN : StreamCloses(whole)

Step == \/ UseAgentFails \/ AnnounceTitle \/ KeepTitle \/ SavePrompt
        \/ CreateStreamFails
        \/ ToolCallStart \/ ToolCallDone
        \/ SendUsage \/ Finish \/ Fail

Next == \/ Prompt \/ PromptUnloaded \/ Step \/ CreateStream \/ Respond
        \/ ToolRun \/ Cancel \/ Crash

Spec == Init /\ [][Next]_vars

\* The goroutine of the turn runs on.  The model need not answer a request nor
\* send anything, but the stream's goroutine closes the channel when the context
\* is done (openai/client.go:310-340).  A tool returns, save that the MCP client
\* does not pass the context on and waits for its server as long as that takes.
Fairness == /\ WF_vars(Step)
            /\ WF_vars(StreamCloses(FALSE))
            /\ WF_vars(ToolRun /\ KindOf[calls[next]] # "mcp")

FairSpec == Spec /\ Fairness

-----------------------------------------------------------------------------
(* Properties                                                              *)

\* The calls of the i-th message are followed at once by their results, one
\* each and in order.
Resolved(ms, i) ==
  \A k \in 1..Len(ms[i].calls) :
    /\ i + k <= Len(ms)
    /\ ms[i + k].role = "tool"
    /\ ms[i + k].id = ms[i].calls[k]

\* The same of a request of the Messages protocol, where the results of all the
\* calls of a message make up the next one.
Paired(bs, i) ==
  /\ bs[i].uses # <<>> => i < Len(bs) /\ bs[i + 1].results = bs[i].uses
  /\ bs[i].results # <<>> => i > 1 /\ bs[i].results = bs[i - 1].uses

\* The context the model is sent is well formed, as a chat request and as what
\* the anthropic client makes of it: cancels, broken streams, failed saves and
\* crashes leave no call without its results.  Two things do, and their turns
\* are excused: a sink that fails between a call and its result, and a model
\* that leaves out a call's id (Agent.Run, agent.go:111-151).  Such a turn is
\* never answered with end_turn, but its open calls stay in the session, and in
\* every later request.
RequestWellFormed ==
  pc = "request" =>
    LET bs == AnthropicRequest(msgs)
        excused(t) == t \in broken /\ answers[t] # "end_turn"
    IN /\ \A i \in 1..Len(msgs) : Resolved(msgs, i) \/ excused(msgs[i].turn)
       /\ \A i \in 1..Len(bs) : Paired(bs, i) \/ excused(bs[i].turn)

\* A response whose stream was cut short is never saved ("interrupted response
\* was saved", agent_loop_test.go:57), whenever the cancel comes.
NoInterruptedResponse ==
  \A i \in 1..Len(disk.msgs) : disk.msgs[i].whole

\* Once session/prompt is answered with end_turn, the file has the prompt, a
\* response that calls nothing and the end of the turn's events whenever it can
\* be loaded: no failed save is answered with end_turn, and no later turn, save
\* that fails at either half or crash leaves a loadable file without them
\* (recording.go:73, Done).  A later save that is cut after the truncation may
\* take the whole file, with every turn in it: the code keeps no copy.
EndTurnIsDurable ==
  ~torn => \A t \in Turns : answers[t] = "end_turn" =>
    /\ \E i, j \in 1..Len(disk.msgs), txt \in BOOLEAN :
         /\ i < j
         /\ disk.msgs[i] = User(t)
         /\ disk.msgs[j] = Response(t, <<>>, txt, TRUE)
    /\ \E i \in 1..Len(disk.events) :
         disk.events[i] = [kind |-> "usage", turn |-> t, id |-> None]

\* Between turns, session/load replays exactly what the client was sent, with
\* the user's messages in between, failed turns included
\* (docs/AGENT_LOOP_ROADMAP.md:30, "for exact replay"), until a crash, an
\* error answered without a save or a failed send sets the two apart.
ReplayIsExact ==
  pc = "idle" /\ ~lossy =>
    Updates(Replay) = sent

\* A cancelled prompt comes to an end (acp/README.md:238), unless it waits for
\* an MCP server.
CancelEndsTurn ==
  ctxDone ~> \/ pc = "idle"
             \/ pc = "running" /\ KindOf[calls[next]] = "mcp"

=============================================================================

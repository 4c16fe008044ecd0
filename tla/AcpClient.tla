------------------------------ MODULE AcpClient ------------------------------
(***************************************************************************)
(* The JSON-RPC client of acp/client.go.                                   *)
(*                                                                         *)
(* Goroutines: one per call (sendRecv), the reader (readLoop), one per     *)
(* user of Close, one handler per request of the agent, and the watcher    *)
(* that ReceiveSessionUpdates starts.  They share the map `pending` of     *)
(* response channels of capacity one, its mutex, the channel `closed` that *)
(* is only ever closed, and closeOnce.                                     *)
(*                                                                         *)
(* A call is named by the id that sendRecv draws from the atomic counter.  *)
(* pendingMu is a variable because closePending keeps it while it sends;   *)
(* everywhere else it is taken and given back without blocking in between, *)
(* so those critical sections are single steps.  Sends on the transport    *)
(* are single steps and are serialised by that (writeMu).                  *)
(*                                                                         *)
(* A channel operation follows Go's rules: a value sent to a goroutine     *)
(* that is parked in a select is handed to it and never enters the buffer; *)
(* close wakes every parked receiver with the closed case; a select that   *)
(* finds both cases ready takes either.                                    *)
(***************************************************************************)
EXTENDS Naturals, Sequences

CONSTANTS Calls,          \* calls, each named by its request id
          Served,         \* the calls the agent answers
          Asks,           \* requests the agent makes of the client
          CloseCallers,   \* goroutines that call Client.Close
          Reader,         \* the readLoop goroutine
          None,           \* no value: an empty buffer, a free mutex
          MaxUpdates,     \* bound: session/update notifications the agent sends
          UpdateCap,      \* capacity of the updates channel (64 in the code)
          AgentExits      \* when the agent may end on its own: "never", "ever"

ASSUME ClientAssumption ==
  /\ Served \subseteq Calls
  /\ Reader \notin CloseCallers
  /\ None \notin Calls \cup CloseCallers
                \cup {Reader, "answer", "closed", "writeError"}
  /\ MaxUpdates \in Nat
  /\ UpdateCap \in Nat \ {0}
  /\ AgentExits \in {"never", "ever"}

VARIABLES
  callPc,        \* per call: where its goroutine stands in sendRecv
  outcome,       \* per call: what sendRecv returns
  pending,       \* the ids in Client.pending
  respCh,        \* per call: the content of its channel of capacity one
  pendingMu,     \* who holds pendingMu across steps
  closed,        \* Client.closed is closed
  closeOnce,     \* the sync.Once of closePending
  closePc,       \* per closer: where it stands in Close and closePending
  closeTarget,   \* the entry that closePending is sending its error to
  readerPc,      \* where readLoop stands
  readerTarget,  \* the call whose channel handleFrame is about to send on
  subscribed,    \* ReceiveSessionUpdates has installed its handler
  updates,       \* the buffered session updates
  updatesClosed, \* the updates channel is closed
  consumed,      \* history: the updates its reader has received
  handled,       \* history: how many notifications handleFrame has handled
  panicked,      \* the process died of a send on a closed channel
  askPc,         \* per agent request: unsent, on the wire, handled, answered
  stdinOpen,     \* the transport to the agent is open
  agentUp,       \* the agent still has its stdout open
  requested,     \* the calls whose request reached the agent
  answered,      \* the calls the agent has answered
  sentUpdates,   \* how many updates the agent has sent
  sentBefore,    \* history: per answered call, sentUpdates at its answer
  wire           \* frames from the agent that Recv has not returned yet

callVars == <<callPc, outcome, pending, respCh>>
closeVars == <<pendingMu, closed, closeOnce, closePc, closeTarget>>
readerVars == <<readerPc, readerTarget>>
updateVars ==
  <<subscribed, updates, updatesClosed, consumed, handled, panicked>>
agentVars == <<stdinOpen, agentUp, requested, answered, sentUpdates,
               sentBefore>>
vars == <<callVars, closeVars, readerVars, updateVars, askPc, agentVars, wire>>

Closers == CloseCallers \cup {Reader}

Answer(c) == [kind |-> "answer", id |-> c]
Update(n) == [kind |-> "update", id |-> n]
Ask(r) == [kind |-> "ask", id |-> r]

Frames == [kind : {"answer"}, id : Calls]
            \cup [kind : {"update"}, id : 1..MaxUpdates]
            \cup [kind : {"ask"}, id : Asks]

CallPcs == {"idle", "registered", "selecting", "parked", "leaving", "done"}
Outcomes == {None, "answer", "closed", "writeError"}
ClosePcs == {"idle", "once", "lock", "loop", "done"}

Init ==
  /\ callPc = [c \in Calls |-> "idle"]
  /\ outcome = [c \in Calls |-> None]
  /\ pending = {}
  /\ respCh = [c \in Calls |-> None]
  /\ pendingMu = None
  /\ closed = FALSE
  /\ closeOnce = "fresh"
  /\ closePc = [k \in Closers |-> "idle"]
  /\ closeTarget = None
  /\ readerPc = "recv"
  /\ readerTarget = None
  /\ subscribed = FALSE
  /\ updates = <<>>
  /\ updatesClosed = FALSE
  /\ consumed = <<>>
  /\ handled = 0
  /\ panicked = FALSE
  /\ askPc = [r \in Asks |-> "unsent"]
  /\ stdinOpen = TRUE
  /\ agentUp = TRUE
  /\ requested = {}
  /\ answered = {}
  /\ sentUpdates = 0
  /\ sentBefore = [c \in Calls |-> 0]
  /\ wire = <<>>

-----------------------------------------------------------------------------
(* Channels of capacity one.                                               *)

\* A send on c's channel can proceed: its receiver is parked or it has room.
CanSend(c) == callPc[c] = "parked" \/ respCh[c] = None

\* Mutant of SendTo: an unbuffered channel with a select default.
SendToUnbuffered(c, v) ==
  \/ /\ callPc[c] = "parked"
     /\ outcome' = [outcome EXCEPT ![c] = v]
     /\ callPc' = [callPc EXCEPT ![c] = "leaving"]
     /\ UNCHANGED respCh
  \/ /\ callPc[c] # "parked"
     /\ UNCHANGED <<callPc, outcome, respCh>>

\* The effect of sending v on c's channel.
SendTo(c, v) ==
  \/ /\ callPc[c] = "parked"
     /\ outcome' = [outcome EXCEPT ![c] = v]
     /\ callPc' = [callPc EXCEPT ![c] = "leaving"]
     /\ UNCHANGED respCh
  \/ /\ callPc[c] # "parked"
     /\ respCh' = [respCh EXCEPT ![c] = v]
     /\ UNCHANGED <<callPc, outcome>>

-----------------------------------------------------------------------------
(* sendRecv                                                                *)

\* The id is drawn and its channel registered before anything is sent.
Register(c) ==
  /\ callPc[c] = "idle"
  /\ pendingMu = None
  /\ pending' = pending \cup {c}
  /\ callPc' = [callPc EXCEPT ![c] = "registered"]
  /\ UNCHANGED <<outcome, respCh, closeVars, readerVars, updateVars, askPc,
                 agentVars, wire>>

\* The request reaches the agent, or is written to an agent that is gone.
SendRequest(c) ==
  /\ callPc[c] = "registered"
  /\ stdinOpen
  /\ requested' = IF agentUp THEN requested \cup {c} ELSE requested
  /\ callPc' = [callPc EXCEPT ![c] = "selecting"]
  /\ UNCHANGED <<outcome, pending, respCh, closeVars, readerVars, updateVars,
                 askPc, stdinOpen, agentUp, answered, sentUpdates, sentBefore,
                 wire>>

\* Mutant of SendFails: returns without the deferred removePending.
SendFailsLeaks(c) ==
  /\ callPc[c] = "registered"
  /\ ~stdinOpen \/ ~agentUp
  /\ outcome' = [outcome EXCEPT ![c] = "writeError"]
  /\ callPc' = [callPc EXCEPT ![c] = "done"]
  /\ UNCHANGED <<pending, respCh, closeVars, readerVars, updateVars, askPc,
                 agentVars, wire>>

\* transport.Send fails and sendRecv returns at once.
SendFails(c) ==
  /\ callPc[c] = "registered"
  /\ ~stdinOpen \/ ~agentUp
  /\ outcome' = [outcome EXCEPT ![c] = "writeError"]
  /\ callPc' = [callPc EXCEPT ![c] = "leaving"]
  /\ UNCHANGED <<pending, respCh, closeVars, readerVars, updateVars, askPc,
                 agentVars, wire>>

\* The select finds the response channel ready.
SelectResponse(c) ==
  /\ callPc[c] = "selecting"
  /\ respCh[c] # None
  /\ outcome' = [outcome EXCEPT ![c] = respCh[c]]
  /\ respCh' = [respCh EXCEPT ![c] = None]
  /\ callPc' = [callPc EXCEPT ![c] = "leaving"]
  /\ UNCHANGED <<pending, closeVars, readerVars, updateVars, askPc, agentVars,
                 wire>>

\* Mutant of SelectClosed: the second case is ready at any time.
SelectGivesUp(c) ==
  /\ callPc[c] = "selecting"
  /\ outcome' = [outcome EXCEPT ![c] = "closed"]
  /\ callPc' = [callPc EXCEPT ![c] = "leaving"]
  /\ UNCHANGED <<pending, respCh, closeVars, readerVars, updateVars, askPc,
                 agentVars, wire>>

\* The select finds the client closed.
SelectClosed(c) ==
  /\ callPc[c] = "selecting"
  /\ closed
  /\ outcome' = [outcome EXCEPT ![c] = "closed"]
  /\ callPc' = [callPc EXCEPT ![c] = "leaving"]
  /\ UNCHANGED <<pending, respCh, closeVars, readerVars, updateVars, askPc,
                 agentVars, wire>>

\* Mutant of Park: a receive from the response channel alone.
ParkOnResponse(c) ==
  /\ callPc[c] = "selecting"
  /\ respCh[c] = None
  /\ callPc' = [callPc EXCEPT ![c] = "parked"]
  /\ UNCHANGED <<outcome, pending, respCh, closeVars, readerVars, updateVars,
                 askPc, agentVars, wire>>

\* The select finds neither case ready.
Park(c) ==
  /\ callPc[c] = "selecting"
  /\ respCh[c] = None
  /\ ~closed
  /\ callPc' = [callPc EXCEPT ![c] = "parked"]
  /\ UNCHANGED <<outcome, pending, respCh, closeVars, readerVars, updateVars,
                 askPc, agentVars, wire>>

\* The deferred removePending, after which sendRecv returns.
RemovePending(c) ==
  /\ callPc[c] = "leaving"
  /\ pendingMu = None
  /\ pending' = pending \ {c}
  /\ callPc' = [callPc EXCEPT ![c] = "done"]
  /\ UNCHANGED <<outcome, respCh, closeVars, readerVars, updateVars, askPc,
                 agentVars, wire>>

-----------------------------------------------------------------------------
(* readLoop and handleFrame                                                *)

\* A response: the channel is looked up under pendingMu, sent on without it.
RecvAnswer ==
  /\ readerPc = "recv"
  /\ wire # <<>>
  /\ Head(wire).kind = "answer"
  /\ pendingMu = None
  /\ wire' = Tail(wire)
  /\ IF Head(wire).id \in pending
       THEN /\ readerPc' = "deliver"
            /\ readerTarget' = Head(wire).id
       ELSE UNCHANGED readerVars
  /\ UNCHANGED <<callVars, closeVars, updateVars, askPc, agentVars>>

Deliver ==
  /\ readerPc = "deliver"
  /\ CanSend(readerTarget)
  /\ SendTo(readerTarget, "answer")
  /\ readerPc' = "recv"
  /\ readerTarget' = None
  /\ UNCHANGED <<pending, closeVars, updateVars, askPc, agentVars, wire>>

\* Mutant of SessionUpdate: a channel without bound.
SessionUpdateUnbounded(n) ==
  /\ IF subscribed /\ ~updatesClosed
       THEN updates' = Append(updates, n)
       ELSE UNCHANGED updates
  /\ panicked' = (subscribed /\ updatesClosed)

\* The subscriber's handler drops the update when the channel is full, and
\* panics when it is closed.
SessionUpdate(n) ==
  /\ IF subscribed /\ ~updatesClosed /\ Len(updates) < UpdateCap
       THEN updates' = Append(updates, n)
       ELSE UNCHANGED updates
  /\ panicked' = (subscribed /\ updatesClosed)

\* Mutant of RecvUpdate: notifications are put off behind later frames.
RecvUpdateLater ==
  /\ readerPc = "recv"
  /\ wire # <<>>
  /\ Head(wire).kind = "update"
  /\ wire' = Append(Tail(wire), Head(wire))
  /\ UNCHANGED <<callVars, closeVars, readerVars, updateVars, askPc, agentVars>>

\* A notification runs its handler on the reader.
RecvUpdate ==
  /\ readerPc = "recv"
  /\ wire # <<>>
  /\ Head(wire).kind = "update"
  /\ wire' = Tail(wire)
  /\ handled' = handled + 1
  /\ SessionUpdate(Head(wire).id)
  /\ UNCHANGED <<callVars, closeVars, readerVars, subscribed, updatesClosed,
                 consumed, askPc, agentVars>>

\* Mutant of RecvAsk: without a handler the request is ignored.
RecvAskIgnored ==
  /\ readerPc = "recv"
  /\ wire # <<>>
  /\ Head(wire).kind = "ask"
  /\ wire' = Tail(wire)
  /\ UNCHANGED <<callVars, closeVars, readerVars, updateVars, askPc, agentVars>>

\* A request of the agent gets a goroutine of its own.
RecvAsk ==
  /\ readerPc = "recv"
  /\ wire # <<>>
  /\ Head(wire).kind = "ask"
  /\ wire' = Tail(wire)
  /\ askPc' = [askPc EXCEPT ![Head(wire).id] = "handled"]
  /\ UNCHANGED <<callVars, closeVars, readerVars, updateVars, agentVars>>

\* handleRequest ends in one writeResponse or writeError; Send's error is
\* ignored.
AnswerAsk(r) ==
  /\ askPc[r] = "handled"
  /\ askPc' = [askPc EXCEPT ![r] = "answered"]
  /\ UNCHANGED <<callVars, closeVars, readerVars, updateVars, agentVars, wire>>

\* Recv returns an error once the agent is gone and all it wrote is read.
RecvEof ==
  /\ readerPc = "recv"
  /\ wire = <<>>
  /\ ~agentUp
  /\ readerPc' = "closing"
  /\ closePc' = [closePc EXCEPT ![Reader] = "once"]
  /\ UNCHANGED <<callVars, pendingMu, closed, closeOnce, closeTarget,
                 readerTarget, updateVars, askPc, agentVars, wire>>

-----------------------------------------------------------------------------
(* Close and closePending                                                  *)

\* Close closes the transport first.
CloseTransport(k) ==
  /\ closePc[k] = "idle"
  /\ stdinOpen' = FALSE
  /\ closePc' = [closePc EXCEPT ![k] = "once"]
  /\ UNCHANGED <<callVars, pendingMu, closed, closeOnce, closeTarget,
                 readerVars, updateVars, askPc, agentUp, requested, answered,
                 sentUpdates, sentBefore, wire>>

\* Mutant of CloseClosed: the channel is never closed.
CloseWithoutClosing(k) ==
  /\ closePc[k] = "once"
  /\ closeOnce = "fresh"
  /\ closeOnce' = "running"
  /\ closePc' = [closePc EXCEPT ![k] = "lock"]
  /\ UNCHANGED <<callVars, pendingMu, closed, closeTarget, readerVars,
                 updateVars, askPc, agentVars, wire>>

\* The first closer runs the body: close(c.closed) wakes every parked call.
CloseClosed(k) ==
  /\ closePc[k] = "once"
  /\ closeOnce = "fresh"
  /\ closeOnce' = "running"
  /\ closed' = TRUE
  /\ callPc' = [c \in Calls |-> IF callPc[c] = "parked" THEN "leaving"
                                ELSE callPc[c]]
  /\ outcome' = [c \in Calls |-> IF callPc[c] = "parked" THEN "closed"
                                 ELSE outcome[c]]
  /\ closePc' = [closePc EXCEPT ![k] = "lock"]
  /\ UNCHANGED <<pending, respCh, pendingMu, closeTarget, readerVars,
                 updateVars, askPc, agentVars, wire>>

\* Every other closer waits until the body has finished.
CloseAgain(k) ==
  /\ closePc[k] = "once"
  /\ closeOnce = "finished"
  /\ closePc' = [closePc EXCEPT ![k] = "done"]
  /\ UNCHANGED <<callVars, pendingMu, closed, closeOnce, closeTarget,
                 readerVars, updateVars, askPc, agentVars, wire>>

CloseLock(k) ==
  /\ closePc[k] = "lock"
  /\ pendingMu = None
  /\ pendingMu' = k
  /\ closePc' = [closePc EXCEPT ![k] = "loop"]
  /\ UNCHANGED <<callVars, closed, closeOnce, closeTarget, readerVars,
                 updateVars, askPc, agentVars, wire>>

\* The range over the map yields its next entry, in any order.
CloseNext(k) ==
  /\ closePc[k] = "loop"
  /\ closeTarget = None
  /\ \E c \in pending : closeTarget' = c
  /\ UNCHANGED <<callVars, pendingMu, closed, closeOnce, closePc, readerVars,
                 updateVars, askPc, agentVars, wire>>

\* The entry gets its error, when its channel takes it, and is deleted.
CloseSend(k) ==
  /\ closePc[k] = "loop"
  /\ closeTarget # None
  /\ CanSend(closeTarget)
  /\ SendTo(closeTarget, "closed")
  /\ pending' = pending \ {closeTarget}
  /\ closeTarget' = None
  /\ UNCHANGED <<pendingMu, closed, closeOnce, closePc, readerVars, updateVars,
                 askPc, agentVars, wire>>

CloseUnlock(k) ==
  /\ closePc[k] = "loop"
  /\ closeTarget = None
  /\ pending = {}
  /\ pendingMu' = None
  /\ closeOnce' = "finished"
  /\ closePc' = [closePc EXCEPT ![k] = "done"]
  /\ UNCHANGED <<callVars, closed, closeTarget, readerVars, updateVars, askPc,
                 agentVars, wire>>

-----------------------------------------------------------------------------
(* ReceiveSessionUpdates                                                   *)

\* Installs the handler and starts the watcher.
Subscribe ==
  /\ ~subscribed
  /\ subscribed' = TRUE
  /\ UNCHANGED <<callVars, closeVars, readerVars, updates, updatesClosed,
                 consumed, handled, panicked, askPc, agentVars, wire>>

\* The watcher closes the channel as soon as the client is closed.
WatchClosed ==
  /\ subscribed
  /\ closed
  /\ ~updatesClosed
  /\ updatesClosed' = TRUE
  /\ UNCHANGED <<callVars, closeVars, readerVars, subscribed, updates,
                 consumed, handled, panicked, askPc, agentVars, wire>>

\* The subscriber takes the oldest buffered update.
Consume ==
  /\ updates # <<>>
  /\ consumed' = Append(consumed, Head(updates))
  /\ updates' = Tail(updates)
  /\ UNCHANGED <<callVars, closeVars, readerVars, subscribed, updatesClosed,
                 handled, panicked, askPc, agentVars, wire>>

-----------------------------------------------------------------------------
(* The agent at the other end of the pipes.                                *)

\* The agent answers a call once, when it waits for no answer itself.
AgentAnswer(c) ==
  /\ agentUp
  /\ c \in (requested \cap Served) \ answered
  /\ \A r \in Asks : askPc[r] \in {"unsent", "answered"}
  /\ answered' = answered \cup {c}
  /\ sentBefore' = [sentBefore EXCEPT ![c] = sentUpdates]
  /\ wire' = Append(wire, Answer(c))
  /\ UNCHANGED <<callVars, closeVars, readerVars, updateVars, askPc, stdinOpen,
                 agentUp, requested, sentUpdates>>

AgentUpdate ==
  /\ agentUp
  /\ sentUpdates < MaxUpdates
  /\ sentUpdates' = sentUpdates + 1
  /\ wire' = Append(wire, Update(sentUpdates + 1))
  /\ UNCHANGED <<callVars, closeVars, readerVars, updateVars, askPc, stdinOpen,
                 agentUp, requested, answered, sentBefore>>

AgentAsk(r) ==
  /\ agentUp
  /\ askPc[r] = "unsent"
  /\ askPc' = [askPc EXCEPT ![r] = "wired"]
  /\ wire' = Append(wire, Ask(r))
  /\ UNCHANGED <<callVars, closeVars, readerVars, updateVars, agentVars>>

\* The agent ends when its stdin ends, or dies.
AgentExit ==
  /\ agentUp
  /\ \/ ~stdinOpen
     \/ AgentExits = "ever"
  /\ agentUp' = FALSE
  /\ UNCHANGED <<callVars, closeVars, readerVars, updateVars, askPc, stdinOpen,
                 requested, answered, sentUpdates, sentBefore, wire>>

-----------------------------------------------------------------------------

SendRecvStep(c) ==
  \/ SendRequest(c)
  \/ SendFails(c)
  \/ SelectResponse(c)
  \/ SelectClosed(c)
  \/ Park(c)
  \/ RemovePending(c)

ReadLoop ==
  \/ RecvAnswer
  \/ Deliver
  \/ RecvUpdate
  \/ RecvAsk
  \/ RecvEof

ClosePending(k) ==
  \/ CloseClosed(k)
  \/ CloseAgain(k)
  \/ CloseLock(k)
  \/ CloseNext(k)
  \/ CloseSend(k)
  \/ CloseUnlock(k)

Next ==
  /\ ~panicked
  /\ \/ \E c \in Calls : Register(c) \/ SendRecvStep(c) \/ AgentAnswer(c)
     \/ ReadLoop
     \/ \E r \in Asks : AnswerAsk(r) \/ AgentAsk(r)
     \/ \E k \in CloseCallers : CloseTransport(k)
     \/ \E k \in Closers : ClosePending(k)
     \/ Subscribe
     \/ WatchClosed
     \/ Consume
     \/ AgentUpdate
     \/ AgentExit

Spec == Init /\ [][Next]_vars

\* The Go scheduler runs every goroutine that can run; the agent keeps
\* answering.  Nothing makes anyone start a call, close or send an update.
Fairness ==
  /\ \A c \in Calls : WF_vars(~panicked /\ SendRecvStep(c))
  /\ \A c \in Calls : WF_vars(~panicked /\ AgentAnswer(c))
  /\ \A r \in Asks : WF_vars(~panicked /\ AnswerAsk(r))
  /\ \A k \in Closers : WF_vars(~panicked /\ ClosePending(k))
  /\ WF_vars(~panicked /\ ReadLoop)
  /\ WF_vars(~panicked /\ WatchClosed)

FairSpec == Spec /\ Fairness

-----------------------------------------------------------------------------
(* Properties                                                              *)

CallTypeOK ==
  /\ callPc \in [Calls -> CallPcs]
  /\ outcome \in [Calls -> Outcomes]
  /\ pending \subseteq Calls
  /\ respCh \in [Calls -> {None, "answer", "closed"}]

CloseTypeOK ==
  /\ pendingMu \in Closers \cup {None}
  /\ closed \in BOOLEAN
  /\ closeOnce \in {"fresh", "running", "finished"}
  /\ closePc \in [Closers -> ClosePcs]
  /\ closeTarget \in Calls \cup {None}

ReaderTypeOK ==
  /\ readerPc \in {"recv", "deliver", "closing"}
  /\ readerTarget \in Calls \cup {None}
  /\ wire \in Seq(Frames)

UpdateTypeOK ==
  /\ subscribed \in BOOLEAN
  /\ updates \in Seq(1..MaxUpdates)
  /\ Len(updates) <= UpdateCap
  /\ updatesClosed \in BOOLEAN
  /\ consumed \in Seq(1..MaxUpdates)
  /\ handled \in Nat
  /\ panicked \in BOOLEAN

AgentTypeOK ==
  /\ askPc \in [Asks -> {"unsent", "wired", "handled", "answered"}]
  /\ stdinOpen \in BOOLEAN
  /\ agentUp \in BOOLEAN
  /\ requested \subseteq Calls
  /\ answered \subseteq Calls
  /\ sentUpdates \in 0..MaxUpdates
  /\ sentBefore \in [Calls -> 0..MaxUpdates]

\* The types of the variables; the updates channel never holds more than its
\* capacity (client.go:468).
TypeOK ==
  /\ CallTypeOK
  /\ CloseTypeOK
  /\ ReaderTypeOK
  /\ UpdateTypeOK
  /\ AgentTypeOK

\* Client.pending holds exactly the calls inside sendRecv (client.go:89-92)
\* until the client closes, and never one that has returned: neither a
\* failed write nor a race with closePending leaks an entry.
PendingIsInFlight ==
  /\ \A c \in pending : callPc[c] \notin {"idle", "done"}
  /\ ~closed =>
       \A c \in Calls : callPc[c] \notin {"idle", "done"} => c \in pending

\* While the client is open an answer the agent gave is on the wire, held by
\* handleFrame, in its call's channel, or returned: it is never dropped as an
\* answer to an unknown id (client.go:172-177), however early it comes.
AnswerNotLost ==
  \A c \in answered : ~closed =>
    \/ \E i \in 1..Len(wire) : wire[i] = Answer(c)
    \/ readerPc = "deliver" /\ readerTarget = c
    \/ respCh[c] = "answer"
    \/ outcome[c] = "answer"

\* While the client is open, the send in handleFrame (client.go:176) never
\* finds the channel full: the reader cannot be held up by a slow caller.
ReaderNotBlocked ==
  ~closed /\ readerPc = "deliver" => CanSend(readerTarget)

\* The subscriber sees updates in the order the agent sent them, each at
\* most once, whatever the full buffer made the reader drop
\* (client.go:482-487); and a call that returns its answer returns after the
\* reader has handled every notification the agent sent before that answer:
\* "Prompt waits for the final PromptResponse", its updates have been passed
\* on by then (client.go:154-159 handles them on the reader, in order).
UpdatesInOrder ==
  LET seen == consumed \o updates IN
    /\ \A i, j \in 1..Len(seen) : i < j => seen[i] < seen[j]
    /\ \A c \in Calls : outcome[c] = "answer" => handled >= sentBefore[c]

\* Once closePending is through, no call waits in its select, not even one
\* that registered after closePending had emptied the map
\* (client.go:112-113, 317-327).
NoStrandedCall ==
  closeOnce = "finished" => \A c \in Calls : callPc[c] # "parked"

\* "The channel is closed when the reader encounters an error or EOF"
\* (client.go:464-466): the updates channel is not closed under a reader
\* that still delivers to it.
UpdatesClosedByReader ==
  updatesClosed => readerPc = "closing"

\* closePending keeps pendingMu while it waits for a channel that only a call
\* that waits for pendingMu could empty (client.go:322-325).
ClosingHangs ==
  \E c \in Calls : respCh[c] # None /\ closeTarget = c /\ callPc[c] = "leaving"

\* A goroutine of the client can go on, or the agent still has to answer.
GoesOn ==
  \/ \E c \in Calls : SendRecvStep(c) \/ AgentAnswer(c)
  \/ ReadLoop
  \/ \E r \in Asks : AnswerAsk(r)
  \/ \E k \in Closers : ClosePending(k)

\* Every call has returned, or waits for an agent that is up and will not
\* answer it.
EveryCallReturned ==
  \A c \in Calls :
    \/ callPc[c] \in {"idle", "done"}
    \/ callPc[c] = "parked" /\ c \notin Served /\ agentUp /\ stdinOpen

\* When nothing goes on any more every call has returned, unless the agent that
\* it waits for is still there and has no answer for it: neither a request of
\* the agent that must be answered first (client.go:160-163), nor a call that
\* registers while the client closes (client.go:112), nor two closers hold a
\* call for ever.  The one exception is ClosingHangs.
IdleMeansReturned ==
  ~panicked /\ ~ClosingHangs /\ ~ENABLED GoesOn => EveryCallReturned

\* Once the connection is down, every call that is under way returns:
\* closePending gives each pending call the error "acp: connection closed"
\* (client.go:113, 124, 501).
DisconnectReleasesCalls ==
  \A c \in Calls :
    (~agentUp \/ ~stdinOpen) /\ callPc[c] # "idle" ~> callPc[c] = "done"

\* The client implements RpcClient: a call's result becomes visible when
\* sendRecv returns.
Rpc == INSTANCE RpcClient WITH
  phase <- [c \in Calls |-> CASE callPc[c] = "idle" -> "idle"
                              [] callPc[c] = "done" -> "returned"
                              [] OTHER -> "waiting"],
  result <- [c \in Calls |-> IF callPc[c] = "done" THEN outcome[c] ELSE None],
  replied <- answered,
  linkUp <- stdinOpen /\ agentUp

\* Every behaviour of the client is one of RpcClient.
RpcSpec == Rpc!Spec

=============================================================================

------------------------------ MODULE AcpServer ------------------------------
(***************************************************************************)
(* The JSON-RPC server of acp/server.go.                                   *)
(*                                                                         *)
(* ServeFromReader reads one frame after the other and dispatches it: a    *)
(* request gets a goroutine (handleRequest), a notification and a response *)
(* are handled on the reading goroutine.  A prompt's goroutine enters the  *)
(* cancel function of its context in cancelFuncs, runs the handler, writes *)
(* the response and, deferred to the very end, deletes the entry of its    *)
(* session.  A handler may call the client back (callClient) and then      *)
(* waits for the response on a channel of capacity one, or for its         *)
(* context.                                                                *)
(*                                                                         *)
(* A request is named by its id; a handler calls back at most once, so the *)
(* id of that call is named by the request.  cancelMu, pendingMu and the   *)
(* encoder's mutex guard single steps.                                     *)
(*                                                                         *)
(* acp/inprocess.go joins the server to a client of the same process by    *)
(* two pipes, and closes the server's when ServeFromReader has returned:   *)
(* the handlers that still run then find that they can write nothing.      *)
(***************************************************************************)
EXTENDS Naturals, Sequences, FiniteSets

CONSTANTS Sessions,     \* the sessions
          Requests,     \* the client's requests
          SessionsOf,   \* per request: the sessions it may prompt
          Others,       \* those that may be of another method, or have params
                        \* that do not parse
          Junk,         \* other input: "garbage" (no JSON), "long" (over 1MB),
                        \* "noise" (notifications the server does not know),
                        \* "eof" (the client closes its end of the pipe)
          Overlap,      \* whether it prompts a session before its last response
          MaxCancels,   \* bound: session/cancel notifications the client sends
          MaxFrames,    \* bound: frames of any kind it sends
          None          \* no value

ASSUME ServerAssumption ==
  /\ SessionsOf \in [Requests -> SUBSET Sessions]
  /\ Others \subseteq Requests
  /\ Junk \subseteq {"garbage", "long", "noise", "eof"}
  /\ Overlap \in BOOLEAN
  /\ MaxCancels \in Nat /\ MaxFrames \in Nat
  /\ None \notin Requests \cup Sessions

VARIABLES
  stdin,         \* frames the client has sent that the scanner has not read
  stdout,        \* frames the server has written
  serving,       \* ServeFromReader has not returned
  stdoutOpen,    \* the pipe to the client is not closed
  readerPc,      \* the reading goroutine: scanning, or sending a response on
  readerTarget,  \* the call whose channel handleResponse sends on
  reqPc,         \* per request: where its goroutine stands
  cancelFuncs,   \* per session: the prompt whose cancel function is entered
  ctxDone,       \* the prompts whose context is cancelled
  pending,       \* the ids in Server.pending
  respCh,        \* the calls with a response in their channel
  called,        \* the requests whose handler has called the client
  sessionOf,     \* per request: the session it prompts, if it does
  cancels,       \* how many cancels the client has sent
  answeredAsks,  \* the server's calls the client has answered
  junkSent,      \* the junk the client has sent
  crossed        \* history: the prompts whose goroutine was active together
                 \* with that of another prompt of their session

readVars == <<serving, stdoutOpen, readerPc, readerTarget>>
callVars == <<pending, respCh, called>>
cancelVars == <<cancelFuncs, ctxDone, crossed>>
clientVars == <<sessionOf, cancels, answeredAsks, junkSent>>
vars == <<stdin, stdout, readVars, reqPc, callVars, cancelVars, clientVars>>

Request(r) == [kind |-> "request", of |-> r]
Cancel(s) == [kind |-> "cancel", of |-> s]
Reply(r) == [kind |-> "reply", of |-> r]
JunkFrame(j) == [kind |-> j, of |-> None]
InFrames == [kind : {"request", "reply"}, of : Requests]
              \cup [kind : {"cancel"}, of : Sessions]
              \cup [kind : {"garbage", "long", "noise", "eof"}, of : {None}]

Response(r) == [kind |-> "response", of |-> r]
CallOut(r) == [kind |-> "call", of |-> r]
UpdateOut(p) == [kind |-> "update", of |-> p]
ParseError == [kind |-> "parseError", of |-> None]
OutFrames == [kind : {"response", "call", "update"}, of : Requests]
               \cup {ParseError}

\* The encoder writes f; on a closed pipe it fails, and nothing is written.
EncodeFrame(f) == stdout' = IF stdoutOpen THEN Append(stdout, f) ELSE stdout

Written(f) == \E i \in 1..Len(stdout) : stdout[i] = f

\* "spawned": handleRequest has not got to setCancel; "running": inside the
\* handler; "registered", "waiting", "leaving": inside callClient;
\* "responding": the handler has returned; "responded": the response is
\* written, the deferred clearCancel is not done.
ReqPcs == {"unsent", "sent", "spawned", "running", "registered", "waiting",
           "leaving", "responding", "responded", "done"}

InFlight == {"running", "registered", "waiting", "leaving", "responding"}

\* A prompt whose goroutine is between setCancel and the end of clearCancel.
Active(p) == reqPc[p] \in InFlight \cup {"responded"}

Init ==
  /\ stdin = <<>>
  /\ stdout = <<>>
  /\ serving = TRUE
  /\ stdoutOpen = TRUE
  /\ readerPc = "scan"
  /\ readerTarget = None
  /\ reqPc = [r \in Requests |-> "unsent"]
  /\ cancelFuncs = [s \in Sessions |-> None]
  /\ ctxDone = {}
  /\ pending = {}
  /\ respCh = {}
  /\ called = {}
  /\ sessionOf = [p \in Requests |-> None]
  /\ cancels = 0
  /\ answeredAsks = {}
  /\ junkSent = {}
  /\ crossed = {}

-----------------------------------------------------------------------------
(* ServeFromReader and dispatch                                            *)

\* The next frame is of this kind and the reading goroutine takes it.
Scan(kind) ==
  /\ serving
  /\ readerPc = "scan"
  /\ stdin # <<>>
  /\ Head(stdin).kind = kind
  /\ stdin' = Tail(stdin)

DispatchRequest ==
  /\ Scan("request")
  /\ reqPc' = [reqPc EXCEPT ![Head(stdin).of] = "spawned"]
  /\ UNCHANGED <<stdout, readVars, callVars, cancelVars, clientVars>>

DispatchGarbage ==
  /\ Scan("garbage")
  /\ EncodeFrame(ParseError)
  /\ UNCHANGED <<readVars, reqPc, callVars, cancelVars, clientVars>>

\* The end of the input ends the loop, and so does a line over the scanner's
\* limit, with the rest unread.
ScanEnds ==
  /\ Scan("long") \/ Scan("eof")
  /\ serving' = FALSE
  /\ UNCHANGED <<stdout, stdoutOpen, readerPc, readerTarget, reqPc, callVars,
                 cancelVars, clientVars>>

\* The goroutine of DialInProcess closes the server's pipe after it.
CloseStdout ==
  /\ ~serving
  /\ stdoutOpen
  /\ stdoutOpen' = FALSE
  /\ UNCHANGED <<stdin, stdout, serving, readerPc, readerTarget, reqPc,
                 callVars, cancelVars, clientVars>>

\* Unknown notifications, and frames with neither id nor method, are ignored.
IgnoreFrame ==
  /\ Scan("noise")
  /\ UNCHANGED <<stdout, readVars, reqPc, callVars, cancelVars, clientVars>>

\* Mutant of HandleCancel: the entry is used without looking whether it is
\* there.
HandleCancelUnchecked ==
  /\ Scan("cancel")
  /\ ctxDone' = ctxDone \cup {cancelFuncs[Head(stdin).of]}
  /\ UNCHANGED <<stdout, readVars, reqPc, callVars, cancelFuncs, crossed,
                 clientVars>>

\* session/cancel calls the function entered for the session, if there is one.
HandleCancel ==
  /\ Scan("cancel")
  /\ ctxDone' = ctxDone \cup ({cancelFuncs[Head(stdin).of]} \ {None})
  /\ UNCHANGED <<stdout, readVars, reqPc, callVars, cancelFuncs, crossed,
                 clientVars>>

\* handleResponse looks the channel up under pendingMu ...
HandleResponse ==
  /\ Scan("reply")
  /\ IF Head(stdin).of \in pending
       THEN /\ readerPc' = "deliver"
            /\ readerTarget' = Head(stdin).of
       ELSE UNCHANGED <<readerPc, readerTarget>>
  /\ UNCHANGED <<stdout, serving, stdoutOpen, reqPc, callVars, cancelVars,
                 clientVars>>

\* Mutant of CanDeliver: a channel without buffer.
CanDeliverUnbuffered(p) == reqPc[p] = "waiting"

\* A send on the channel of p's call can proceed.
CanDeliver(p) == p \notin respCh

\* ... and sends on it afterwards, on the reading goroutine.
DeliverResponse ==
  /\ readerPc = "deliver"
  /\ CanDeliver(readerTarget)
  /\ respCh' = respCh \cup {readerTarget}
  /\ readerPc' = "scan"
  /\ readerTarget' = None
  /\ UNCHANGED <<stdin, stdout, serving, stdoutOpen, reqPc, pending, called,
                 cancelVars, clientVars>>

-----------------------------------------------------------------------------
(* handleRequest                                                           *)

\* The other prompts of p's session that are active.
Beside(p) == {q \in Requests \ {p} : Active(q) /\ sessionOf[q] = sessionOf[p]}

\* A prompt's goroutine makes its context and enters the cancel function.
SetCancel(p) ==
  /\ reqPc[p] = "spawned"
  /\ sessionOf[p] # None
  /\ cancelFuncs' = [cancelFuncs EXCEPT ![sessionOf[p]] = p]
  /\ crossed' = crossed \cup Beside(p)
                 \cup {q \in {p} : Beside(p) # {}}
  /\ reqPc' = [reqPc EXCEPT ![p] = "running"]
  /\ UNCHANGED <<stdin, stdout, readVars, callVars, ctxDone, clientVars>>

\* Every other method runs its handler, session/load's writing updates
\* (SendUpdate), and writes one response; params that do not parse are answered
\* with an error.
AnswerAtOnce(r) ==
  /\ reqPc[r] = "spawned"
  /\ sessionOf[r] = None
  /\ EncodeFrame(Response(r))
  /\ reqPc' = [reqPc EXCEPT ![r] = "done"]
  /\ UNCHANGED <<stdin, readVars, callVars, cancelVars, clientVars>>

\* Mutant of SendUpdate: updates go through a queue of their own.
SendUpdateAsync(p) ==
  /\ reqPc[p] \in InFlight \cup {"responded"}
  /\ ~Written(UpdateOut(p))
  /\ EncodeFrame(UpdateOut(p))
  /\ UNCHANGED <<stdin, readVars, reqPc, callVars, cancelVars, clientVars>>

\* The handler of a prompt sends a session/update, that of session/load one per
\* message of the session; one per request stands for many.
SendUpdate(p) ==
  /\ \/ reqPc[p] = "running"
     \/ reqPc[p] = "spawned" /\ sessionOf[p] = None
  /\ ~Written(UpdateOut(p))
  /\ EncodeFrame(UpdateOut(p))
  /\ UNCHANGED <<stdin, readVars, reqPc, callVars, cancelVars, clientVars>>

\* The handler of a prompt returns, with a result or an error.
HandlerReturns(p) ==
  /\ reqPc[p] = "running"
  /\ reqPc' = [reqPc EXCEPT ![p] = "responding"]
  /\ UNCHANGED <<stdin, stdout, readVars, callVars, cancelVars, clientVars>>

\* One response: the result or the handler's error.
WriteResult(p) ==
  /\ reqPc[p] = "responding"
  /\ EncodeFrame(Response(p))
  /\ reqPc' = [reqPc EXCEPT ![p] = "responded"]
  /\ UNCHANGED <<stdin, readVars, callVars, cancelVars, clientVars>>

\* Mutant of ClearCancel: the deferred call is forgotten.
ClearNothing(p) ==
  /\ reqPc[p] = "responded"
  /\ reqPc' = [reqPc EXCEPT ![p] = "done"]
  /\ UNCHANGED <<stdin, stdout, readVars, callVars, cancelVars, clientVars>>

\* Mutant of ClearCancel: every entry goes.
ClearAll(p) ==
  /\ reqPc[p] = "responded"
  /\ cancelFuncs' = [s \in Sessions |-> None]
  /\ reqPc' = [reqPc EXCEPT ![p] = "done"]
  /\ UNCHANGED <<stdin, stdout, readVars, callVars, ctxDone, crossed,
                 clientVars>>

\* The deferred clearCancel deletes whatever the session's entry is by now.
ClearCancel(p) ==
  /\ reqPc[p] = "responded"
  /\ cancelFuncs' = [cancelFuncs EXCEPT ![sessionOf[p]] = None]
  /\ reqPc' = [reqPc EXCEPT ![p] = "done"]
  /\ UNCHANGED <<stdin, stdout, readVars, callVars, ctxDone, crossed,
                 clientVars>>

-----------------------------------------------------------------------------
(* callClient                                                              *)

CallRegister(p) ==
  /\ reqPc[p] = "running"
  /\ p \notin called
  /\ called' = called \cup {p}
  /\ pending' = pending \cup {p}
  /\ reqPc' = [reqPc EXCEPT ![p] = "registered"]
  /\ UNCHANGED <<stdin, stdout, readVars, respCh, cancelVars, clientVars>>

\* Mutant of CallWrite: the error of the write is dropped.
CallWriteUnchecked(p) ==
  /\ reqPc[p] = "registered"
  /\ EncodeFrame(CallOut(p))
  /\ reqPc' = [reqPc EXCEPT ![p] = "waiting"]
  /\ UNCHANGED <<stdin, readVars, callVars, cancelVars, clientVars>>

\* A call that cannot be written returns the error.
CallWrite(p) ==
  /\ reqPc[p] = "registered"
  /\ EncodeFrame(CallOut(p))
  /\ reqPc' = [reqPc EXCEPT ![p] = IF stdoutOpen THEN "waiting" ELSE "leaving"]
  /\ UNCHANGED <<stdin, readVars, callVars, cancelVars, clientVars>>

CallResponse(p) ==
  /\ reqPc[p] = "waiting"
  /\ p \in respCh
  /\ respCh' = respCh \ {p}
  /\ reqPc' = [reqPc EXCEPT ![p] = "leaving"]
  /\ UNCHANGED <<stdin, stdout, readVars, pending, called, cancelVars,
                 clientVars>>

CallCancelled(p) ==
  /\ reqPc[p] = "waiting"
  /\ p \in ctxDone
  /\ reqPc' = [reqPc EXCEPT ![p] = "leaving"]
  /\ UNCHANGED <<stdin, stdout, readVars, callVars, cancelVars, clientVars>>

\* The deferred delete, after which the handler goes on.
CallReturn(p) ==
  /\ reqPc[p] = "leaving"
  /\ pending' = pending \ {p}
  /\ reqPc' = [reqPc EXCEPT ![p] = "running"]
  /\ UNCHANGED <<stdin, stdout, readVars, respCh, called, cancelVars,
                 clientVars>>

-----------------------------------------------------------------------------
(* The client at the other end.                                            *)

\* Every prompt the client has sent to the session has its response.
Quiet(s) == \A q \in Requests : sessionOf[q] = s => Written(Response(q))

MaySend ==
  /\ "eof" \notin junkSent
  /\ Cardinality({r \in Requests : reqPc[r] # "unsent"}) + cancels
       + Cardinality(answeredAsks) + Cardinality(junkSent) < MaxFrames

\* It sends each request once.
ClientSends(r) ==
  /\ MaySend
  /\ reqPc[r] = "unsent"
  /\ stdin' = Append(stdin, Request(r))
  /\ reqPc' = [reqPc EXCEPT ![r] = "sent"]
  /\ UNCHANGED <<stdout, readVars, callVars, cancelVars, cancels,
                 answeredAsks, junkSent>>

ClientPrompt(p, s) ==
  /\ ClientSends(p)
  /\ Overlap \/ Quiet(s)
  /\ sessionOf' = [sessionOf EXCEPT ![p] = s]

ClientRequest(r) == ClientSends(r) /\ UNCHANGED sessionOf

ClientCancel(s) ==
  /\ MaySend
  /\ cancels < MaxCancels
  /\ cancels' = cancels + 1
  /\ stdin' = Append(stdin, Cancel(s))
  /\ UNCHANGED <<stdout, readVars, reqPc, callVars, cancelVars, sessionOf,
                 answeredAsks, junkSent>>

ClientReply(p) ==
  /\ MaySend
  /\ Written(CallOut(p))
  /\ p \notin answeredAsks
  /\ answeredAsks' = answeredAsks \cup {p}
  /\ stdin' = Append(stdin, Reply(p))
  /\ UNCHANGED <<stdout, readVars, reqPc, callVars, cancelVars, sessionOf,
                 cancels, junkSent>>

\* It sends one such frame at most.
ClientJunk(j) ==
  /\ MaySend
  /\ junkSent = {}
  /\ junkSent' = junkSent \cup {j}
  /\ stdin' = Append(stdin, JunkFrame(j))
  /\ UNCHANGED <<stdout, readVars, reqPc, callVars, cancelVars, sessionOf,
                 cancels, answeredAsks>>

-----------------------------------------------------------------------------

Serve ==
  \/ DispatchRequest
  \/ DispatchGarbage
  \/ ScanEnds
  \/ CloseStdout
  \/ IgnoreFrame
  \/ HandleCancel
  \/ HandleResponse
  \/ DeliverResponse

PromptStep(p) ==
  \/ SetCancel(p)
  \/ AnswerAtOnce(p)
  \/ HandlerReturns(p)
  \/ WriteResult(p)
  \/ ClearCancel(p)
  \/ CallWrite(p)
  \/ CallResponse(p)
  \/ CallCancelled(p)
  \/ CallReturn(p)

Next ==
  \/ Serve
  \/ \E p \in Requests : \/ PromptStep(p) \/ CallRegister(p)
                       \/ SendUpdate(p) \/ ClientReply(p)
                       \/ \E s \in SessionsOf[p] : ClientPrompt(p, s)
  \/ \E r \in Others : ClientRequest(r)
  \/ \E s \in Sessions : ClientCancel(s)
  \/ \E j \in Junk : ClientJunk(j)

Spec == Init /\ [][Next]_vars

\* Goroutines that can run do, and handlers return.  Nothing makes the client
\* send anything, an answer to the server's calls included.
Fairness ==
  /\ WF_vars(Serve)
  /\ \A p \in Requests : WF_vars(PromptStep(p))

FairSpec == Spec /\ Fairness

-----------------------------------------------------------------------------
(* Properties                                                              *)

\* The types of the variables, part by part.
StreamTypeOK == stdin \in Seq(InFrames) /\ stdout \in Seq(OutFrames)
ReadTypeOK ==
  /\ serving \in BOOLEAN /\ stdoutOpen \in BOOLEAN
  /\ readerPc \in {"scan", "deliver"}
  /\ readerTarget \in Requests \cup {None}
  /\ readerPc = "deliver" <=> readerTarget # None
RequestTypeOK ==
  /\ reqPc \in [Requests -> ReqPcs]
  /\ sessionOf \in [Requests -> Sessions \cup {None}]
CancelTypeOK ==
  /\ cancelFuncs \in [Sessions -> Requests \cup {None}]
  /\ ctxDone \subseteq Requests /\ crossed \subseteq Requests
CallTypeOK ==
  /\ pending \subseteq Requests /\ respCh \subseteq Requests
  /\ called \subseteq Requests
ClientTypeOK ==
  /\ cancels \in 0..MaxCancels
  /\ answeredAsks \subseteq Requests /\ junkSent \subseteq Junk

TypeOK ==
  /\ StreamTypeOK /\ ReadTypeOK /\ RequestTypeOK
  /\ CancelTypeOK /\ CallTypeOK /\ ClientTypeOK

\* handleResponse never finds the channel full (server.go:113), also when the
\* caller has left through its context meanwhile: the goroutine that reads
\* every frame is never held up by a call.
DispatcherNotBlocked ==
  readerPc = "deliver" => CanDeliver(readerTarget)

\* Nothing stale is left in the server's two maps: an entry of cancelFuncs
\* belongs to a prompt of that session whose goroutine has not ended
\* (server.go:167-169), and pending holds exactly the calls inside callClient
\* (server.go:370-378).
NoStaleEntries ==
  /\ \A s \in Sessions : cancelFuncs[s] # None =>
       /\ sessionOf[cancelFuncs[s]] = s
       /\ Active(cancelFuncs[s])
  /\ pending =
       {p \in Requests : reqPc[p] \in {"registered", "waiting", "leaving"}}

\* "session/cancel cancels the active prompt for that session"
\* (acp/README.md:420-421): so it does when the prompt's handler runs and its
\* goroutine has never been active together with that of another prompt of the
\* session, whichever prompts that session had before it and whatever other
\* sessions do.  A prompt that is sent before the goroutine of the last one has
\* cleared its entry is excused, since that clears the new one's.
CancelReachesOnlyPrompt ==
  [][HandleCancel =>
       \A p \in Requests :
         sessionOf[p] = Head(stdin).of /\ reqPc[p] \in InFlight =>
           p \in ctxDone' \cup crossed]_vars

\* The same for every prompt that has been dispatched.
CancelReachesActivePrompt ==
  [][HandleCancel =>
       \A p \in Requests :
         sessionOf[p] = Head(stdin).of /\ reqPc[p] \in InFlight \cup {"spawned"}
           => p \in ctxDone']_vars

\* The request's goroutine has ended, and written its response unless the pipe
\* was closed before it could.
Ended(r) == reqPc[r] = "done" /\ (Written(Response(r)) \/ ~stdoutOpen)

\* No goroutine of a request is left behind.  One that is dispatched, with
\* params that parse or not, ends, or waits for the client to answer a call it
\* has been sent (server.go:117-305, 380-385); it ends whatever happens to the
\* connection once the answer is in its channel or its prompt is cancelled
\* (387-399), and an answer gets there as long as the server reads.
RequestsAnswered ==
  \A r \in Requests :
    /\ reqPc[r] = "spawned"
         ~> (Ended(r) \/ (reqPc[r] = "waiting" /\ Written(CallOut(r))))
    /\ r \in ctxDone \cup respCh ~> Ended(r)
    /\ r \in answeredAsks ~> Ended(r) \/ ~serving

\* A prompt's response is the last frame the client gets of it: it is written
\* once, after every update and every call of its handler
\* (server.go:172-177, 473-485).
ResponseIsLast ==
  \A i, j \in 1..Len(stdout) :
    /\ stdout[i].kind = "response"
    /\ i < j
    => stdout[j].of # stdout[i].of

=============================================================================

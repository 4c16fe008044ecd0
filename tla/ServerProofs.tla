---------------------------- MODULE ServerProofs ----------------------------
(***************************************************************************)
(* Theorems about what the program serves: over stdio the ACP server, for  *)
(* every set of sessions and requests, whatever the client sends; over     *)
(* HTTP the proxy's gateway, for every exchange and every order in which   *)
(* the provider's events come.                                             *)
(***************************************************************************)
EXTENDS AcpServer, Gateway, FiniteSetTheorems, TLAPS

\* The fold of StreamCodec: of canonical events, by an encoder.
StreamFold == INSTANCE Folding WITH Op <- EncodeNext

-----------------------------------------------------------------------------
(***************************************************************************)
(* The ACP server (AcpServer): its type invariant, then its inductive      *)
(* invariant, part by part, and the safety that follows from it.           *)
(***************************************************************************)

-----------------------------------------------------------------------------
(* What taking the first element of a queue and appending one give and     *)
(* leave.                                                                  *)

\* The first element, and the rest.
LEMMA HeadTail ==
  ASSUME NEW S, NEW s \in Seq(S), s # <<>>
  PROVE  /\ Head(s) \in S
         /\ Tail(s) \in Seq(S)
         /\ Len(Tail(s)) = Len(s) - 1
         /\ \A i \in 1..Len(Tail(s)) : Tail(s)[i] = s[i + 1]
         /\ Head(s) = s[1]
OBVIOUS

\* The queue with one element more.
LEMMA Appended ==
  ASSUME NEW S, NEW s \in Seq(S), NEW e \in S
  PROVE  /\ Append(s, e) \in Seq(S)
         /\ Len(s) \in Nat /\ Len(Append(s, e)) = Len(s) + 1
         /\ \A i \in 1..Len(s) : Append(s, e)[i] = s[i]
         /\ Append(s, e)[Len(s) + 1] = e
         /\ \A i \in 1..Len(Append(s, e)) : i \in 1..Len(s) \/ i = Len(s) + 1
OBVIOUS

\* An element is in a queue once at most, or nowhere.
Holds(s, e) == \E i \in 1..Len(s) : s[i] = e
Once(s, e) == \A i, j \in 1..Len(s) : s[i] = e /\ s[j] = e => i = j

\* Taking the first element of a queue that holds it once leaves none.
LEMMA TakeOnce ==
  ASSUME NEW S, NEW s \in Seq(S), s # <<>>, NEW e, Once(s, e)
  PROVE  /\ Once(Tail(s), e)
         /\ Holds(Tail(s), e) => Holds(s, e)
         /\ Head(s) = e => Holds(s, e) /\ ~Holds(Tail(s), e)
<1>1. /\ Len(s) \in Nat /\ Len(Tail(s)) = Len(s) - 1 /\ Len(s) # 0
      /\ \A i \in 1..Len(Tail(s)) : Tail(s)[i] = s[i + 1]
      /\ Head(s) = s[1]
  BY HeadTail
<1>2. \A i \in 1..Len(Tail(s)) : i + 1 \in 1..Len(s) /\ i + 1 # 1
  BY <1>1
<1>3. Once(Tail(s), e)
  BY <1>1, <1>2 DEF Once
<1>4. QED
  BY <1>1, <1>2, <1>3 DEF Once, Holds

\* Appending an element that is not there makes it be there once.
LEMMA AppendOnce ==
  ASSUME NEW S, NEW s \in Seq(S), NEW f \in S, NEW e, Once(s, e),
         f = e => ~Holds(s, e)
  PROVE  /\ Once(Append(s, f), e)
         /\ Holds(Append(s, f), e) <=> Holds(s, e) \/ f = e
BY Appended DEF Once, Holds

-----------------------------------------------------------------------------
(* Type correctness.                                                       *)

\* The frame at the head of the input is of the kind its reader expects.
LEMMA HeadFrame ==
  ASSUME ServerAssumption, StreamTypeOK, stdin # <<>>
  PROVE  /\ Tail(stdin) \in Seq(InFrames)
         /\ Head(stdin) \in InFrames
         /\ Head(stdin).kind \in {"request", "reply"} =>
              Head(stdin).of \in Requests
         /\ Head(stdin).kind = "cancel" => Head(stdin).of \in Sessions
<1>1. Head(stdin) \in InFrames /\ Tail(stdin) \in Seq(InFrames)
  BY HeadTail DEF StreamTypeOK
<1>2. QED
  BY <1>1 DEF InFrames

\* What the encoder writes keeps the type of the output.
LEMMA EncodeType ==
  ASSUME NEW f \in OutFrames, stdout \in Seq(OutFrames), EncodeFrame(f)
  PROVE  stdout' \in Seq(OutFrames)
BY Appended DEF EncodeFrame

\* The frames that are written, and those the client sends, are frames.
LEMMA FrameTypes ==
  ASSUME ServerAssumption
  PROVE  /\ ParseError \in OutFrames
         /\ \A r \in Requests :
              /\ Response(r) \in OutFrames /\ CallOut(r) \in OutFrames
              /\ UpdateOut(r) \in OutFrames
              /\ Request(r) \in InFrames /\ Reply(r) \in InFrames
         /\ \A s \in Sessions : Cancel(s) \in InFrames
         /\ \A j \in Junk : JunkFrame(j) \in InFrames
BY DEF ServerAssumption, OutFrames, InFrames, ParseError, Response, CallOut,
       UpdateOut, Request, Reply, Cancel, JunkFrame

\* What leaves a group of variables alone keeps its types.
LEMMA SameTypes ==
  ASSUME TypeOK
  PROVE  /\ UNCHANGED <<stdin, stdout>> => StreamTypeOK'
         /\ UNCHANGED readVars => ReadTypeOK'
         /\ UNCHANGED <<reqPc, sessionOf>> => RequestTypeOK'
         /\ UNCHANGED cancelVars => CancelTypeOK'
         /\ UNCHANGED callVars => CallTypeOK'
         /\ UNCHANGED <<cancels, answeredAsks, junkSent>> => ClientTypeOK'
<1>1. UNCHANGED <<stdin, stdout>> => StreamTypeOK'
  BY DEF TypeOK, StreamTypeOK
<1>2. UNCHANGED readVars => ReadTypeOK'
  BY DEF TypeOK, ReadTypeOK, readVars
<1>3. UNCHANGED <<reqPc, sessionOf>> => RequestTypeOK'
  BY DEF TypeOK, RequestTypeOK
<1>4. UNCHANGED cancelVars => CancelTypeOK'
  BY DEF TypeOK, CancelTypeOK, cancelVars
<1>5. UNCHANGED callVars => CallTypeOK'
  BY DEF TypeOK, CallTypeOK, callVars
<1>6. UNCHANGED <<cancels, answeredAsks, junkSent>> => ClientTypeOK'
  BY DEF TypeOK, ClientTypeOK
<1>7. QED
  BY <1>1, <1>2, <1>3, <1>4, <1>5, <1>6

\* The steps of the reading goroutine (server.go:49-115) keep the types.
LEMMA ServeType ==
  ASSUME ServerAssumption, TypeOK, Serve
  PROVE  TypeOK'
<1> USE DEF TypeOK, clientVars, readVars, callVars, cancelVars
<1>1. CASE DispatchRequest
  <2>1. StreamTypeOK' /\ RequestTypeOK'
    BY <1>1, HeadFrame DEF DispatchRequest, Scan, StreamTypeOK, RequestTypeOK,
                           ReqPcs
  <2>2. QED
    BY <1>1, <2>1, SameTypes DEF DispatchRequest
<1>2. CASE DispatchGarbage
  <2>1. StreamTypeOK'
    BY <1>2, HeadFrame, EncodeType, FrameTypes
       DEF DispatchGarbage, Scan, StreamTypeOK
  <2>2. QED
    BY <1>2, <2>1, SameTypes DEF DispatchGarbage
<1>3. CASE ScanEnds
  <2>1. StreamTypeOK' /\ ReadTypeOK'
    BY <1>3, HeadFrame DEF ScanEnds, Scan, StreamTypeOK, ReadTypeOK
  <2>2. QED
    BY <1>3, <2>1, SameTypes DEF ScanEnds
<1>4. CASE CloseStdout
  <2>1. ReadTypeOK'
    BY <1>4 DEF CloseStdout, ReadTypeOK
  <2>2. QED
    BY <1>4, <2>1, SameTypes DEF CloseStdout
<1>5. CASE IgnoreFrame
  <2>1. StreamTypeOK'
    BY <1>5, HeadFrame DEF IgnoreFrame, Scan, StreamTypeOK
  <2>2. QED
    BY <1>5, <2>1, SameTypes DEF IgnoreFrame
<1>6. CASE HandleCancel
  <2>1. StreamTypeOK' /\ CancelTypeOK'
    BY <1>6, HeadFrame DEF HandleCancel, Scan, StreamTypeOK, CancelTypeOK
  <2>2. QED
    BY <1>6, <2>1, SameTypes DEF HandleCancel
<1>7. CASE HandleResponse
  <2>1. StreamTypeOK' /\ ReadTypeOK'
    BY <1>7, HeadFrame
       DEF HandleResponse, Scan, StreamTypeOK, ReadTypeOK, CallTypeOK,
           ServerAssumption
  <2>2. QED
    BY <1>7, <2>1, SameTypes DEF HandleResponse
<1>8. CASE DeliverResponse
  <2>1. readerTarget \in Requests
    BY <1>8 DEF DeliverResponse, ReadTypeOK
  <2>2. QED
    BY <1>8, <2>1, SameTypes DEF DeliverResponse, ReadTypeOK, CallTypeOK
<1>9. QED
  BY <1>1, <1>2, <1>3, <1>4, <1>5, <1>6, <1>7, <1>8 DEF Serve

\* The steps of a request's goroutine (server.go:117-177, 361-400) keep them.
LEMMA RequestType ==
  ASSUME ServerAssumption, TypeOK, NEW p \in Requests,
         PromptStep(p) \/ CallRegister(p) \/ SendUpdate(p)
  PROVE  TypeOK'
<1> USE DEF TypeOK, clientVars, readVars, callVars, cancelVars
<1>1. ReadTypeOK' /\ ClientTypeOK'
  <2>1. UNCHANGED readVars /\ UNCHANGED <<cancels, answeredAsks, junkSent>>
    BY DEF PromptStep, SetCancel, AnswerAtOnce, HandlerReturns, WriteResult,
           ClearCancel, CallWrite, CallResponse, CallCancelled, CallReturn,
           CallRegister, SendUpdate
  <2>2. QED
    BY <2>1, SameTypes
<1>2. StreamTypeOK'
  <2>1. stdin' = stdin
    BY DEF PromptStep, SetCancel, AnswerAtOnce, HandlerReturns, WriteResult,
           ClearCancel, CallWrite, CallResponse, CallCancelled, CallReturn,
           CallRegister, SendUpdate
  <2>2. \/ stdout' = stdout
        \/ EncodeFrame(Response(p)) \/ EncodeFrame(CallOut(p))
        \/ EncodeFrame(UpdateOut(p))
    BY DEF PromptStep, SetCancel, AnswerAtOnce, HandlerReturns, WriteResult,
           ClearCancel, CallWrite, CallResponse, CallCancelled, CallReturn,
           CallRegister, SendUpdate
  <2>3. QED
    BY <2>1, <2>2, EncodeType, FrameTypes DEF StreamTypeOK
<1>3. RequestTypeOK'
  BY DEF RequestTypeOK, ReqPcs, PromptStep, SetCancel, AnswerAtOnce,
         HandlerReturns, WriteResult, ClearCancel, CallWrite, CallResponse,
         CallCancelled, CallReturn, CallRegister, SendUpdate
<1>4. CancelTypeOK'
  BY DEF RequestTypeOK, CancelTypeOK, Beside, PromptStep, SetCancel,
         AnswerAtOnce, HandlerReturns, WriteResult, ClearCancel, CallWrite,
         CallResponse, CallCancelled, CallReturn, CallRegister, SendUpdate
<1>5. CallTypeOK'
  BY DEF CallTypeOK, PromptStep, SetCancel, AnswerAtOnce, HandlerReturns,
         WriteResult, ClearCancel, CallWrite, CallResponse, CallCancelled,
         CallReturn, CallRegister, SendUpdate
<1>6. QED
  BY <1>1, <1>2, <1>3, <1>4, <1>5

\* What the client does.
ClientStep ==
  \/ \E p \in Requests : \/ ClientReply(p)
                       \/ \E s \in SessionsOf[p] : ClientPrompt(p, s)
  \/ \E r \in Others : ClientRequest(r)
  \/ \E s \in Sessions : ClientCancel(s)
  \/ \E j \in Junk : ClientJunk(j)

\* A frame that the client sends keeps the type of the input.
LEMMA SendType ==
  ASSUME NEW f \in InFrames, StreamTypeOK, stdin' = Append(stdin, f),
         stdout' = stdout
  PROVE  StreamTypeOK'
BY Appended DEF StreamTypeOK

\* The client keeps the types.
LEMMA ClientType ==
  ASSUME ServerAssumption, TypeOK, ClientStep
  PROVE  TypeOK'
<1> USE DEF TypeOK, clientVars, readVars, callVars, cancelVars
<1>1. UNCHANGED <<readVars, cancelVars, callVars, stdout>>
  BY DEF ClientStep, ClientReply, ClientPrompt, ClientRequest, ClientSends,
         ClientCancel, ClientJunk
<1>2. ReadTypeOK' /\ CancelTypeOK' /\ CallTypeOK'
  BY <1>1, SameTypes
<1>3. CASE \E p \in Requests : ClientReply(p)
  BY <1>2, <1>3, SendType, FrameTypes, SameTypes
     DEF ClientReply, ClientTypeOK, RequestTypeOK
<1>4. ASSUME NEW r \in Requests, ClientSends(r),
             sessionOf' \in [Requests -> Sessions \cup {None}]
      PROVE  TypeOK'
  BY <1>2, <1>4, SendType, FrameTypes, SameTypes
     DEF ClientSends, RequestTypeOK, ReqPcs
<1>5. CASE \E p \in Requests : \E s \in SessionsOf[p] : ClientPrompt(p, s)
  BY <1>4, <1>5 DEF ClientPrompt, ServerAssumption, RequestTypeOK
<1>6. CASE \E r \in Others : ClientRequest(r)
  BY <1>4, <1>6 DEF ClientRequest, ServerAssumption, RequestTypeOK
<1>7. CASE \E s \in Sessions : ClientCancel(s)
  BY <1>2, <1>7, SendType, FrameTypes, SameTypes
     DEF ClientCancel, ClientTypeOK, RequestTypeOK, ServerAssumption
<1>8. CASE \E j \in Junk : ClientJunk(j)
  BY <1>2, <1>8, SendType, FrameTypes, SameTypes
     DEF ClientJunk, ClientTypeOK, RequestTypeOK
<1>9. QED
  BY <1>3, <1>5, <1>6, <1>7, <1>8 DEF ClientStep

\* Who makes a step.
LEMMA Actors ==
  ASSUME Next
  PROVE  \/ Serve \/ ClientStep
         \/ \E p \in Requests :
              PromptStep(p) \/ CallRegister(p) \/ SendUpdate(p)
BY DEF Next, ClientStep

\* Every step keeps the types.
LEMMA StepType ==
  ASSUME ServerAssumption, TypeOK, [Next]_vars
  PROVE  TypeOK'
<1>1. CASE Next
  BY <1>1, Actors, ServeType, RequestType, ClientType
<1>2. CASE UNCHANGED vars
  BY <1>2, SameTypes DEF vars, clientVars, TypeOK
<1>3. QED
  BY <1>1, <1>2

\* The server starts with the types, and keeps them.
THEOREM TypeCorrect == Spec => []TypeOK
<1>1. Init => TypeOK
  BY ServerAssumption
     DEF Init, TypeOK, StreamTypeOK, ReadTypeOK, RequestTypeOK, CancelTypeOK,
         CallTypeOK, ClientTypeOK, ReqPcs, ServerAssumption
<1>2. TypeOK /\ [Next]_vars => TypeOK'
  BY ServerAssumption, StepType
<1>3. QED
  BY <1>1, <1>2, PTL DEF Spec

-----------------------------------------------------------------------------
(* The inductive invariant.                                                *)

\* A request that is still to be read has no goroutine.
QueueInv ==
  \A r \in Requests :
    /\ Once(stdin, Request(r))
    /\ Holds(stdin, Request(r)) => reqPc[r] = "sent"

\* A prompt has a session from when it is sent.
SessionInv ==
  /\ \A p \in Requests : sessionOf[p] # None => reqPc[p] # "unsent"
  /\ \A p \in Requests :
       reqPc[p] \in InFlight \cup {"responded"} => sessionOf[p] # None

\* Prompts of one session that are active together are known to have been.
CrossInv ==
  \A p, q \in Requests :
    Active(p) /\ Active(q) /\ p # q /\ sessionOf[p] = sessionOf[q] =>
      p \in crossed

\* A prompt that has its session to itself is the one entered for it.
AloneInv ==
  \A p \in Requests : reqPc[p] \in InFlight =>
    cancelFuncs[sessionOf[p]] = p \/ p \in crossed

\* The client's answer to a call is in one place at a time.
ReplyInv ==
  \A p \in Requests :
    /\ Once(stdin, Reply(p))
    /\ Holds(stdin, Reply(p)) => p \in answeredAsks
    /\ readerTarget = p => p \in answeredAsks /\ ~Holds(stdin, Reply(p))
    /\ p \in respCh => /\ p \in answeredAsks /\ ~Holds(stdin, Reply(p))
                       /\ readerTarget # p

\* A request that has its response is past its handler.
OutputInv ==
  \A i \in 1..Len(stdout) : stdout[i].kind = "response" =>
    reqPc[stdout[i].of] \in {"responded", "done"}

IInv ==
  /\ TypeOK
  /\ QueueInv /\ SessionInv /\ NoStaleEntries /\ CrossInv /\ AloneInv
  /\ ReplyInv
  /\ OutputInv /\ ResponseIsLast

-----------------------------------------------------------------------------
(* The input.                                                              *)

\* A step of a request's goroutine leaves the input and the client alone.
LEMMA RequestFrame ==
  ASSUME TypeOK, NEW p \in Requests,
         PromptStep(p) \/ CallRegister(p) \/ SendUpdate(p)
  PROVE  /\ UNCHANGED <<stdin, sessionOf, answeredAsks, readerTarget, readerPc>>
         /\ reqPc[p] \in InFlight \cup {"spawned", "responded"}
         /\ \A q \in Requests \ {p} : reqPc'[q] = reqPc[q]
         /\ reqPc'[p] \notin {"unsent", "sent"}
BY DEF PromptStep, SetCancel, AnswerAtOnce, HandlerReturns, WriteResult,
       ClearCancel, CallWrite, CallResponse, CallCancelled, CallReturn,
       CallRegister, SendUpdate, clientVars, readVars, InFlight, TypeOK,
       RequestTypeOK

\* The reading goroutine takes a frame or leaves the input alone; of the
\* requests it only moves the one it dispatches.
LEMMA ServeFrame ==
  ASSUME ServerAssumption, TypeOK, Serve
  PROVE  /\ UNCHANGED <<sessionOf, answeredAsks, cancelFuncs, crossed, pending>>
         /\ \/ stdin' = stdin
            \/ stdin # <<>> /\ stdin' = Tail(stdin)
         /\ \/ reqPc' = reqPc
            \/ \E r \in Requests :
                 /\ stdin # <<>> /\ Head(stdin) = Request(r)
                 /\ stdin' = Tail(stdin)
                 /\ reqPc' = [reqPc EXCEPT ![r] = "spawned"]
<1>1. UNCHANGED <<sessionOf, answeredAsks, cancelFuncs, crossed, pending>>
  BY DEF Serve, DispatchRequest, DispatchGarbage, ScanEnds, CloseStdout,
         IgnoreFrame, HandleCancel, HandleResponse, DeliverResponse,
         clientVars, cancelVars, callVars
<1>2. stdin' = stdin \/ (stdin # <<>> /\ stdin' = Tail(stdin))
  BY DEF Serve, DispatchRequest, DispatchGarbage, ScanEnds, CloseStdout,
         IgnoreFrame, HandleCancel, HandleResponse, DeliverResponse, Scan
<1>3. CASE DispatchRequest
  <2>1. stdin # <<>> /\ stdin' = Tail(stdin) /\ Head(stdin).kind = "request"
    BY <1>3 DEF DispatchRequest, Scan
  <2>2. Head(stdin) \in InFrames /\ Head(stdin).of \in Requests
    BY <2>1, HeadFrame DEF TypeOK
  <2>3. Head(stdin) = Request(Head(stdin).of)
    BY <2>1, <2>2 DEF InFrames, Request
  <2>4. QED
    BY <1>1, <1>3, <2>1, <2>2, <2>3 DEF DispatchRequest
<1>4. CASE reqPc' = reqPc
  BY <1>1, <1>2, <1>4
<1>5. QED
  BY <1>3, <1>4
     DEF Serve, DispatchGarbage, ScanEnds, CloseStdout, IgnoreFrame,
         HandleCancel, HandleResponse, DeliverResponse

\* Every step keeps QueueInv.
LEMMA QueueStep ==
  ASSUME ServerAssumption, TypeOK, QueueInv, Next
  PROVE  QueueInv'
<1> USE DEF TypeOK, StreamTypeOK, RequestTypeOK
<1>1. CASE Serve
  <2>1. ASSUME NEW r \in Requests
        PROVE  /\ Once(stdin', Request(r))
               /\ Holds(stdin', Request(r)) => Holds(stdin, Request(r))
               /\ stdin # <<>> /\ stdin' = Tail(stdin)
                    /\ Head(stdin) = Request(r) => ~Holds(stdin', Request(r))
    <3>1. CASE stdin' = stdin
      BY <3>1 DEF QueueInv
    <3>2. CASE stdin # <<>> /\ stdin' = Tail(stdin)
      BY <3>2, TakeOnce DEF QueueInv
    <3>3. QED
      BY <1>1, <3>1, <3>2, ServeFrame
  <2>2. ASSUME NEW r \in Requests, Holds(stdin', Request(r))
        PROVE  reqPc'[r] = "sent"
    <3>1. reqPc[r] = "sent"
      BY <2>1, <2>2 DEF QueueInv
    <3>2. QED
      BY <1>1, <2>1, <2>2, <3>1, ServeFrame
  <2>3. QED
    BY <2>1, <2>2 DEF QueueInv, Request
<1>2. ASSUME NEW p \in Requests,
             PromptStep(p) \/ CallRegister(p) \/ SendUpdate(p)
      PROVE  QueueInv'
  <2>1. /\ stdin' = stdin /\ reqPc[p] # "sent"
        /\ \A q \in Requests \ {p} : reqPc'[q] = reqPc[q]
    BY <1>2, RequestFrame DEF InFlight
  <2>2. ASSUME NEW r \in Requests
        PROVE  /\ Once(stdin', Request(r))
               /\ Holds(stdin', Request(r)) => reqPc'[r] = "sent"
    BY <2>1 DEF QueueInv
  <2>3. QED
    BY <2>2 DEF QueueInv, Request
<1>3. ASSUME NEW f \in InFrames, stdin' = Append(stdin, f), reqPc' = reqPc,
             \A r \in Requests : f # Request(r)
      PROVE  QueueInv'
  <2>1. ASSUME NEW r \in Requests
        PROVE  /\ Once(stdin', Request(r))
               /\ Holds(stdin', Request(r)) => reqPc'[r] = "sent"
    BY <1>3, AppendOnce DEF QueueInv
  <2>2. QED
    BY <2>1 DEF QueueInv, Request
<1>4. ASSUME NEW p \in Requests, ClientSends(p)
      PROVE  QueueInv'
  <2>1. reqPc[p] = "unsent" /\ stdin' = Append(stdin, Request(p))
        /\ Request(p) \in InFrames /\ reqPc' = [reqPc EXCEPT ![p] = "sent"]
    BY <1>4, FrameTypes DEF ClientSends
  <2>2. ~Holds(stdin, Request(p))
    BY <2>1 DEF QueueInv
  <2>3. ASSUME NEW r \in Requests
        PROVE  /\ Once(stdin', Request(r))
               /\ Holds(stdin', Request(r)) <=>
                    Holds(stdin, Request(r)) \/ Request(p) = Request(r)
    BY <2>1, <2>2, AppendOnce DEF QueueInv
  <2>4. QED
    BY <2>1, <2>3 DEF QueueInv, Request
<1>5. CASE ClientStep
  <2>1. ASSUME NEW p \in Requests, ClientReply(p) PROVE QueueInv'
    BY <1>3, <2>1, FrameTypes DEF ClientReply, Reply, Request
  <2>2. ASSUME NEW s \in Sessions, ClientCancel(s) PROVE QueueInv'
    BY <1>3, <2>2, FrameTypes DEF ClientCancel, Cancel, Request
  <2>3. ASSUME NEW j \in Junk, ClientJunk(j) PROVE QueueInv'
    BY <1>3, <2>3, FrameTypes
       DEF ClientJunk, JunkFrame, Request, ServerAssumption
  <2>4. QED
    BY <1>4, <1>5, <2>1, <2>2, <2>3
       DEF ClientStep, ClientPrompt, ClientRequest, ServerAssumption
<1>6. QED
  BY <1>1, <1>2, <1>5, Actors

-----------------------------------------------------------------------------
(* Sessions and the server's maps.                                         *)

\* Every step keeps SessionInv.
LEMMA SessionStep ==
  ASSUME ServerAssumption, TypeOK, QueueInv, SessionInv, Next
  PROVE  SessionInv'
<1> USE DEF TypeOK, RequestTypeOK, SessionInv, InFlight
<1>1. CASE Serve
  BY <1>1, ServeFrame
<1>2. ASSUME NEW p \in Requests,
             PromptStep(p) \/ CallRegister(p) \/ SendUpdate(p)
      PROVE  SessionInv'
  <2>1. sessionOf' = sessionOf
    BY <1>2, RequestFrame
  <2>2. QED
    BY <1>2, <2>1
       DEF PromptStep, SetCancel, AnswerAtOnce, HandlerReturns, WriteResult,
           ClearCancel, CallWrite, CallResponse, CallCancelled, CallReturn,
           CallRegister, SendUpdate
<1>3. CASE ClientStep
  <2>1. CASE UNCHANGED <<reqPc, sessionOf>>
    BY <2>1
  <2>2. ASSUME NEW p \in Requests, NEW s, ClientPrompt(p, s)
        PROVE  SessionInv'
    BY <2>2 DEF ClientPrompt, ClientSends
  <2>3. ASSUME NEW r \in Requests, ClientRequest(r)
        PROVE  SessionInv'
    BY <2>3 DEF ClientRequest, ClientSends
  <2>4. QED
    BY <1>3, <2>1, <2>2, <2>3
       DEF ClientStep, ClientReply, ClientCancel, ClientJunk, ServerAssumption
<1>4. QED
  BY <1>1, <1>2, <1>3, Actors

\* What the client does moves no goroutine, and gives a session to none.
LEMMA ClientFrame ==
  ASSUME ServerAssumption, TypeOK, SessionInv, ClientStep
  PROVE  /\ UNCHANGED <<cancelFuncs, ctxDone, crossed, pending, respCh,
                       stdout, readerTarget, readerPc>>
         /\ \A p \in Requests :
              /\ reqPc[p] \notin {"unsent", "sent"} => reqPc'[p] = reqPc[p]
              /\ reqPc'[p] \notin {"unsent", "sent"} => reqPc'[p] = reqPc[p]
              /\ sessionOf[p] # None => sessionOf'[p] = sessionOf[p]
              /\ reqPc[p] # "unsent" => sessionOf'[p] = sessionOf[p]
<1> USE DEF TypeOK, RequestTypeOK, SessionInv
<1>1. UNCHANGED <<cancelFuncs, ctxDone, crossed, pending, respCh, stdout,
                  readerTarget, readerPc>>
  BY DEF ClientStep, ClientReply, ClientPrompt, ClientRequest, ClientSends,
         ClientCancel, ClientJunk, readVars, callVars, cancelVars
<1>2. CASE UNCHANGED <<reqPc, sessionOf>>
  BY <1>1, <1>2
<1>3. ASSUME NEW p \in Requests, NEW s, ClientPrompt(p, s)
      PROVE  \A q \in Requests :
               /\ reqPc[q] \notin {"unsent", "sent"} => reqPc'[q] = reqPc[q]
               /\ reqPc'[q] \notin {"unsent", "sent"} => reqPc'[q] = reqPc[q]
               /\ sessionOf[q] # None => sessionOf'[q] = sessionOf[q]
               /\ reqPc[q] # "unsent" => sessionOf'[q] = sessionOf[q]
  BY <1>3 DEF ClientPrompt, ClientSends
<1>4. ASSUME NEW r \in Requests, ClientRequest(r)
      PROVE  \A q \in Requests :
               /\ reqPc[q] \notin {"unsent", "sent"} => reqPc'[q] = reqPc[q]
               /\ reqPc'[q] \notin {"unsent", "sent"} => reqPc'[q] = reqPc[q]
               /\ sessionOf'[q] = sessionOf[q]
  BY <1>4 DEF ClientRequest, ClientSends
<1>5. QED
  BY <1>1, <1>2, <1>3, <1>4
     DEF ClientStep, ClientReply, ClientCancel, ClientJunk, ServerAssumption

\* Every step keeps the two maps free of what has ended.
LEMMA EntriesStep ==
  ASSUME ServerAssumption, TypeOK, QueueInv, SessionInv, NoStaleEntries, Next
  PROVE  NoStaleEntries'
<1> USE DEF TypeOK, RequestTypeOK, CancelTypeOK, CallTypeOK, NoStaleEntries,
            InFlight, Active
<1>1. CASE Serve
  <2>1. CASE reqPc' = reqPc
    BY <1>1, <2>1, ServeFrame
  <2>2. ASSUME NEW r \in Requests, stdin # <<>>, Head(stdin) = Request(r),
               reqPc' = [reqPc EXCEPT ![r] = "spawned"]
        PROVE  NoStaleEntries'
    <3>1. reqPc[r] = "sent"
      BY <2>2, TakeOnce DEF QueueInv, StreamTypeOK
    <3>2. QED
      BY <1>1, <2>2, <3>1, ServeFrame
  <2>3. QED
    BY <1>1, <2>1, <2>2, ServeFrame
<1>2. ASSUME NEW p \in Requests,
             PromptStep(p) \/ CallRegister(p) \/ SendUpdate(p)
      PROVE  NoStaleEntries'
  <2>1. sessionOf' = sessionOf
    BY <1>2, RequestFrame
  <2>2. \A s \in Sessions : cancelFuncs'[s] # None =>
          /\ sessionOf'[cancelFuncs'[s]] = s
          /\ reqPc'[cancelFuncs'[s]] \in InFlight \cup {"responded"}
    BY <1>2, <2>1
       DEF PromptStep, SetCancel, AnswerAtOnce, HandlerReturns, WriteResult,
           ClearCancel, CallWrite, CallResponse, CallCancelled, CallReturn,
           CallRegister, SendUpdate, cancelVars
  <2>3. pending' = {q \in Requests :
                      reqPc'[q] \in {"registered", "waiting", "leaving"}}
    BY <1>2
       DEF PromptStep, SetCancel, AnswerAtOnce, HandlerReturns, WriteResult,
           ClearCancel, CallWrite, CallResponse, CallCancelled, CallReturn,
           CallRegister, SendUpdate, callVars
  <2>4. QED
    BY <2>2, <2>3
<1>3. CASE ClientStep
  BY <1>3, ClientFrame
<1>4. QED
  BY <1>1, <1>2, <1>3, Actors

\* Every step keeps CrossInv and AloneInv.
LEMMA AloneStep ==
  ASSUME ServerAssumption, TypeOK, QueueInv, SessionInv, CrossInv, AloneInv,
         Next
  PROVE  CrossInv' /\ AloneInv'
<1> USE DEF TypeOK, RequestTypeOK, CancelTypeOK
<1>1. ASSUME UNCHANGED <<cancelFuncs, crossed>>,
             \A p \in Requests :
               /\ Active(p)' => Active(p) /\ sessionOf'[p] = sessionOf[p]
               /\ reqPc'[p] \in InFlight => reqPc[p] \in InFlight
      PROVE  CrossInv' /\ AloneInv'
  BY <1>1 DEF CrossInv, AloneInv, Active
<1>2. CASE Serve
  BY <1>1, <1>2, ServeFrame DEF Active, InFlight
<1>3. ASSUME NEW p \in Requests,
             PromptStep(p) \/ CallRegister(p) \/ SendUpdate(p)
      PROVE  CrossInv' /\ AloneInv'
  <2>1. /\ sessionOf' = sessionOf
        /\ \A q \in Requests \ {p} : reqPc'[q] = reqPc[q]
    BY <1>3, RequestFrame
  <2>2. CASE SetCancel(p)
    <3>1. /\ reqPc[p] = "spawned" /\ sessionOf[p] \in Sessions
          /\ cancelFuncs'[sessionOf[p]] = p
          /\ \A s \in Sessions \ {sessionOf[p]} :
               cancelFuncs'[s] = cancelFuncs[s]
      BY <2>2 DEF SetCancel
    <3>2. \A q \in Requests \ {p} :
            Active(q) /\ sessionOf[q] = sessionOf[p] =>
              q \in crossed' /\ p \in crossed'
      BY <2>2 DEF SetCancel, Beside
    <3>3. crossed \subseteq crossed'
      BY <2>2 DEF SetCancel
    <3>4. CrossInv'
      BY <2>1, <3>2, <3>3 DEF CrossInv, Active
    <3>5. AloneInv'
      BY <2>1, <3>1, <3>2, <3>3 DEF AloneInv, Active, SessionInv
    <3>6. QED
      BY <3>4, <3>5
  <2>3. CASE ClearCancel(p)
    <3>1. /\ reqPc[p] = "responded" /\ reqPc'[p] = "done"
          /\ crossed' = crossed
          /\ \A s \in Sessions \ {sessionOf[p]} :
               cancelFuncs'[s] = cancelFuncs[s]
      BY <2>3 DEF ClearCancel
    <3>2. CrossInv'
      BY <2>1, <3>1 DEF CrossInv, Active, InFlight
    <3>3. AloneInv'
      BY <2>1, <3>1 DEF AloneInv, CrossInv, Active, SessionInv, InFlight
    <3>4. QED
      BY <3>2, <3>3
  <2>4. CASE ~SetCancel(p) /\ ~ClearCancel(p)
    <3>1. UNCHANGED <<cancelFuncs, crossed>>
      BY <1>3, <2>4
         DEF PromptStep, AnswerAtOnce, HandlerReturns, WriteResult, CallWrite,
             CallResponse, CallCancelled, CallReturn, CallRegister, SendUpdate,
             cancelVars
    <3>2. /\ Active(p)' => Active(p)
          /\ reqPc'[p] \in InFlight => reqPc[p] \in InFlight
      BY <1>3, <2>4
         DEF PromptStep, AnswerAtOnce, HandlerReturns, WriteResult, CallWrite,
             CallResponse, CallCancelled, CallReturn, CallRegister, SendUpdate,
             Active, InFlight
    <3>3. QED
      BY <1>1, <2>1, <3>1, <3>2 DEF Active
  <2>5. QED
    BY <2>2, <2>3, <2>4
<1>4. CASE ClientStep
  BY <1>1, <1>4, ClientFrame DEF Active, InFlight
<1>5. QED
  BY <1>2, <1>3, <1>4, Actors

-----------------------------------------------------------------------------
(* The answers to the server's calls.                                      *)

\* Which answer is taken from the input, and what becomes of it.
LEMMA ServeReplies ==
  ASSUME ServerAssumption, TypeOK, Serve, NEW p \in Requests
  PROVE  \/ /\ stdin' = stdin
            /\ \/ UNCHANGED <<readerTarget, respCh>>
               \/ readerTarget' = None /\ respCh' = respCh \cup {readerTarget}
         \/ /\ stdin # <<>> /\ stdin' = Tail(stdin)
            /\ readerPc = "scan" /\ respCh' = respCh
            /\ readerTarget' = p => Head(stdin) = Reply(p)
<1> USE DEF TypeOK, StreamTypeOK, ReadTypeOK
<1>1. CASE HandleResponse
  <2>1. /\ stdin # <<>> /\ stdin' = Tail(stdin) /\ readerPc = "scan"
        /\ Head(stdin).kind = "reply" /\ respCh' = respCh
        /\ readerTarget' \in {readerTarget, Head(stdin).of}
    BY <1>1 DEF HandleResponse, Scan, callVars
  <2>2. Head(stdin) \in InFrames /\ readerTarget = None /\ p # None
    BY <2>1, HeadFrame DEF ServerAssumption
  <2>3. Head(stdin) = Reply(Head(stdin).of)
    BY <2>1, <2>2 DEF InFrames, Reply
  <2>4. QED
    BY <2>1, <2>2, <2>3
<1>2. CASE DeliverResponse
  BY <1>2 DEF DeliverResponse
<1>3. CASE CloseStdout
  BY <1>3 DEF CloseStdout, callVars
<1>4. CASE \/ DispatchRequest \/ DispatchGarbage \/ ScanEnds \/ IgnoreFrame
           \/ HandleCancel
  <2>1. /\ stdin # <<>> /\ stdin' = Tail(stdin) /\ readerPc = "scan"
        /\ respCh' = respCh /\ readerTarget' = readerTarget
    BY <1>4 DEF DispatchRequest, DispatchGarbage, ScanEnds, IgnoreFrame,
                HandleCancel, Scan, callVars, readVars
  <2>2. readerTarget = None /\ p # None
    BY <2>1 DEF ServerAssumption
  <2>3. QED
    BY <2>1, <2>2
<1>5. QED
  BY <1>1, <1>2, <1>3, <1>4 DEF Serve

\* Every step keeps ReplyInv.
LEMMA ReplyStep ==
  ASSUME ServerAssumption, TypeOK, ReplyInv, Next
  PROVE  ReplyInv'
<1> USE DEF TypeOK, StreamTypeOK, ReadTypeOK
<1>1. ASSUME Serve, NEW p \in Requests
      PROVE  /\ Once(stdin', Reply(p))
             /\ Holds(stdin', Reply(p)) => p \in answeredAsks'
             /\ readerTarget' = p =>
                  p \in answeredAsks' /\ ~Holds(stdin', Reply(p))
             /\ p \in respCh' =>
                  /\ p \in answeredAsks' /\ ~Holds(stdin', Reply(p))
                  /\ readerTarget' # p
  <2>1. answeredAsks' = answeredAsks /\ p # None
    BY <1>1, ServeFrame DEF ServerAssumption
  <2>2. CASE stdin' = stdin /\ UNCHANGED <<readerTarget, respCh>>
    BY <2>1, <2>2 DEF ReplyInv
  <2>3. CASE /\ stdin' = stdin /\ readerTarget' = None
             /\ respCh' = respCh \cup {readerTarget}
    BY <2>1, <2>3 DEF ReplyInv
  <2>4. CASE /\ stdin # <<>> /\ stdin' = Tail(stdin)
             /\ readerPc = "scan" /\ respCh' = respCh
             /\ readerTarget' = p => Head(stdin) = Reply(p)
    <3>1. /\ Once(stdin', Reply(p))
          /\ Holds(stdin', Reply(p)) => Holds(stdin, Reply(p))
          /\ Head(stdin) = Reply(p) =>
               Holds(stdin, Reply(p)) /\ ~Holds(stdin', Reply(p))
      BY <2>4, TakeOnce DEF ReplyInv
    <3>2. QED
      BY <2>1, <2>4, <3>1 DEF ReplyInv
  <2>5. QED
    BY <1>1, <2>2, <2>3, <2>4, ServeReplies
<1>2. ASSUME NEW q \in Requests,
             PromptStep(q) \/ CallRegister(q) \/ SendUpdate(q)
      PROVE  ReplyInv'
  <2>1. /\ stdin' = stdin /\ answeredAsks' = answeredAsks
        /\ readerTarget' = readerTarget
    BY <1>2, RequestFrame
  <2>2. respCh' \subseteq respCh
    BY <1>2 DEF PromptStep, SetCancel, AnswerAtOnce, HandlerReturns,
                WriteResult, ClearCancel, CallWrite, CallResponse,
                CallCancelled, CallReturn, CallRegister, SendUpdate, callVars
  <2>3. QED
    BY <2>1, <2>2 DEF ReplyInv, Reply
<1>3. ASSUME NEW f \in InFrames, stdin' = Append(stdin, f),
             UNCHANGED <<readerTarget, respCh>>,
             answeredAsks \subseteq answeredAsks',
             \A p \in Requests :
               f = Reply(p) => p \notin answeredAsks /\ p \in answeredAsks'
      PROVE  ReplyInv'
  <2>1. ASSUME NEW p \in Requests
        PROVE  /\ Once(stdin', Reply(p))
               /\ Holds(stdin', Reply(p)) <=>
                    Holds(stdin, Reply(p)) \/ f = Reply(p)
    BY <1>3, AppendOnce DEF ReplyInv
  <2>2. QED
    BY <1>3, <2>1 DEF ReplyInv, Reply
<1>4. CASE ClientStep
  <2>1. UNCHANGED <<readerTarget, respCh>>
    BY <1>4 DEF ClientStep, ClientReply, ClientPrompt, ClientRequest,
                ClientSends, ClientCancel, ClientJunk, readVars, callVars
  <2>2. ASSUME NEW p \in Requests, ClientReply(p) PROVE ReplyInv'
    BY <1>3, <2>1, <2>2, FrameTypes DEF ClientReply, Reply
  <2>3. ASSUME NEW r \in Requests, ClientSends(r) PROVE ReplyInv'
    BY <1>3, <2>1, <2>3, FrameTypes DEF ClientSends, Reply, Request
  <2>4. ASSUME NEW s \in Sessions, ClientCancel(s) PROVE ReplyInv'
    BY <1>3, <2>1, <2>4, FrameTypes DEF ClientCancel, Reply, Cancel
  <2>5. ASSUME NEW j \in Junk, ClientJunk(j) PROVE ReplyInv'
    BY <1>3, <2>1, <2>5, FrameTypes
       DEF ClientJunk, Reply, JunkFrame, ServerAssumption
  <2>6. QED
    BY <1>4, <2>2, <2>3, <2>4, <2>5
       DEF ClientStep, ClientPrompt, ClientRequest, ServerAssumption
<1>5. ASSUME Serve PROVE ReplyInv'
  BY <1>1, <1>5 DEF ReplyInv, Reply
<1>6. QED
  BY <1>2, <1>4, <1>5, Actors

-----------------------------------------------------------------------------
(* The output.                                                             *)

Past == {"responded", "done"}

\* A step writes one frame at most; of no request that is past its handler, and
\* a response only when that gets past it.
LEMMA StepWrites ==
  ASSUME ServerAssumption, TypeOK, QueueInv, SessionInv, Next
  PROVE  /\ \A r \in Requests : reqPc[r] \in Past => reqPc'[r] \in Past
         /\ \/ stdout' = stdout
            \/ \E f \in OutFrames :
                 /\ stdout' = Append(stdout, f)
                 /\ \A r \in Requests : f.of = r => reqPc[r] \notin Past
                 /\ f.kind = "response" => reqPc'[f.of] \in Past
<1> USE DEF TypeOK, RequestTypeOK, Past
<1>1. CASE Serve
  <2>1. \A r \in Requests : reqPc[r] \in Past => reqPc'[r] \in Past
    <3>1. ASSUME NEW r \in Requests, stdin # <<>>, Head(stdin) = Request(r)
          PROVE  reqPc[r] = "sent"
      BY <3>1, TakeOnce DEF QueueInv, StreamTypeOK
    <3>2. QED
      BY <1>1, <3>1, ServeFrame
  <2>2. \/ stdout' = stdout
        \/ stdout' = Append(stdout, ParseError)
    BY <1>1 DEF Serve, DispatchRequest, DispatchGarbage, ScanEnds, CloseStdout,
                IgnoreFrame, HandleCancel, HandleResponse, DeliverResponse,
                EncodeFrame
  <2>3. /\ ParseError \in OutFrames /\ ParseError.kind # "response"
        /\ \A r \in Requests : ParseError.of # r
    BY FrameTypes DEF ParseError, ServerAssumption
  <2>4. QED
    BY <2>1, <2>2, <2>3
<1>2. ASSUME NEW p \in Requests,
             PromptStep(p) \/ CallRegister(p) \/ SendUpdate(p)
      PROVE  /\ reqPc[p] \in Past => reqPc'[p] \in Past
             /\ \/ stdout' = stdout
                \/ /\ stdout' = Append(stdout, Response(p))
                   /\ reqPc[p] \notin Past /\ reqPc'[p] \in Past
                \/ /\ \/ stdout' = Append(stdout, CallOut(p))
                      \/ stdout' = Append(stdout, UpdateOut(p))
                   /\ reqPc[p] \notin Past
  BY <1>2
     DEF PromptStep, SetCancel, AnswerAtOnce, HandlerReturns, WriteResult,
         ClearCancel, CallWrite, CallResponse, CallCancelled, CallReturn,
         CallRegister, SendUpdate, EncodeFrame
<1>3. ASSUME NEW p \in Requests,
             PromptStep(p) \/ CallRegister(p) \/ SendUpdate(p)
      PROVE  /\ \A r \in Requests : reqPc[r] \in Past => reqPc'[r] \in Past
             /\ \/ stdout' = stdout
                \/ \E f \in OutFrames :
                     /\ stdout' = Append(stdout, f)
                     /\ \A r \in Requests : f.of = r => reqPc[r] \notin Past
                     /\ f.kind = "response" => reqPc'[f.of] \in Past
  <2>1. \A r \in Requests : reqPc[r] \in Past => reqPc'[r] \in Past
    BY <1>2, <1>3, RequestFrame
  <2>2. /\ Response(p) \in OutFrames /\ Response(p).of = p
        /\ CallOut(p) \in OutFrames /\ CallOut(p).of = p
        /\ CallOut(p).kind # "response"
        /\ UpdateOut(p) \in OutFrames /\ UpdateOut(p).of = p
        /\ UpdateOut(p).kind # "response"
    BY FrameTypes DEF Response, CallOut, UpdateOut
  <2>3. QED
    BY <1>2, <1>3, <2>1, <2>2
<1>4. CASE ClientStep
  BY <1>4, ClientFrame
<1>5. QED
  BY <1>1, <1>3, <1>4, Actors

\* Every step keeps OutputInv and ResponseIsLast.
LEMMA OutputStep ==
  ASSUME ServerAssumption, TypeOK, QueueInv, SessionInv, OutputInv,
         ResponseIsLast, Next
  PROVE  OutputInv' /\ ResponseIsLast'
<1>1. stdout \in Seq(OutFrames)
  BY DEF TypeOK, StreamTypeOK
<1>2. \A i \in 1..Len(stdout) : stdout[i].kind = "response" =>
        stdout[i].of \in Requests
  BY <1>1 DEF OutFrames, ParseError
<1>3. \A r \in Requests : reqPc[r] \in Past => reqPc'[r] \in Past
  BY StepWrites
<1>4. CASE stdout' = stdout
  BY <1>2, <1>3, <1>4 DEF OutputInv, ResponseIsLast, Past
<1>5. ASSUME NEW f \in OutFrames, stdout' = Append(stdout, f),
             \A r \in Requests : f.of = r => reqPc[r] \notin Past,
             f.kind = "response" => reqPc'[f.of] \in Past
      PROVE  OutputInv' /\ ResponseIsLast'
  <2>1. /\ Len(stdout) \in Nat /\ Len(stdout') = Len(stdout) + 1
        /\ \A i \in 1..Len(stdout) : stdout'[i] = stdout[i]
        /\ stdout'[Len(stdout) + 1] = f
        /\ \A i \in 1..Len(stdout') :
             i \in 1..Len(stdout) \/ i = Len(stdout) + 1
    BY <1>1, <1>5, Appended
  <2>2. OutputInv'
    BY <1>2, <1>3, <1>5, <2>1 DEF OutputInv, Past
  <2>3. ASSUME NEW i \in 1..Len(stdout'), NEW j \in 1..Len(stdout'),
               stdout'[i].kind = "response", i < j
        PROVE  stdout'[j].of # stdout'[i].of
    <3>1. i \in 1..Len(stdout)
      BY <2>1, <2>3
    <3>2. CASE j \in 1..Len(stdout)
      BY <2>1, <2>3, <3>1, <3>2 DEF ResponseIsLast
    <3>3. CASE j = Len(stdout) + 1
      BY <1>2, <1>5, <2>1, <2>3, <3>1, <3>3 DEF OutputInv, Past
    <3>4. QED
      BY <2>1, <3>2, <3>3
  <2>4. QED
    BY <2>2, <2>3 DEF ResponseIsLast
<1>6. QED
  BY <1>4, <1>5, StepWrites

-----------------------------------------------------------------------------
(* The theorems.                                                           *)

\* The invariant holds at the start and after every step.
THEOREM Inductive == Spec => []IInv
<1>1. Init => IInv
  <2>1. SUFFICES ASSUME Init PROVE IInv
    OBVIOUS
  <2>2. TypeOK
    BY <2>1, ServerAssumption
       DEF Init, TypeOK, StreamTypeOK, ReadTypeOK, RequestTypeOK, CancelTypeOK,
           CallTypeOK, ClientTypeOK, ReqPcs, ServerAssumption
  <2>3. QueueInv /\ ReplyInv
    BY <2>1, ServerAssumption
       DEF Init, QueueInv, ReplyInv, Once, Holds, ServerAssumption
  <2>4. SessionInv /\ NoStaleEntries /\ CrossInv /\ AloneInv
    BY <2>1 DEF Init, SessionInv, NoStaleEntries, CrossInv, AloneInv, Active,
                InFlight
  <2>5. OutputInv /\ ResponseIsLast
    BY <2>1 DEF Init, OutputInv, ResponseIsLast
  <2>6. QED
    BY <2>2, <2>3, <2>4, <2>5 DEF IInv
<1>2. IInv /\ [Next]_vars => IInv'
  <2>1. SUFFICES ASSUME IInv, [Next]_vars PROVE IInv'
    OBVIOUS
  <2>2. TypeOK'
    BY <2>1, ServerAssumption, StepType DEF IInv
  <2>3. CASE Next
    BY <2>1, <2>2, <2>3, ServerAssumption, QueueStep, SessionStep, EntriesStep,
       AloneStep, ReplyStep, OutputStep DEF IInv
  <2>4. CASE UNCHANGED vars
    <3>1. QueueInv' /\ ReplyInv'
      BY <2>1, <2>4
         DEF IInv, vars, readVars, callVars, clientVars, QueueInv, ReplyInv,
             Once, Holds, Request, Reply
    <3>2. SessionInv' /\ NoStaleEntries' /\ CrossInv' /\ AloneInv'
      BY <2>1, <2>4
         DEF IInv, vars, callVars, cancelVars, clientVars, SessionInv,
             NoStaleEntries, CrossInv, AloneInv, Active
    <3>3. OutputInv' /\ ResponseIsLast'
      BY <2>1, <2>4 DEF IInv, vars, OutputInv, ResponseIsLast
    <3>4. QED
      BY <2>2, <3>1, <3>2, <3>3 DEF IInv
  <2>5. QED
    BY <2>1, <2>3, <2>4
<1>3. QED
  BY <1>1, <1>2, PTL DEF Spec

\* The reading goroutine always finds room for an answer (server.go:113), since
\* no second answer to that call exists anywhere.
THEOREM DispatcherRuns == Spec => []DispatcherNotBlocked
<1>1. IInv => DispatcherNotBlocked
  BY DEF IInv, TypeOK, ReadTypeOK, ReplyInv, DispatcherNotBlocked, CanDeliver
<1>2. QED
  BY <1>1, Inductive, PTL

\* No entry of the server's maps outlives what it is for (server.go:167-169,
\* 370-378).
THEOREM EntriesFresh == Spec => []NoStaleEntries
<1>1. IInv => NoStaleEntries
  BY DEF IInv
<1>2. QED
  BY <1>1, Inductive, PTL

\* Nothing of a request is written after its response (server.go:172-177).
THEOREM ResponsesLast == Spec => []ResponseIsLast
<1>1. IInv => ResponseIsLast
  BY DEF IInv
<1>2. QED
  BY <1>1, Inductive, PTL

\* A cancel reaches the prompt whose goroutine has never been active together
\* with another's of its session (server.go:294-304, 328-332).
THEOREM CancelsReach == Spec => CancelReachesOnlyPrompt
<1> DEFINE Reaches ==
      HandleCancel =>
        \A p \in Requests :
          sessionOf[p] = Head(stdin).of /\ reqPc[p] \in InFlight =>
            p \in ctxDone' \cup crossed
<1>1. IInv => Reaches
  <2>1. SUFFICES ASSUME IInv, HandleCancel, NEW p \in Requests,
                        sessionOf[p] = Head(stdin).of, reqPc[p] \in InFlight
                 PROVE  p \in ctxDone' \cup crossed
    OBVIOUS
  <2>2. CASE cancelFuncs[sessionOf[p]] = p
    BY <2>1, <2>2, ServerAssumption DEF HandleCancel, ServerAssumption
  <2>3. QED
    BY <2>1, <2>2 DEF IInv, AloneInv
<1>2. QED
  BY <1>1, Inductive, PTL DEF CancelReachesOnlyPrompt

-----------------------------------------------------------------------------
(***************************************************************************)
(* The requests that the proxy answers (Gateway).                          *)
(***************************************************************************)

\* What the handler has written and called, by where it is.  What is relayed has
\* its status, what is collected or read has none yet.
OneAnswer ==
  /\ handler \in {"received", "calling", "relaying", "reading", "done"}
  /\ handler = "received" => status = <<>> /\ hook = <<>> /\ calls = 0
  /\ handler = "calling" => status = <<>> /\ hook = <<>> /\ calls = 1
  /\ handler = "relaying" =>
       /\ gives = "stream" /\ hook = <<>> /\ calls = 1
       /\ status = IF Relays THEN <<200>> ELSE <<>>
  /\ handler = "reading" =>
       /\ gives = "document" /\ hook = <<>> /\ calls = 1
       /\ status = IF Native THEN <<200>> ELSE <<>>
  /\ handler = "done" =>
       /\ calls \in {0, 1}
       /\ \E s \in {200, 400, 403, 405, 429, 502} : status = <<s>>
       /\ hook = <<>> \/ \E result : hook = <<result>>
       /\ calls = 1 => hook # <<>> /\ status # <<400>>

\* One element after none.
LEMMA AppendOne == \A x : Append(<<>>, x) = <<x>>
OBVIOUS

\* The handler is done, with its status and its end hook called.
LEMMA EndsOnce ==
  ASSUME NEW how, NEW result, End(how, result), hook = <<>>
  PROVE  handler' = "done" /\ hook' = <<result>>
BY AppendOne DEF End, Return

\* A request is received once.
LEMMA OneAnswerAtFirst == GatewayInit => OneAnswer
<1>1. SUFFICES ASSUME GatewayInit PROVE OneAnswer
  OBVIOUS
<1>2. handler = "received" /\ status = <<>> /\ hook = <<>> /\ calls = 0
  <2>1. handler = "received"
    BY <1>1, Zenon DEF GatewayInit
  <2>2. status = <<>>
    BY <1>1, Zenon DEF GatewayInit
  <2>3. hook = <<>>
    BY <1>1, Zenon DEF GatewayInit
  <2>4. calls = 0
    BY <1>1, Zenon DEF GatewayInit
  <2>5. QED
    BY <2>1, <2>2, <2>3, <2>4
<1>3. QED
  BY <1>2 DEF OneAnswer

\* A request that is not passed on.
LEMMA OneRefusal ==
  ASSUME OneAnswer, Refuse \/ RejectRequest \/ RequestNotBuilt
  PROVE  OneAnswer'
<1>1. handler = "received" /\ status = <<>> /\ hook = <<>> /\ calls = 0
  BY DEF Refuse, RejectRequest, RequestNotBuilt, OneAnswer
<1>2. handler' = "done" /\ calls' = 0
  BY <1>1 DEF Refuse, RejectRequest, RequestNotBuilt, End, Return
<1>3. \E s \in {400, 403, 405, 502} : status' = <<s>>
  BY <1>1, AppendOne
     DEF Refuse, RejectRequest, RequestNotBuilt, WriteStatus
<1>4. hook' = <<>> \/ \E result : hook' = <<result>>
  <2>1. CASE Refuse
    BY <1>1, <2>1 DEF Refuse
  <2>2. CASE RejectRequest
    BY <1>1, <2>2, EndsOnce DEF RejectRequest
  <2>3. CASE RequestNotBuilt
    BY <1>1, <2>3, EndsOnce DEF RequestNotBuilt
  <2>4. QED
    BY <2>1, <2>2, <2>3
<1>5. QED
  BY <1>2, <1>3, <1>4 DEF OneAnswer

\* The call of the provider, and its answer.
LEMMA OneCall ==
  ASSUME OneAnswer, CallUpstream \/ CallFails \/ UpstreamAnswers
  PROVE  OneAnswer'
<1>1. CASE CallUpstream
  BY <1>1 DEF CallUpstream, OneAnswer
<1>2. CASE CallFails
  <2>1. status = <<>> /\ hook = <<>> /\ calls = 1
    BY <1>2 DEF CallFails, OneAnswer
  <2>2. handler' = "done" /\ hook' = <<Failed>> /\ calls' = 1
    BY <1>2, <2>1, EndsOnce DEF CallFails
  <2>3. \E s \in {429, 502} : status' = <<s>>
    BY <1>2, <2>1, AppendOne DEF CallFails, WriteStatus
  <2>4. hook' # <<>> /\ status' # <<400>>
    <3>1. \A x : <<x>> # <<>>
      OBVIOUS
    <3>2. QED
      BY <2>2, <2>3, <3>1
  <2>5. QED
    BY <2>2, <2>3, <2>4 DEF OneAnswer
<1>3. CASE UpstreamAnswers
  <2>1. status = <<>> /\ hook = <<>> /\ calls = 1
    BY <1>3 DEF UpstreamAnswers, OneAnswer
  <2>2. hook' = <<>> /\ calls' = 1 /\ req' = req
    BY <1>3, <2>1 DEF UpstreamAnswers
  <2>3. PICK g \in {"stream", "document"} :
          /\ gives' = g
          /\ handler' = IF g = "stream" THEN "relaying" ELSE "reading"
          /\ IF Native \/ (g = "stream" /\ req.stream) THEN WriteStatus(200)
             ELSE UNCHANGED status
    BY <1>3 DEF UpstreamAnswers
  <2>4. status' = IF Native \/ (g = "stream" /\ req.stream)
                  THEN <<200>> ELSE <<>>
    BY <2>1, <2>3, AppendOne DEF WriteStatus
  <2>5. Native' = Native
    BY <2>2 DEF Native
  <2>6. QED
    BY <2>2, <2>3, <2>4, <2>5 DEF OneAnswer, Relays
<1>4. QED
  BY <1>1, <1>2, <1>3

\* The handler is done with an answer of the provider.
LEMMA OneEnd ==
  ASSUME OneAnswer, handler \in {"relaying", "reading"},
         NEW how, NEW result, End(how, result), calls' = calls,
         \/ status = <<>> /\ \E s \in {200, 502} : WriteStatus(s)
         \/ status # <<>> /\ status' = status
  PROVE  OneAnswer'
<1>1. hook = <<>> /\ calls = 1 /\ status \in {<<>>, <<200>>}
  BY DEF OneAnswer
<1>2. handler' = "done" /\ hook' = <<result>> /\ calls' = 1
  BY <1>1, EndsOnce
<1>3. \E s \in {200, 502} : status' = <<s>>
  <2>1. CASE status = <<>> /\ \E s \in {200, 502} : WriteStatus(s)
    BY <2>1, AppendOne DEF WriteStatus
  <2>2. CASE status # <<>> /\ status' = status
    BY <1>1, <2>2
  <2>3. QED
    BY <2>1, <2>2
<1>4. \A x : <<x>> # <<>> /\ (<<x>> = <<400>> => x = 400)
  OBVIOUS
<1>5. hook' # <<>> /\ status' # <<400>>
  BY <1>2, <1>3, <1>4
<1>6. QED
  BY <1>2, <1>3, <1>5 DEF OneAnswer

\* A stream, event by event, to its end or to its failure.
LEMMA OneStream ==
  ASSUME OneAnswer,
         \/ \E i \in DOMAIN todo : RelayEvent(i)
         \/ EndOfStream \/ StreamFails \/ ClientGone
  PROVE  OneAnswer'
<1>0. handler = "relaying"
  BY DEF RelayEvent, EndOfStream, StreamFails, ClientGone
<1>1. /\ handler = "relaying" /\ gives = "stream"
      /\ status = IF Relays THEN <<200>> ELSE <<>>
  BY <1>0 DEF OneAnswer
<1>2. CASE \E i \in DOMAIN todo : RelayEvent(i)
  <2>1. UNCHANGED <<req, handler, gives, status, calls, hook>>
    BY <1>2 DEF RelayEvent
  <2>2. QED
    BY <2>1 DEF OneAnswer, Relays, Native
<1>3. CASE EndOfStream
  <2>1. PICK how, result : End(how, result)
    BY <1>3 DEF EndOfStream
  <2>2. IF Relays THEN UNCHANGED status ELSE WriteStatus(200)
    BY <1>3 DEF EndOfStream
  <2>3. calls' = calls
    BY <1>3 DEF EndOfStream
  <2>4. <<200>> # <<>>
    OBVIOUS
  <2>5. \/ status = <<>> /\ \E s \in {200, 502} : WriteStatus(s)
        \/ status # <<>> /\ status' = status
    BY <1>1, <2>2, <2>4
  <2>6. QED
    BY <1>1, <2>1, <2>3, <2>5, OneEnd
<1>4. CASE StreamFails
  <2>1. End("failed", Failed) /\ calls' = calls
    BY <1>4 DEF StreamFails
  <2>2. IF Relays THEN UNCHANGED status ELSE WriteStatus(502)
    BY <1>4 DEF StreamFails
  <2>3. <<200>> # <<>>
    OBVIOUS
  <2>4. \/ status = <<>> /\ \E s \in {200, 502} : WriteStatus(s)
        \/ status # <<>> /\ status' = status
    BY <1>1, <2>2, <2>3
  <2>5. QED
    BY <1>1, <2>1, <2>4, OneEnd
<1>5. CASE ClientGone
  <2>1. End("failed", Failed) /\ calls' = calls /\ status' = status /\ Relays
    BY <1>5 DEF ClientGone
  <2>2. status # <<>>
    BY <1>1, <2>1
  <2>3. QED
    BY <1>1, <2>1, <2>2, OneEnd
<1>6. QED
  BY <1>2, <1>3, <1>4, <1>5

\* A document.
LEMMA OneDocument ==
  ASSUME OneAnswer,
         \/ DocumentFails \/ CopyDocument \/ TranslateDocument \/ RenderBroken
  PROVE  OneAnswer'
<1>1. /\ handler = "reading"
      /\ status = IF Native THEN <<200>> ELSE <<>>
  BY DEF OneAnswer, DocumentFails, CopyDocument, TranslateDocument,
         RenderBroken
<1>2. PICK how, result : End(how, result)
  BY DEF DocumentFails, CopyDocument, TranslateDocument, RenderBroken
<1>3. calls' = calls
  BY DEF DocumentFails, CopyDocument, TranslateDocument, RenderBroken
<1>4. \/ Native /\ status' = status
      \/ ~Native /\ \E s \in {200, 502} : WriteStatus(s)
  BY DEF DocumentFails, CopyDocument, TranslateDocument, RenderBroken
<1>5. <<200>> # <<>>
  OBVIOUS
<1>6. \/ status = <<>> /\ \E s \in {200, 502} : WriteStatus(s)
      \/ status # <<>> /\ status' = status
  BY <1>1, <1>4, <1>5
<1>7. QED
  BY <1>1, <1>2, <1>3, <1>6, OneEnd

\* No step answers twice.
LEMMA OneAnswerStep == OneAnswer /\ [GatewayNext]_gatewayVars => OneAnswer'
<1>1. CASE UNCHANGED gatewayVars
  BY <1>1 DEF gatewayVars, OneAnswer, Relays, Native
<1>2. QED
  BY <1>1, OneRefusal, OneCall, OneStream, OneDocument DEF GatewayNext

\* The handler of a request answers it once: one status line, the provider
\* called at most once and never for a request that it rejects, the end hook
\* called once for every call (proxy/gateway.go).
THEOREM RequestsAnsweredOnce == GatewaySpec => []AnsweredOnce
<1>1. OneAnswer => AnsweredOnce
  <2>1. \A x : Len(<<x>>) = 1 /\ <<x>>[1] = x /\ <<x>> # <<>>
    OBVIOUS
  <2>2. Len(<<>>) = 0
    OBVIOUS
  <2>3. SUFFICES ASSUME OneAnswer PROVE AnsweredOnce
    OBVIOUS
  <2>4. Len(status) <= 1 /\ Len(hook) <= 1 /\ calls <= 1
    <3>1. status = <<>> \/ \E s : status = <<s>>
      BY <2>3 DEF OneAnswer
    <3>2. hook = <<>> \/ \E result : hook = <<result>>
      BY <2>3 DEF OneAnswer
    <3>3. calls \in {0, 1}
      BY <2>3 DEF OneAnswer
    <3>4. Len(status) <= 1
      <4>1. CASE status = <<>>
        BY <2>2, <4>1
      <4>2. ASSUME NEW s, status = <<s>> PROVE Len(status) <= 1
        BY <4>2
      <4>3. QED
        BY <3>1, <4>1, <4>2
    <3>5. Len(hook) <= 1
      <4>1. CASE hook = <<>>
        BY <2>2, <4>1
      <4>2. ASSUME NEW result, hook = <<result>> PROVE Len(hook) <= 1
        BY <4>2
      <4>3. QED
        BY <3>2, <4>1, <4>2
    <3>6. QED
      BY <3>3, <3>4, <3>5
  <2>5. ASSUME handler = "done"
        PROVE  /\ Len(status) = 1
               /\ calls = 1 => hook # <<>>
               /\ status[1] = 400 => calls = 0
    BY <2>1, <2>2, <2>3, <2>5 DEF OneAnswer
  <2>6. QED
    BY <2>4, <2>5 DEF AnsweredOnce
<1>2. QED
  BY <1>1, OneAnswerAtFirst, OneAnswerStep, PTL DEF GatewaySpec

-----------------------------------------------------------------------------
(***************************************************************************)
(* The streams that the proxy writes (Gateway).                            *)
(*                                                                         *)
(* What has been written to a client is a well-formed beginning of a       *)
(* stream, and an encoder writes only what keeps it one, given events in   *)
(* an order that each decoder keeps to, whatever the order in which the    *)
(* provider's parts come.                                                  *)
(***************************************************************************)

-----------------------------------------------------------------------------
(* Joining and flattening, as Folding has them.                           *)

\* Joining, as an operator that the provers leave alone.
Cat(s, t) == s \o t

\* What joining gives.
LEMMA CatType ==
  ASSUME NEW S, NEW s \in Seq(S), NEW t \in Seq(S)
  PROVE  Cat(s, t) \in Seq(S)
BY StreamFold!CatType DEF Cat, StreamFold!Cat

\* The end of a sequence is the end of what it is joined to.
LEMMA CatAppend ==
  ASSUME NEW S, NEW s \in Seq(S), NEW t \in Seq(S), NEW e \in S
  PROVE  /\ Append(t, e) \in Seq(S)
         /\ Cat(s, Append(t, e)) = Append(Cat(s, t), e)
BY StreamFold!CatAppend DEF Cat, StreamFold!Cat

\* The FlattenSeq of the folds.
LEMMA FlattenSame == \A ss : FlattenSeq(ss) = StreamFold!FlattenSeq(ss)
BY DEF FlattenSeq, StreamFold!FlattenSeq

\* One sequence more.
LEMMA FlattenAppend ==
  ASSUME NEW S, NEW ss \in Seq(Seq(S)), NEW s \in Seq(S)
  PROVE  FlattenSeq(Append(ss, s)) = Cat(FlattenSeq(ss), s)
<1>1. StreamFold!FlattenSeq(Append(ss, s))
        = StreamFold!Cat(StreamFold!FlattenSeq(ss), s)
  BY StreamFold!FlattenAppend
<1>2. QED
  BY <1>1, FlattenSame DEF Cat, StreamFold!Cat

\* Nothing to flatten.
LEMMA FlattenEmpty == FlattenSeq(<<>>) = <<>>
BY FlattenSame, StreamFold!FlattenEmpty

-----------------------------------------------------------------------------
(* What has been written to a client, event by event.                      *)

\* IsOpen, of any events.
OpenIn(w, k, i) ==
  \E j \in 1..(k - 1) :
    /\ Opens(w[j]) /\ w[j].index = i
    /\ \A l \in (j + 1)..(k - 1) : ~(Closes(w[l]) /\ w[l].index = i)

OpenedBy(e) == IF Opens(e) THEN {e.index} ELSE {}
ClosedBy(e) == IF Closes(e) THEN {e.index} ELSE {}
IsSeq(w) == \E S : w \in Seq(S)
Inert(e) == ~(Begins(e) \/ Opens(e) \/ Extends(e) \/ Closes(e) \/ Ends(e))

\* A well-formed beginning of a stream: whether it has begun, the indexes of
\* the blocks that have been opened, those that are still open, whether it has
\* ended.
Tidy(w, begun, opened, open, ended) ==
  /\ IsSeq(w)
  /\ \A k \in 1..Len(w) : Begins(w[k]) => k = 1
  /\ begun => w # <<>> /\ Begins(w[1])
  /\ \A k \in 1..Len(w) : Opens(w[k]) =>
       /\ w[k].index \in opened
       /\ \A j \in 1..(k - 1) : Opens(w[j]) => w[j].index # w[k].index
  /\ \A k \in 1..Len(w) :
       Extends(w[k]) \/ Closes(w[k]) => OpenIn(w, k, w[k].index)
  /\ \A k \in 1..Len(w) : Ends(w[k]) => k = Len(w) /\ ended
  /\ ended => w # <<>> /\ Ends(w[Len(w)])
  /\ \A i \in open : OpenIn(w, Len(w) + 1, i)
  /\ \A k \in 1..Len(w) :
       Opens(w[k]) /\ OpenIn(w, Len(w) + 1, w[k].index) => w[k].index \in open

\* A block is open by what comes before.
LEMMA OpenLocal ==
  ASSUME NEW w, NEW v, NEW k \in Nat, NEW i,
         \A j \in 1..(k - 1) : v[j] = w[j]
  PROVE  OpenIn(v, k, i) <=> OpenIn(w, k, i)
BY DEF OpenIn

\* What an event does to the blocks that are open.
LEMMA OpenNext ==
  ASSUME NEW w, NEW k \in Nat \ {0}, NEW i
  PROVE  OpenIn(w, k + 1, i)
           <=> \/ Opens(w[k]) /\ w[k].index = i
               \/ OpenIn(w, k, i) /\ ~(Closes(w[k]) /\ w[k].index = i)
<1>1. ASSUME OpenIn(w, k + 1, i), ~(Opens(w[k]) /\ w[k].index = i)
      PROVE  OpenIn(w, k, i) /\ ~(Closes(w[k]) /\ w[k].index = i)
  <2>1. PICK j \in 1..k :
          /\ Opens(w[j]) /\ w[j].index = i
          /\ \A l \in (j + 1)..k : ~(Closes(w[l]) /\ w[l].index = i)
    BY <1>1 DEF OpenIn
  <2>2. j # k
    BY <1>1, <2>1
  <2>3. /\ j \in 1..(k - 1) /\ k \in (j + 1)..k
        /\ \A l \in (j + 1)..(k - 1) : l \in (j + 1)..k
    BY <2>2
  <2>4. QED
    BY <2>1, <2>3 DEF OpenIn
<1>2. ASSUME Opens(w[k]), w[k].index = i PROVE OpenIn(w, k + 1, i)
  <2>1. k \in 1..((k + 1) - 1) /\ (k + 1)..((k + 1) - 1) = {}
    OBVIOUS
  <2>2. QED
    BY <1>2, <2>1 DEF OpenIn
<1>3. ASSUME OpenIn(w, k, i), ~(Closes(w[k]) /\ w[k].index = i)
      PROVE  OpenIn(w, k + 1, i)
  <2>1. PICK j \in 1..(k - 1) :
          /\ Opens(w[j]) /\ w[j].index = i
          /\ \A l \in (j + 1)..(k - 1) : ~(Closes(w[l]) /\ w[l].index = i)
    BY <1>3 DEF OpenIn
  <2>2. /\ j \in 1..((k + 1) - 1)
        /\ \A l \in (j + 1)..((k + 1) - 1) : l \in (j + 1)..(k - 1) \/ l = k
    OBVIOUS
  <2>3. QED
    BY <1>3, <2>1, <2>2 DEF OpenIn
<1>4. QED
  BY <1>1, <1>2, <1>3

\* A sequence and one element more.
LEMMA OneMore ==
  ASSUME NEW w, IsSeq(w), NEW e
  PROVE  /\ IsSeq(Append(w, e)) /\ Len(w) \in Nat
         /\ Len(Append(w, e)) = Len(w) + 1 /\ Append(w, e) # <<>>
         /\ Append(w, e)[Len(w) + 1] = e
         /\ \A k \in 1..Len(w) : Append(w, e)[k] = w[k]
<1>1. PICK S : w \in Seq(S)
  BY DEF IsSeq
<1>2. w \in Seq(S \cup {e}) /\ e \in S \cup {e}
  BY <1>1
<1> HIDE <1>1
<1>3. Append(w, e) \in Seq(S \cup {e})
  BY <1>2
<1>4. QED
  BY <1>2, <1>3 DEF IsSeq

\* One event more: it begins what is empty, opens what has not been opened,
\* extends or closes what is open, and is the last if it ends the stream.
LEMMA TidyAppend ==
  ASSUME NEW w, NEW begun \in BOOLEAN, NEW opened, NEW open,
         Tidy(w, begun, opened, open, FALSE), NEW e,
         Begins(e) => w = <<>>,
         Opens(e) => e.index \notin opened,
         Extends(e) \/ Closes(e) => e.index \in open,
         ~(Opens(e) /\ Closes(e)),
         open \subseteq opened
  PROVE  Tidy(Append(w, e), begun \/ Begins(e), opened \cup OpenedBy(e),
              (open \cup OpenedBy(e)) \ ClosedBy(e), Ends(e))
<1> DEFINE v == Append(w, e)
           n == Len(w)
           L == (open \cup OpenedBy(e)) \ ClosedBy(e)
<1>1. /\ IsSeq(v) /\ n \in Nat /\ Len(v) = n + 1 /\ v # <<>> /\ v[n + 1] = e
      /\ \A k \in 1..n : v[k] = w[k]
  BY OneMore DEF Tidy
<1>2. w = <<>> <=> n = 0
  <2>1. PICK S : w \in Seq(S)
    BY DEF Tidy, IsSeq
  <2>2. QED
    BY <2>1
<1> HIDE DEF v, n
<1>3. \A k \in 1..(n + 1) : k \in 1..n \/ k = n + 1
  BY <1>1
<1>4. ASSUME NEW k \in 1..(n + 1), NEW i
      PROVE  OpenIn(v, k, i) <=> OpenIn(w, k, i)
  <2>1. k \in Nat /\ \A j \in 1..(k - 1) : v[j] = w[j]
    BY <1>1
  <2>2. QED
    BY <2>1, OpenLocal
<1>5. ASSUME NEW i
      PROVE  OpenIn(v, Len(v) + 1, i)
               <=> \/ Opens(e) /\ e.index = i
                   \/ OpenIn(w, n + 1, i) /\ ~(Closes(e) /\ e.index = i)
  <2>1. n + 1 \in Nat \ {0} /\ n + 1 \in 1..(n + 1) /\ Len(v) + 1 = (n + 1) + 1
    BY <1>1
  <2>2. OpenIn(v, (n + 1) + 1, i)
          <=> \/ Opens(v[n + 1]) /\ v[n + 1].index = i
              \/ /\ OpenIn(v, n + 1, i)
                 /\ ~(Closes(v[n + 1]) /\ v[n + 1].index = i)
    BY <2>1, OpenNext
  <2>3. QED
    BY <1>1, <1>4, <2>1, <2>2
<1>6. \A k \in 1..Len(v) : Begins(v[k]) => k = 1
  BY <1>1, <1>2, <1>3 DEF Tidy, n
<1>7. begun \/ Begins(e) => v # <<>> /\ Begins(v[1])
  <2>1. CASE n = 0
    BY <1>1, <1>2, <2>1 DEF Tidy
  <2>2. CASE n # 0
    <3>1. 1 \in 1..n
      BY <1>1, <2>2
    <3>2. QED
      BY <1>1, <1>2, <2>2, <3>1 DEF Tidy
  <2>3. QED
    BY <2>1, <2>2
<1>8. ASSUME NEW k \in 1..Len(v), Opens(v[k])
      PROVE  /\ v[k].index \in opened \cup OpenedBy(e)
             /\ \A j \in 1..(k - 1) : Opens(v[j]) => v[j].index # v[k].index
  <2>1. CASE k \in 1..n
    <3>1. \A j \in 1..(k - 1) : j \in 1..n
      BY <1>1, <2>1
    <3>2. /\ w[k].index \in opened
          /\ \A j \in 1..(k - 1) : Opens(w[j]) => w[j].index # w[k].index
      BY <1>1, <1>8, <2>1 DEF Tidy, n
    <3>3. QED
      BY <1>1, <2>1, <3>1, <3>2
  <2>2. CASE k = n + 1
    <3>1. \A j \in 1..(k - 1) : j \in 1..n
      BY <1>1, <2>2
    <3>2. \A j \in 1..n : Opens(w[j]) => w[j].index \in opened
      BY DEF Tidy, n
    <3>3. QED
      BY <1>1, <1>8, <2>2, <3>1, <3>2 DEF OpenedBy
  <2>3. QED
    BY <1>1, <1>3, <2>1, <2>2
<1>9. ASSUME NEW k \in 1..Len(v), Extends(v[k]) \/ Closes(v[k])
      PROVE  OpenIn(v, k, v[k].index)
  <2>1. CASE k \in 1..n
    <3>1. OpenIn(w, k, w[k].index)
      BY <1>1, <1>9, <2>1 DEF Tidy, n
    <3>2. QED
      BY <1>1, <1>4, <2>1, <3>1
  <2>2. CASE k = n + 1
    <3>1. e.index \in open
      BY <1>1, <1>9, <2>2
    <3>2. OpenIn(w, n + 1, e.index)
      BY <3>1 DEF Tidy, n
    <3>3. QED
      BY <1>1, <1>4, <2>2, <3>2
  <2>3. QED
    BY <1>1, <1>3, <2>1, <2>2
<1>10. \A k \in 1..Len(v) : Ends(v[k]) => k = Len(v) /\ Ends(e)
  BY <1>1, <1>3 DEF Tidy, n
<1>11. Ends(e) => v # <<>> /\ Ends(v[Len(v)])
  BY <1>1
<1>12. \A i \in L : OpenIn(v, Len(v) + 1, i)
  <2>1. \A i \in open : OpenIn(w, n + 1, i)
    BY DEF Tidy, n
  <2>2. QED
    BY <1>5, <2>1 DEF OpenedBy, ClosedBy
<1>13. ASSUME NEW k \in 1..Len(v), Opens(v[k]),
              OpenIn(v, Len(v) + 1, v[k].index)
       PROVE  v[k].index \in L
  <2>1. CASE k = n + 1
    BY <1>1, <1>13, <2>1 DEF OpenedBy, ClosedBy
  <2>2. CASE k \in 1..n
    <3>1. w[k].index \in opened /\ w[k] = v[k]
      BY <1>1, <1>13, <2>2 DEF Tidy, n
    <3>2. OpenIn(w, n + 1, w[k].index) /\ ~(Closes(e) /\ e.index = w[k].index)
      BY <1>5, <1>13, <3>1
    <3>3. w[k].index \in open
      BY <1>13, <2>2, <3>1, <3>2 DEF Tidy, n
    <3>4. QED
      BY <3>1, <3>2, <3>3 DEF ClosedBy
  <2>3. QED
    BY <1>1, <1>3, <2>1, <2>2
<1>14. QED
  BY <1>1, <1>6, <1>7, <1>8, <1>9, <1>10, <1>11, <1>12, <1>13
     DEF Tidy, v, L

\* An event that is none of these leaves a stream as it is.
LEMMA TidyQuiet ==
  ASSUME NEW w, NEW begun \in BOOLEAN, NEW opened, NEW open,
         Tidy(w, begun, opened, open, FALSE), NEW e, Inert(e),
         open \subseteq opened
  PROVE  Tidy(Append(w, e), begun, opened, open, FALSE)
<1>1. Tidy(Append(w, e), begun \/ Begins(e), opened \cup OpenedBy(e),
           (open \cup OpenedBy(e)) \ ClosedBy(e), Ends(e))
  BY TidyAppend DEF Inert
<1>2. /\ (begun \/ Begins(e)) = begun /\ opened \cup OpenedBy(e) = opened
      /\ (open \cup OpenedBy(e)) \ ClosedBy(e) = open /\ Ends(e) = FALSE
  BY DEF Inert, OpenedBy, ClosedBy, Begins, Ends
<1>3. QED
  BY <1>1, <1>2

\* Writing one, two or three events.
LEMMA Writing ==
  ASSUME NEW w, IsSeq(w)
  PROVE  /\ w \o <<>> = w
         /\ \A a : w \o <<a>> = Append(w, a)
         /\ \A a, b : w \o <<a, b>> = Append(Append(w, a), b)
         /\ \A a, b, d :
              w \o <<a, b, d>> = Append(Append(Append(w, a), b), d)
         /\ \A a : <<a>> \o <<>> = <<a>>
         /\ \A a, b : <<a>> \o <<b>> = <<a, b>>
         /\ \A a : <<>> \o <<a>> = <<a>>
<1>1. PICK S : w \in Seq(S)
  BY DEF IsSeq
<1>2. w \o <<>> = w
  BY <1>1
<1>3. ASSUME NEW a PROVE w \o <<a>> = Append(w, a)
  <2>1. w \in Seq(S \cup {a}) /\ a \in S \cup {a}
    BY <1>1
  <2> HIDE <1>1
  <2>2. QED
    BY <2>1
<1>4. ASSUME NEW a, NEW b PROVE w \o <<a, b>> = Append(Append(w, a), b)
  <2>1. w \in Seq(S \cup {a, b}) /\ a \in S \cup {a, b} /\ b \in S \cup {a, b}
    BY <1>1
  <2> HIDE <1>1
  <2>2. QED
    BY <2>1
<1>5. ASSUME NEW a, NEW b, NEW d
      PROVE  w \o <<a, b, d>> = Append(Append(Append(w, a), b), d)
  <2>1. /\ w \in Seq(S \cup {a, b, d})
        /\ a \in S \cup {a, b, d} /\ b \in S \cup {a, b, d}
        /\ d \in S \cup {a, b, d}
    BY <1>1
  <2> HIDE <1>1
  <2>2. QED
    BY <2>1
<1>6. /\ \A a : <<a>> \o <<>> = <<a>>
      /\ \A a, b : <<a>> \o <<b>> = <<a, b>>
      /\ \A a : <<>> \o <<a>> = <<a>>
  <2>1. ASSUME NEW a PROVE <<a>> \o <<>> = <<a>> /\ <<>> \o <<a>> = <<a>>
    OBVIOUS
  <2>2. ASSUME NEW a, NEW b PROVE <<a>> \o <<b>> = <<a, b>>
    <3>1. <<a>> \in Seq({a, b}) /\ <<b>> \in Seq({a, b})
      OBVIOUS
    <3>2. Len(<<a>> \o <<b>>) = 2 /\ <<a>> \o <<b>> \in Seq({a, b})
      BY <3>1
    <3>3. (<<a>> \o <<b>>)[1] = a /\ (<<a>> \o <<b>>)[2] = b
      BY <3>1
    <3>4. /\ <<a, b>> \in Seq({a, b}) /\ Len(<<a, b>>) = 2
          /\ \A i \in 1..2 : (<<a>> \o <<b>>)[i] = <<a, b>>[i]
      BY <3>3
    <3>5. QED
      BY <3>2, <3>4, StreamFold!SeqEqual
  <2>3. QED
    BY <2>1, <2>2
<1>7. QED
  BY <1>2, <1>3, <1>4, <1>5, <1>6

\* What each event is.
LEMMA OpeningEvents ==
  ASSUME NEW e,
         \/ e.type \in {"message_start", "response.created"}
         \/ e.type = "chunk" /\ e.kind = "role"
  PROVE  Begins(e) /\ ~Opens(e) /\ ~Extends(e) /\ ~Closes(e) /\ ~Ends(e)
BY DEF Begins, Opens, Extends, Closes, Ends, DeltaType, ContentTypes

\* Events that open a block.
LEMMA BlockEvents ==
  ASSUME NEW e,
         \/ e.type \in {"content_block_start", "output_item.added"}
         \/ e.type = "chunk" /\ e.kind = "tool_call" /\ e.id # -1
  PROVE  Opens(e) /\ ~Begins(e) /\ ~Extends(e) /\ ~Closes(e) /\ ~Ends(e)
BY DEF Begins, Opens, Extends, Closes, Ends, DeltaType, ContentTypes

\* Events that extend a block.
LEMMA DeltaEvents ==
  ASSUME NEW e,
         \/ e.type \in {"content_block_delta", "output_text.delta",
                        "function_call_arguments.delta",
                        "reasoning_summary_text.delta"}
         \/ e.type = "chunk" /\ e.kind = "tool_call" /\ e.id = -1
  PROVE  Extends(e) /\ ~Begins(e) /\ ~Opens(e) /\ ~Closes(e) /\ ~Ends(e)
BY DEF Begins, Opens, Extends, Closes, Ends, DeltaType, ContentTypes

\* Events that close a block.
LEMMA CloseEvents ==
  ASSUME NEW e, e.type \in {"content_block_stop", "output_item.done"}
  PROVE  Closes(e) /\ ~Begins(e) /\ ~Opens(e) /\ ~Extends(e) /\ ~Ends(e)
BY DEF Begins, Opens, Extends, Closes, Ends, DeltaType, ContentTypes

\* Events that end the stream.
LEMMA EndEvents ==
  ASSUME NEW e, e.type \in {"message_stop", "response.completed", "[DONE]"}
  PROVE  Ends(e) /\ ~Begins(e) /\ ~Opens(e) /\ ~Extends(e) /\ ~Closes(e)
BY DEF Begins, Opens, Extends, Closes, Ends, DeltaType, ContentTypes

\* Events that do none of this.
LEMMA QuietEvents ==
  ASSUME NEW e,
         \/ e.type \in {"content_part.added", "content_part.done",
                        "response.in_progress", "message_delta"}
         \/ /\ e.type = "chunk"
            /\ e.kind \in {"text", "reasoning", "finish", "usage"}
  PROVE  Inert(e)
BY DEF Inert, Begins, Opens, Extends, Closes, Ends, DeltaType, ContentTypes

-----------------------------------------------------------------------------
(* The collector, and what an encoder has written with it.                 *)

IsContent(b) == b = [type |-> b.type, id |-> b.id, text |-> b.text]
IsCollector(c) ==
  /\ c = [content |-> c.content, blocks |-> c.blocks, stop |-> c.stop,
          usage |-> c.usage]
  /\ \A i \in DOMAIN c.blocks :
       IsContent(c.blocks[i]) /\ c.blocks[i].type \in ContentTypes

\* The blocks that there are, and their types.
Types(c) == [i \in DOMAIN c.blocks |-> c.blocks[i].type]

\* The blocks that a protocol opens: chat opens tool calls, and closes none.
Opened(p, types) ==
  IF p = "chat" THEN {i \in DOMAIN types : types[i] = "tool_call"}
  ELSE DOMAIN types
Open(p, types, live) == IF p = "chat" THEN Opened(p, types) ELSE live

\* An encoder of p has collected blocks of these types, some of them live, and
\* has written what is well formed.
Emitted(p, c, w, begun, types, live, ended) ==
  /\ IsCollector(c) /\ types = Types(c)
  /\ live \subseteq DOMAIN types
  /\ ~begun /\ ~ended => w = <<>>
  /\ Tidy(w, begun, Opened(p, types), Open(p, types, live), ended)

\* What an event does to the collector.
LEMMA StartCollected ==
  ASSUME NEW c, IsCollector(c), NEW u
  PROVE  IsCollector(Apply(c, Start(u))) /\ Types(Apply(c, Start(u))) = Types(c)
<1>1. Apply(c, Start(u)) = [c EXCEPT !.usage = IF u.known THEN u ELSE @]
  BY DEF Apply, Start
<1>2. QED
  BY <1>1 DEF IsCollector, Types

\* The end adds no block.
LEMMA DoneCollected ==
  ASSUME NEW c, IsCollector(c), NEW s, NEW u
  PROVE  /\ IsCollector(Apply(c, Done(s, u)))
         /\ Types(Apply(c, Done(s, u))) = Types(c)
<1>1. Apply(c, Done(s, u))
        = [c EXCEPT !.stop = DefaultStopReason(s),
                    !.usage = IF u.known THEN u ELSE @]
  BY DEF Apply, Done
<1>2. QED
  BY <1>1 DEF IsCollector, Types

\* A block that is closed keeps its type.
LEMMA StopCollected ==
  ASSUME NEW c, IsCollector(c), NEW i
  PROVE  /\ IsCollector(Apply(c, ContentStop(i)))
         /\ Apply(c, ContentStop(i)).blocks = c.blocks
<1> DEFINE b == c.blocks[i]
           d == IF b.type = "tool_call"
                THEN [b EXCEPT !.text = ParseArguments(@)] ELSE b
<1>1. Apply(c, ContentStop(i))
        = IF i \in DOMAIN c.blocks
          THEN [c EXCEPT !.content = Append(@, d)] ELSE c
  BY DEF Apply, ContentStop
<1> HIDE DEF d
<1>2. QED
  BY <1>1 DEF IsCollector

\* A block is opened with its type.
LEMMA ContentStartCollected ==
  ASSUME NEW c, IsCollector(c), NEW i, NEW type \in ContentTypes, NEW id,
         NEW d, d = Apply(c, ContentStart(i, type, id))
  PROVE  /\ IsCollector(d)
         /\ Types(d) = Put(Types(c), i, type)
<1> DEFINE b == Content(type, id, <<>>)
<1>1. d = [c EXCEPT !.blocks = Put(@, i, b)]
  BY DEF Apply, ContentStart
<1>2. IsContent(b) /\ b.type = type
  BY DEF Content, IsContent
<1> HIDE DEF b
<1>3. d.blocks = Put(c.blocks, i, b)
  BY <1>1 DEF IsCollector
<1>4. /\ DOMAIN d.blocks = DOMAIN c.blocks \cup {i}
      /\ \A j \in DOMAIN d.blocks :
           d.blocks[j] = IF j = i THEN b ELSE c.blocks[j]
  BY <1>3 DEF Put
<1>5. IsCollector(d)
  <2>1. \A j \in DOMAIN d.blocks :
          IsContent(d.blocks[j]) /\ d.blocks[j].type \in ContentTypes
    BY <1>2, <1>4 DEF IsCollector
  <2>2. d = [content |-> d.content, blocks |-> d.blocks, stop |-> d.stop,
             usage |-> d.usage]
    BY <1>1 DEF IsCollector
  <2>3. QED
    BY <2>1, <2>2 DEF IsCollector
<1>6. Types(d) = Put(Types(c), i, type)
  <2>1. \A j \in DOMAIN d.blocks :
          d.blocks[j].type = IF j = i THEN type ELSE Types(c)[j]
    BY <1>2, <1>4 DEF Types
  <2>2. DOMAIN Types(c) = DOMAIN c.blocks
    BY DEF Types
  <2>3. QED
    BY <1>4, <2>1, <2>2 DEF Types, Put
<1>7. QED
  BY <1>5, <1>6

\* Content with another text is content, of the same type.
LEMMA ContentExtended ==
  ASSUME NEW y, IsContent(y), NEW t, NEW b, b = [y EXCEPT !.text = t]
  PROVE  IsContent(b) /\ b.type = y.type
<1>1. b = [type |-> y.type, id |-> y.id, text |-> t]
  BY DEF IsContent
<1>2. b.type = y.type /\ b.id = y.id /\ b.text = t
  BY <1>1
<1>3. QED
  BY <1>1, <1>2 DEF IsContent

\* More of a block leaves it its type.
LEMMA DeltaCollected ==
  ASSUME NEW c, IsCollector(c), NEW i \in DOMAIN c.blocks, NEW type, NEW text,
         NEW d, d = Apply(c, ContentDelta(i, type, text))
  PROVE  IsCollector(d) /\ Types(d) = Types(c)
<1> DEFINE y == c.blocks[i]
           b == [y EXCEPT !.text = @ \o text]
<1>1. d = [c EXCEPT !.blocks = Put(@, i, b)]
  <2> DEFINE ev == ContentDelta(i, type, text)
  <2>1. ev.type = "content_delta" /\ ev.index = i /\ ev.content.text = text
    BY DEF ContentDelta, Content
  <2> HIDE DEF ev
  <2>2. Block(c, ev) = c.blocks[i]
    BY <2>1 DEF Block
  <2>3. Apply(c, ev)
          = [c EXCEPT !.blocks =
               Put(@, i, [Block(c, ev) EXCEPT !.text = @ \o text])]
    BY <2>1 DEF Apply
  <2>4. QED
    BY <2>2, <2>3 DEF ev
<1>2. IsContent(b) /\ b.type = c.blocks[i].type
  <2>1. IsContent(y)
    BY DEF IsCollector
  <2> HIDE DEF y
  <2>2. b = [y EXCEPT !.text = y.text \o text]
    OBVIOUS
  <2> HIDE DEF b
  <2>3. IsContent(b) /\ b.type = y.type
    BY <2>1, <2>2, ContentExtended
  <2>4. QED
    BY <2>3 DEF y
<1> HIDE DEF b
<1>3. d.blocks = Put(c.blocks, i, b)
  BY <1>1 DEF IsCollector
<1>4. /\ DOMAIN d.blocks = DOMAIN c.blocks
      /\ \A j \in DOMAIN d.blocks :
           d.blocks[j] = IF j = i THEN b ELSE c.blocks[j]
  BY <1>3 DEF Put
<1>5. IsCollector(d)
  <2>1. \A j \in DOMAIN d.blocks :
          IsContent(d.blocks[j]) /\ d.blocks[j].type \in ContentTypes
    BY <1>2, <1>4 DEF IsCollector
  <2>2. d = [content |-> d.content, blocks |-> d.blocks, stop |-> d.stop,
             usage |-> d.usage]
    BY <1>1 DEF IsCollector
  <2>3. QED
    BY <2>1, <2>2 DEF IsCollector
<1>6. Types(d) = Types(c)
  BY <1>2, <1>4 DEF Types
<1>7. QED
  BY <1>5, <1>6

\* The stream begins.
LEMMA StartWritten ==
  ASSUME NEW p \in Protocols, NEW c, NEW w, NEW types, NEW live,
         Emitted(p, c, w, FALSE, types, live, FALSE), NEW u,
         NEW d, d = Apply(c, Start(u))
  PROVE  Emitted(p, d, w \o Encode(p, d, Start(u)), TRUE, types, live, FALSE)
<1> DEFINE A == Opened(p, types)
           L == Open(p, types, live)
           wires == Encode(p, d, Start(u))
<1>1. IsCollector(d) /\ types = Types(d)
  BY StartCollected DEF Emitted
<1>2. w = <<>> /\ IsSeq(w) /\ Tidy(w, FALSE, A, L, FALSE)
  BY DEF Emitted, Tidy
<1>3. L \subseteq A
  BY DEF Emitted, Open, Opened
<1> HIDE DEF A, L
<1>4. ASSUME NEW e, Begins(e), ~Opens(e), ~Extends(e), ~Closes(e), ~Ends(e)
      PROVE  Tidy(Append(w, e), TRUE, A, L, FALSE)
  <2>1. Tidy(Append(w, e), FALSE \/ Begins(e), A \cup OpenedBy(e),
             (L \cup OpenedBy(e)) \ ClosedBy(e), Ends(e))
    BY <1>2, <1>3, <1>4, TidyAppend
  <2>2. /\ (FALSE \/ Begins(e)) = TRUE /\ A \cup OpenedBy(e) = A
        /\ (L \cup OpenedBy(e)) \ ClosedBy(e) = L /\ Ends(e) = FALSE
    BY <1>4 DEF OpenedBy, ClosedBy, Begins, Ends
  <2>3. QED
    BY <2>1, <2>2
<1>5. Tidy(w \o wires, TRUE, A, L, FALSE)
  <2>1. CASE p = "anthropic"
    <3> DEFINE e == Closing("message_start", "", Usage(u.input, 0))
    <3>1. wires = <<e>>
      BY <2>1 DEF Encode, EncodeAnthropic, Start
    <3>2. e.type = "message_start"
      BY DEF Closing
    <3> HIDE DEF e, wires
    <3>3. w \o <<e>> = Append(w, e)
      BY <1>2, Writing
    <3>4. QED
      BY <1>4, <3>1, <3>2, <3>3, OpeningEvents
  <2>2. CASE p = "chat"
    <3> DEFINE e == Chunk("role", -1, -1, <<>>)
    <3>1. wires = <<e>>
      BY <2>2 DEF Encode, EncodeChat, Start
    <3>2. e.type = "chunk" /\ e.kind = "role"
      BY DEF Chunk, Wire
    <3> HIDE DEF e, wires
    <3>3. w \o <<e>> = Append(w, e)
      BY <1>2, Writing
    <3>4. QED
      BY <1>4, <3>1, <3>2, <3>3, OpeningEvents
  <2>3. CASE p = "responses"
    <3> DEFINE e == Closing("response.created", "", NoUsage)
               f == Closing("response.in_progress", "", NoUsage)
    <3>1. wires = <<e, f>>
      BY <2>3 DEF Encode, EncodeResponses, Start
    <3>2. e.type = "response.created" /\ f.type = "response.in_progress"
      BY DEF Closing
    <3> HIDE DEF e, f, wires
    <3>3. w \o <<e, f>> = Append(Append(w, e), f)
      BY <1>2, Writing
    <3>4. Tidy(Append(w, e), TRUE, A, L, FALSE)
      BY <1>4, <3>2, OpeningEvents
    <3>5. Inert(f)
      BY <3>2, QuietEvents
    <3>6. Tidy(Append(Append(w, e), f), TRUE, A, L, FALSE)
      BY <1>3, <3>4, <3>5, TidyQuiet
    <3>7. QED
      BY <3>1, <3>3, <3>6
  <2>4. QED
    BY <2>1, <2>2, <2>3 DEF Protocols
<1>6. QED
  BY <1>1, <1>5 DEF Emitted, A, L

\* A block is opened.
LEMMA ContentStartWritten ==
  ASSUME NEW p \in Protocols, NEW c, NEW w, NEW types, NEW live,
         Emitted(p, c, w, TRUE, types, live, FALSE),
         NEW i, i \notin DOMAIN types, NEW type \in ContentTypes, NEW id,
         type = "tool_call" => id # -1,
         NEW ev, ev = ContentStart(i, type, id), NEW d, d = Apply(c, ev),
         NEW more, more = Put(types, i, type)
  PROVE  Emitted(p, d, w \o Encode(p, d, ev), TRUE, more, live \cup {i}, FALSE)
<1>1. IsCollector(d) /\ more = Types(d)
  BY ContentStartCollected DEF Emitted
<1> DEFINE A == Opened(p, types)
           L == Open(p, types, live)
           wires == Encode(p, d, ev)
           new == IF p # "chat" \/ type = "tool_call" THEN {i} ELSE {}
<1>2. IsSeq(w) /\ Tidy(w, TRUE, A, L, FALSE)
  BY DEF Emitted, Tidy
<1>3. L \subseteq A /\ i \notin A /\ live \subseteq DOMAIN types
  BY DEF Emitted, Open, Opened
<1>4. /\ DOMAIN more = DOMAIN types \cup {i} /\ more[i] = type
      /\ \A j \in DOMAIN types : j # i => more[j] = types[j]
  BY DEF Put
<1>5. Opened(p, more) = A \cup new /\ Open(p, more, live \cup {i}) = L \cup new
  BY <1>3, <1>4 DEF Open, Opened
<1>6. ev.type = "content_start" /\ ev.index = i /\ ev.content.type = type
        /\ ev.content.id = id
  BY DEF ContentStart, Content
<1> HIDE DEF A, L
<1>7. ASSUME NEW e, ~Begins(e), Opens(e), ~Extends(e), ~Closes(e), ~Ends(e),
             e.index = i
      PROVE  Tidy(Append(w, e), TRUE, A \cup {i}, L \cup {i}, FALSE)
  <2>1. Tidy(Append(w, e), TRUE \/ Begins(e), A \cup OpenedBy(e),
             (L \cup OpenedBy(e)) \ ClosedBy(e), Ends(e))
    BY <1>2, <1>3, <1>7, TidyAppend
  <2>2. /\ (TRUE \/ Begins(e)) = TRUE /\ OpenedBy(e) = {i}
        /\ (L \cup OpenedBy(e)) \ ClosedBy(e) = L \cup {i} /\ Ends(e) = FALSE
    BY <1>7 DEF OpenedBy, ClosedBy, Ends
  <2>3. QED
    BY <2>1, <2>2
<1>8. Tidy(w \o wires, TRUE, A \cup new, L \cup new, FALSE)
  <2>1. CASE p = "anthropic"
    <3> DEFINE e == Wire("content_block_start", i, type, id, <<>>)
    <3>1. wires = <<e>>
      BY <2>1, <1>6 DEF Encode, EncodeAnthropic
    <3>2. e.type = "content_block_start" /\ e.index = i /\ new = {i}
      BY <2>1 DEF Wire
    <3> HIDE DEF e, wires, new
    <3>3. w \o <<e>> = Append(w, e)
      BY <1>2, Writing
    <3>4. QED
      BY <1>7, <3>1, <3>2, <3>3, BlockEvents
  <2>2. CASE p = "chat" /\ type = "tool_call"
    <3> DEFINE e == Chunk("tool_call", i, id, <<>>)
    <3>1. wires = <<e>>
      BY <2>2, <1>6 DEF Encode, EncodeChat
    <3>2. /\ e.type = "chunk" /\ e.kind = "tool_call" /\ e.id # -1
          /\ e.index = i /\ new = {i}
      BY <2>2 DEF Chunk, Wire
    <3> HIDE DEF e, wires, new
    <3>3. w \o <<e>> = Append(w, e)
      BY <1>2, Writing
    <3>4. QED
      BY <1>7, <3>1, <3>2, <3>3, BlockEvents
  <2>3. CASE p = "chat" /\ type # "tool_call"
    <3>1. wires = <<>>
      BY <2>3, <1>6 DEF Encode, EncodeChat
    <3>2. new = {} /\ A \cup new = A /\ L \cup new = L
      BY <2>3
    <3>3. w \o <<>> = w
      BY <1>2, Writing
    <3>4. QED
      BY <1>2, <3>1, <3>2, <3>3
  <2>4. CASE p = "responses" /\ type = "text"
    <3> DEFINE e == Wire("output_item.added", i, type, id, <<>>)
               f == Wire("content_part.added", i, type, id, <<>>)
    <3>1. wires = <<e>> \o <<f>>
      BY <2>4, <1>6 DEF Encode, EncodeResponses
    <3>2. /\ e.type = "output_item.added" /\ e.index = i
          /\ f.type = "content_part.added" /\ new = {i}
      BY <2>4 DEF Wire
    <3> HIDE DEF e, f, wires, new
    <3>3. w \o <<e, f>> = Append(Append(w, e), f) /\ <<e>> \o <<f>> = <<e, f>>
      BY <1>2, Writing
    <3>4. Tidy(Append(w, e), TRUE, A \cup new, L \cup new, FALSE)
      BY <1>7, <3>2, BlockEvents
    <3>5. Inert(f) /\ L \cup new \subseteq A \cup new
      BY <1>3, <3>2, QuietEvents
    <3>6. Tidy(Append(Append(w, e), f), TRUE, A \cup new, L \cup new, FALSE)
      BY <3>4, <3>5, TidyQuiet
    <3>7. QED
      BY <3>1, <3>3, <3>6
  <2>5. CASE p = "responses" /\ type # "text"
    <3> DEFINE e == Wire("output_item.added", i, type, id, <<>>)
    <3>1. wires = <<e>> \o <<>>
      BY <2>5, <1>6 DEF Encode, EncodeResponses
    <3>2. e.type = "output_item.added" /\ e.index = i /\ new = {i}
      BY <2>5 DEF Wire
    <3> HIDE DEF e, wires, new
    <3>3. w \o <<e>> = Append(w, e) /\ <<e>> \o <<>> = <<e>>
      BY <1>2, Writing
    <3>4. QED
      BY <1>7, <3>1, <3>2, <3>3, BlockEvents
  <2>6. QED
    BY <2>1, <2>2, <2>3, <2>4, <2>5 DEF Protocols
<1>9. QED
  BY <1>1, <1>3, <1>4, <1>5, <1>8 DEF Emitted

\* A block is extended.
LEMMA DeltaWritten ==
  ASSUME NEW p \in Protocols, NEW c, NEW w, NEW types, NEW live,
         Emitted(p, c, w, TRUE, types, live, FALSE),
         NEW i \in live, NEW type, type = types[i], NEW text,
         NEW ev, ev = ContentDelta(i, type, text), NEW d, d = Apply(c, ev)
  PROVE  Emitted(p, d, w \o Encode(p, d, ev), TRUE, types, live, FALSE)
<1>1. IsCollector(c) /\ types = Types(c) /\ live \subseteq DOMAIN types
  BY DEF Emitted
<1>2. DOMAIN types = DOMAIN c.blocks /\ i \in DOMAIN c.blocks
  BY <1>1 DEF Types
<1>3. IsCollector(d) /\ types = Types(d)
  BY <1>1, <1>2, DeltaCollected
<1>4. type \in ContentTypes
  BY <1>1, <1>2 DEF Types, IsCollector
<1>5. ev.type = "content_delta" /\ ev.index = i /\ ev.content.type = type
        /\ ev.content.text = text
  BY DEF ContentDelta, Content
<1> DEFINE A == Opened(p, types)
           L == Open(p, types, live)
           wires == Encode(p, d, ev)
<1>6. IsSeq(w) /\ Tidy(w, TRUE, A, L, FALSE)
  BY DEF Emitted, Tidy
<1>7. L \subseteq A /\ ((p = "chat" /\ type # "tool_call") \/ i \in L)
  BY <1>1, <1>2 DEF Open, Opened
<1> HIDE DEF A, L
<1>8. ASSUME NEW e, ~Begins(e), ~Opens(e), Extends(e), ~Closes(e), ~Ends(e),
             e.index = i, i \in L
      PROVE  Tidy(Append(w, e), TRUE, A, L, FALSE)
  <2>1. Tidy(Append(w, e), TRUE \/ Begins(e), A \cup OpenedBy(e),
             (L \cup OpenedBy(e)) \ ClosedBy(e), Ends(e))
    BY <1>6, <1>7, <1>8, TidyAppend
  <2>2. /\ (TRUE \/ Begins(e)) = TRUE /\ A \cup OpenedBy(e) = A
        /\ (L \cup OpenedBy(e)) \ ClosedBy(e) = L /\ Ends(e) = FALSE
    BY <1>8 DEF OpenedBy, ClosedBy, Ends
  <2>3. QED
    BY <2>1, <2>2
<1>9. Tidy(w \o wires, TRUE, A, L, FALSE)
  <2>1. CASE p = "anthropic"
    <3> DEFINE e == Wire("content_block_delta", i, type, -1, text)
    <3>1. wires = <<e>>
      BY <2>1, <1>5 DEF Encode, EncodeAnthropic
    <3>2. e.type = "content_block_delta" /\ e.index = i
      BY DEF Wire
    <3> HIDE DEF e, wires
    <3>3. w \o <<e>> = Append(w, e)
      BY <1>6, Writing
    <3>4. i \in L
      BY <1>7, <2>1
    <3>5. QED
      BY <1>8, <3>1, <3>2, <3>3, <3>4, DeltaEvents
  <2>2. CASE p = "chat" /\ type = "tool_call"
    <3> DEFINE e == Chunk(type, i, -1, text)
    <3>1. wires = <<e>>
      BY <2>2, <1>5 DEF Encode, EncodeChat
    <3>2. e.type = "chunk" /\ e.kind = "tool_call" /\ e.id = -1 /\ e.index = i
      BY <2>2 DEF Chunk, Wire
    <3> HIDE DEF e, wires
    <3>3. w \o <<e>> = Append(w, e)
      BY <1>6, Writing
    <3>4. i \in L
      BY <1>7, <2>2
    <3>5. QED
      BY <1>8, <3>1, <3>2, <3>3, <3>4, DeltaEvents
  <2>3. CASE p = "chat" /\ type # "tool_call"
    <3> DEFINE e == Chunk(type, i, -1, text)
    <3>1. wires = <<e>>
      BY <2>3, <1>5 DEF Encode, EncodeChat
    <3>2. e.type = "chunk" /\ e.kind \in {"text", "reasoning"}
      BY <1>4, <2>3 DEF Chunk, Wire, ContentTypes
    <3> HIDE DEF e, wires
    <3>3. w \o <<e>> = Append(w, e)
      BY <1>6, Writing
    <3>4. Inert(e)
      BY <3>2, QuietEvents
    <3>5. Tidy(Append(w, e), TRUE, A, L, FALSE)
      BY <1>6, <1>7, <3>4, TidyQuiet
    <3>6. QED
      BY <3>1, <3>3, <3>5
  <2>4. CASE p = "responses"
    <3> DEFINE e == Wire(DeltaType[type], i, type, -1, text)
    <3>1. wires = <<e>>
      BY <2>4, <1>5 DEF Encode, EncodeResponses
    <3>2. e.type = DeltaType[type] /\ e.index = i
      BY DEF Wire
    <3>3. DeltaType[type] \in {"output_text.delta",
            "function_call_arguments.delta", "reasoning_summary_text.delta"}
      BY <1>4 DEF DeltaType, ContentTypes
    <3> HIDE DEF e, wires
    <3>4. w \o <<e>> = Append(w, e)
      BY <1>6, Writing
    <3>5. i \in L
      BY <1>7, <2>4
    <3>6. Extends(e) /\ ~Begins(e) /\ ~Opens(e) /\ ~Closes(e) /\ ~Ends(e)
      BY <3>2, <3>3, DeltaEvents
    <3>7. QED
      BY <1>8, <3>1, <3>2, <3>4, <3>5, <3>6
  <2>5. QED
    BY <2>1, <2>2, <2>3, <2>4 DEF Protocols
<1>10. QED
  BY <1>1, <1>3, <1>9 DEF Emitted, A, L

\* A block is closed.
LEMMA StopWritten ==
  ASSUME NEW p \in Protocols, NEW c, NEW w, NEW types, NEW live,
         Emitted(p, c, w, TRUE, types, live, FALSE),
         NEW i \in live, NEW ev, ev = ContentStop(i), NEW d, d = Apply(c, ev)
  PROVE  Emitted(p, d, w \o Encode(p, d, ev), TRUE, types, live \ {i}, FALSE)
<1>1. IsCollector(c) /\ types = Types(c) /\ live \subseteq DOMAIN types
  BY DEF Emitted
<1>2. DOMAIN types = DOMAIN c.blocks /\ i \in DOMAIN c.blocks
  BY <1>1 DEF Types
<1>3. IsCollector(d) /\ types = Types(d) /\ d.blocks = c.blocks
  BY <1>1, StopCollected DEF Types
<1>4. ev.type = "content_stop" /\ ev.index = i
  BY DEF ContentStop
<1> DEFINE A == Opened(p, types)
           L == Open(p, types, live)
           N == Open(p, types, live \ {i})
           wires == Encode(p, d, ev)
<1>5. IsSeq(w) /\ Tidy(w, TRUE, A, L, FALSE)
  BY DEF Emitted, Tidy
<1>6. /\ L \subseteq A /\ (p = "chat" => N = L)
      /\ p # "chat" => i \in L /\ N = L \ {i}
  BY <1>1 DEF Open, Opened
<1> HIDE DEF A, L, N
<1>7. ASSUME NEW v, Tidy(v, TRUE, A, L, FALSE), i \in L,
             NEW e, ~Begins(e), ~Opens(e), ~Extends(e), Closes(e), ~Ends(e),
             e.index = i
      PROVE  Tidy(Append(v, e), TRUE, A, L \ {i}, FALSE)
  <2>1. Tidy(Append(v, e), TRUE \/ Begins(e), A \cup OpenedBy(e),
             (L \cup OpenedBy(e)) \ ClosedBy(e), Ends(e))
    BY <1>6, <1>7, TidyAppend
  <2>2. /\ (TRUE \/ Begins(e)) = TRUE /\ A \cup OpenedBy(e) = A
        /\ (L \cup OpenedBy(e)) \ ClosedBy(e) = L \ {i} /\ Ends(e) = FALSE
    BY <1>7 DEF OpenedBy, ClosedBy, Ends, Begins
  <2>3. QED
    BY <2>1, <2>2
<1>8. Tidy(w \o wires, TRUE, A, N, FALSE)
  <2>1. CASE p = "anthropic"
    <3> DEFINE e == Wire("content_block_stop", i, "", -1, <<>>)
    <3>1. wires = <<e>>
      BY <2>1, <1>4 DEF Encode, EncodeAnthropic
    <3>2. e.type = "content_block_stop" /\ e.index = i
      BY DEF Wire
    <3> HIDE DEF e, wires
    <3>3. w \o <<e>> = Append(w, e)
      BY <1>5, Writing
    <3>4. i \in L /\ N = L \ {i}
      BY <1>6, <2>1
    <3>5. Closes(e) /\ ~Begins(e) /\ ~Opens(e) /\ ~Extends(e) /\ ~Ends(e)
      BY <3>2, CloseEvents
    <3>6. Tidy(Append(w, e), TRUE, A, L \ {i}, FALSE)
      BY <1>5, <1>7, <3>2, <3>4, <3>5
    <3>7. QED
      BY <3>1, <3>3, <3>4, <3>6
  <2>2. CASE p = "chat"
    <3>1. wires = <<>>
      BY <2>2, <1>4 DEF Encode, EncodeChat
    <3>2. w \o <<>> = w
      BY <1>5, Writing
    <3>3. QED
      BY <1>5, <1>6, <2>2, <3>1, <3>2
  <2>3. CASE p = "responses" /\ d.blocks[i].type = "text"
    <3> DEFINE b == d.blocks[i]
               e == Wire("content_part.done", i, b.type, b.id, <<>>)
               f == Wire("output_item.done", i, b.type, b.id, <<>>)
    <3>1. wires = <<e>> \o <<f>>
      BY <2>3, <1>2, <1>3, <1>4 DEF Encode, EncodeResponses
    <3>2. e.type = "content_part.done" /\ f.type = "output_item.done"
            /\ f.index = i
      BY DEF Wire
    <3> HIDE DEF e, f, wires
    <3>3. w \o <<e, f>> = Append(Append(w, e), f) /\ <<e>> \o <<f>> = <<e, f>>
      BY <1>5, Writing
    <3>4. i \in L /\ N = L \ {i}
      BY <1>6, <2>3
    <3>5. Inert(e)
      BY <3>2, QuietEvents
    <3>6. Tidy(Append(w, e), TRUE, A, L, FALSE)
      BY <1>5, <1>6, <3>5, TidyQuiet
    <3>7. Closes(f) /\ ~Begins(f) /\ ~Opens(f) /\ ~Extends(f) /\ ~Ends(f)
      BY <3>2, CloseEvents
    <3>8. Tidy(Append(Append(w, e), f), TRUE, A, L \ {i}, FALSE)
      BY <1>7, <3>2, <3>4, <3>6, <3>7
    <3>9. QED
      BY <3>1, <3>3, <3>4, <3>8
  <2>4. CASE p = "responses" /\ d.blocks[i].type # "text"
    <3> DEFINE b == d.blocks[i]
               f == Wire("output_item.done", i, b.type, b.id, <<>>)
    <3>1. wires = <<>> \o <<f>>
      BY <2>4, <1>2, <1>3, <1>4 DEF Encode, EncodeResponses
    <3>2. f.type = "output_item.done" /\ f.index = i
      BY DEF Wire
    <3> HIDE DEF f, wires
    <3>3. w \o <<f>> = Append(w, f) /\ <<>> \o <<f>> = <<f>>
      BY <1>5, Writing
    <3>4. i \in L /\ N = L \ {i}
      BY <1>6, <2>4
    <3>5. Closes(f) /\ ~Begins(f) /\ ~Opens(f) /\ ~Extends(f) /\ ~Ends(f)
      BY <3>2, CloseEvents
    <3>6. Tidy(Append(w, f), TRUE, A, L \ {i}, FALSE)
      BY <1>5, <1>7, <3>2, <3>4, <3>5
    <3>7. QED
      BY <3>1, <3>3, <3>4, <3>6
  <2>5. QED
    BY <2>1, <2>2, <2>3, <2>4 DEF Protocols
<1>9. live \ {i} \subseteq DOMAIN types
  BY <1>1
<1>10. QED
  BY <1>3, <1>8, <1>9 DEF Emitted, A, N

\* The stop of a block that never started (a redacted one) is not written.
LEMMA StopIgnored ==
  ASSUME NEW p \in {"chat", "responses"}, NEW c, NEW w, NEW types, NEW live,
         Emitted(p, c, w, TRUE, types, live, FALSE),
         NEW i, i \notin DOMAIN types,
         NEW ev, ev = ContentStop(i), NEW d, d = Apply(c, ev)
  PROVE  Emitted(p, d, w \o Encode(p, d, ev), TRUE, types, live, FALSE)
<1>1. IsCollector(c) /\ types = Types(c) /\ IsSeq(w)
  BY DEF Emitted, Tidy
<1>2. IsCollector(d) /\ d.blocks = c.blocks
  BY <1>1, StopCollected
<1>3. types = Types(d) /\ i \notin DOMAIN d.blocks
  BY <1>1, <1>2 DEF Types
<1>4. ev.type = "content_stop" /\ ev.index = i
  BY DEF ContentStop
<1>5. Encode(p, d, ev) = <<>>
  BY <1>3, <1>4 DEF Encode, EncodeChat, EncodeResponses
<1>6. w \o <<>> = w
  BY <1>1, Writing
<1>7. QED
  BY <1>2, <1>3, <1>5, <1>6 DEF Emitted

\* Two elements and one more.
LEMMA AppendTwo == \A a, b, d : Append(<<a, b>>, d) = <<a, b, d>>
<1>1. ASSUME NEW a, NEW b, NEW d PROVE Append(<<a, b>>, d) = <<a, b, d>>
  <2> DEFINE S == {a, b, d}
  <2>1. /\ <<a, b>> \in Seq(S) /\ d \in S /\ <<a, b, d>> \in Seq(S)
        /\ Len(<<a, b>>) = 2 /\ Len(<<a, b, d>>) = 3
    OBVIOUS
  <2>2. /\ Append(<<a, b>>, d) \in Seq(S) /\ Len(Append(<<a, b>>, d)) = 3
        /\ \A i \in 1..3 : Append(<<a, b>>, d)[i] = <<a, b, d>>[i]
    BY <2>1
  <2>3. QED
    BY <2>1, <2>2, StreamFold!SeqEqual
<1>2. QED
  BY <1>1

\* The stream ends.
LEMMA DoneWritten ==
  ASSUME NEW p \in Protocols, NEW c, NEW w, NEW begun \in BOOLEAN, NEW types,
         NEW live, Emitted(p, c, w, begun, types, live, FALSE),
         NEW stop, NEW u, NEW ev, ev = Done(stop, u), NEW d, d = Apply(c, ev)
  PROVE  Emitted(p, d, w \o Encode(p, d, ev), begun, types, live, TRUE)
<1>1. /\ IsCollector(c) /\ types = Types(c) /\ live \subseteq DOMAIN types
      /\ IsSeq(w)
  BY DEF Emitted, Tidy
<1>2. IsCollector(d) /\ types = Types(d)
  BY <1>1, DoneCollected
<1>3. ev.type = "done" /\ ev.stop = stop /\ ev.usage = u
  BY DEF Done
<1> DEFINE A == Opened(p, types)
           L == Open(p, types, live)
           wires == Encode(p, d, ev)
<1>4. Tidy(w, begun, A, L, FALSE)
  BY DEF Emitted
<1>5. L \subseteq A
  BY <1>1 DEF Open, Opened
<1> HIDE DEF A, L
<1>6. ASSUME NEW v, Tidy(v, begun, A, L, FALSE),
             NEW e, \/ e.type = "message_stop"
                    \/ e.type = "response.completed"
                    \/ e.type = "[DONE]"
      PROVE  Tidy(Append(v, e), begun, A, L, TRUE)
  <2>1. Ends(e) /\ ~Begins(e) /\ ~Opens(e) /\ ~Extends(e) /\ ~Closes(e)
    BY <1>6, EndEvents
  <2>2. Tidy(Append(v, e), begun \/ Begins(e), A \cup OpenedBy(e),
             (L \cup OpenedBy(e)) \ ClosedBy(e), Ends(e))
    BY <1>5, <1>6, <2>1, TidyAppend
  <2>3. /\ (begun \/ Begins(e)) = begun /\ A \cup OpenedBy(e) = A
        /\ (L \cup OpenedBy(e)) \ ClosedBy(e) = L /\ Ends(e) = TRUE
    BY <2>1 DEF OpenedBy, ClosedBy, Ends, Begins
  <2>4. QED
    BY <2>2, <2>3
<1>7. ASSUME NEW v, Tidy(v, begun, A, L, FALSE),
             NEW e, \/ e.type = "message_delta"
                    \/ e.type = "chunk" /\ e.kind \in {"finish", "usage"}
      PROVE  Tidy(Append(v, e), begun, A, L, FALSE)
  <2>1. Inert(e)
    BY <1>7, QuietEvents
  <2>2. QED
    BY <1>5, <1>7, <2>1, TidyQuiet
<1>8. Tidy(w \o wires, begun, A, L, TRUE)
  <2>1. CASE p = "anthropic"
    <3> DEFINE e == Closing("message_delta", SayStop("anthropic", stop),
                            Usage(0, u.output))
               f == Closing("message_stop", "", NoUsage)
    <3>1. wires = <<e, f>>
      BY <2>1, <1>3 DEF Encode, EncodeAnthropic
    <3>2. e.type = "message_delta" /\ f.type = "message_stop"
      BY DEF Closing
    <3> HIDE DEF e, f, wires
    <3>3. w \o <<e, f>> = Append(Append(w, e), f)
      BY <1>1, Writing
    <3>4. Tidy(Append(w, e), begun, A, L, FALSE)
      BY <1>4, <1>7, <3>2
    <3>5. Tidy(Append(Append(w, e), f), begun, A, L, TRUE)
      BY <1>6, <3>2, <3>4
    <3>6. QED
      BY <3>1, <3>3, <3>5
  <2>2. CASE p = "responses"
    <3> DEFINE f == Closing("response.completed",
                            SayStop("responses", stop), d.usage)
    <3>1. wires = <<f>>
      BY <2>2, <1>3 DEF Encode, EncodeResponses
    <3>2. f.type = "response.completed"
      BY DEF Closing
    <3> HIDE DEF f, wires
    <3>3. w \o <<f>> = Append(w, f)
      BY <1>1, Writing
    <3>4. Tidy(Append(w, f), begun, A, L, TRUE)
      BY <1>4, <1>6, <3>2
    <3>5. QED
      BY <3>1, <3>3, <3>4
  <2>3. CASE p = "chat"
    <3> DEFINE e == ClosingChunk("finish", SayStop("chat", stop), NoUsage)
               f == ClosingChunk("usage", "", u)
               g == [type |-> "[DONE]"]
    <3>1. wires = <<e>> \o (IF u.known THEN <<f>> ELSE <<>>) \o <<g>>
      BY <2>3, <1>3 DEF Encode, EncodeChat
    <3>2. /\ e.type = "chunk" /\ e.kind = "finish"
          /\ f.type = "chunk" /\ f.kind = "usage" /\ g.type = "[DONE]"
      BY DEF ClosingChunk
    <3> HIDE DEF e, f, g, wires
    <3>3. Tidy(Append(w, e), begun, A, L, FALSE)
      BY <1>4, <1>7, <3>2
    <3>4. CASE u.known
      <4>1. IsSeq(<<e, f>>)
        <5>1. <<e, f>> \in Seq({e, f})
          OBVIOUS
        <5>2. QED
          BY <5>1 DEF IsSeq
      <4>2. <<e, f>> \o <<g>> = Append(<<e, f>>, g)
        BY <4>1, Writing
      <4>3. Append(<<e, f>>, g) = <<e, f, g>>
        BY AppendTwo
      <4>4. <<e>> \o <<f>> = <<e, f>>
        BY <1>1, Writing
      <4>5. wires = <<e, f, g>>
        BY <3>1, <3>4, <4>2, <4>3, <4>4
      <4>6. w \o <<e, f, g>> = Append(Append(Append(w, e), f), g)
        BY <1>1, Writing
      <4>7. Tidy(Append(Append(w, e), f), begun, A, L, FALSE)
        BY <1>7, <3>2, <3>3
      <4>8. Tidy(Append(Append(Append(w, e), f), g), begun, A, L, TRUE)
        BY <1>6, <3>2, <4>7
      <4>9. QED
        BY <4>5, <4>6, <4>8
    <3>5. CASE ~u.known
      <4>1. <<e>> \o <<>> = <<e>> /\ <<e>> \o <<g>> = <<e, g>>
        BY <1>1, Writing
      <4>2. wires = <<e, g>>
        BY <3>1, <3>5, <4>1
      <4>3. w \o <<e, g>> = Append(Append(w, e), g)
        BY <1>1, Writing
      <4>4. Tidy(Append(Append(w, e), g), begun, A, L, TRUE)
        BY <1>6, <3>2, <3>3
      <4>5. QED
        BY <4>2, <4>3, <4>4
    <3>6. QED
      BY <3>4, <3>5
  <2>4. QED
    BY <2>1, <2>2, <2>3 DEF Protocols
<1>9. QED
  BY <1>1, <1>2, <1>8 DEF Emitted, A, L

-----------------------------------------------------------------------------
(* An encoder that is given several events.                                *)

\* The encoder of p that had collected c and written w has been given events.
Runs(p, c, w, events, begun, types, live, ended) ==
  LET x == EncodeAll(p, c, events) IN
    /\ IsSeq(events) /\ IsSeq(w) /\ IsSeq(x.out)
    /\ x = [to |-> p, c |-> x.c, out |-> x.out]
    /\ Emitted(p, x.c, w \o x.out, begun, types, live, ended)

\* An encoder is a fold over the events.
LEMMA EncodeFolds ==
  ASSUME NEW p, NEW c, NEW s
  PROVE  EncodeAll(p, c, s) = StreamFold!Fold(Encoder(p, c), s)
BY DEF StreamFold!Fold, StreamFold!FoldLeft, EncodeAll, FoldLeft,
       MapThenFoldSet, StreamFold!MapThenFoldSet, StreamFold!Max, Max

\* No events, and one event more.
LEMMA EncodeNone ==
  ASSUME NEW p, NEW c
  PROVE  EncodeAll(p, c, <<>>) = [to |-> p, c |-> c, out |-> <<>>]
<1>1. StreamFold!Fold(Encoder(p, c), <<>>) = Encoder(p, c)
  BY StreamFold!FoldEmpty
<1>2. QED
  BY <1>1, EncodeFolds DEF Encoder

\* One event more to encode.
LEMMA EncodeMore ==
  ASSUME NEW p, NEW c, NEW s, IsSeq(s), NEW ev
  PROVE  EncodeAll(p, c, Append(s, ev)) = EncodeNext(EncodeAll(p, c, s), ev)
<1>1. PICK S : s \in Seq(S)
  BY DEF IsSeq
<1>2. s \in Seq(S \cup {ev}) /\ ev \in S \cup {ev}
  BY <1>1
<1>3. StreamFold!Fold(Encoder(p, c), Append(s, ev))
        = EncodeNext(StreamFold!Fold(Encoder(p, c), s), ev)
  BY <1>2, StreamFold!FoldAppend
<1>4. QED
  BY <1>3, EncodeFolds

\* Several sequences in one.
LEMMA IsSeqJoined ==
  ASSUME NEW s, NEW t, IsSeq(s), IsSeq(t)
  PROVE  IsSeq(s \o t) /\ \A v : IsSeq(v) => (s \o t) \o v = s \o (t \o v)
<1>1. PICK S, T : s \in Seq(S) /\ t \in Seq(T)
  BY DEF IsSeq
<1>2. s \in Seq(S \cup T) /\ t \in Seq(S \cup T)
  BY <1>1
<1>3. IsSeq(s \o t)
  <2>1. s \o t \in Seq(S \cup T)
    BY <1>2
  <2>2. QED
    BY <2>1 DEF IsSeq
<1>4. ASSUME NEW v, IsSeq(v) PROVE (s \o t) \o v = s \o (t \o v)
  <2>1. PICK V : v \in Seq(V)
    BY <1>4 DEF IsSeq
  <2> DEFINE R == S \cup T \cup V
  <2>2. s \in Seq(R) /\ t \in Seq(R) /\ v \in Seq(R)
    BY <1>2, <2>1
  <2> HIDE DEF R
  <2>3. QED
    BY <2>2, StreamFold!Joining
<1>5. QED
  BY <1>3, <1>4

\* Short sequences.
LEMMA ShortSeqs ==
  /\ IsSeq(<<>>)
  /\ \A a : IsSeq(<<a>>)
  /\ \A a, b : IsSeq(<<a, b>>)
<1>1. <<>> \in Seq({})
  OBVIOUS
<1>2. ASSUME NEW a PROVE IsSeq(<<a>>)
  <2>1. <<a>> \in Seq({a})
    OBVIOUS
  <2>2. QED
    BY <2>1 DEF IsSeq
<1>3. ASSUME NEW a, NEW b PROVE IsSeq(<<a, b>>)
  <2>1. <<a, b>> \in Seq({a, b})
    OBVIOUS
  <2>2. QED
    BY <2>1 DEF IsSeq
<1>4. QED
  BY <1>1, <1>2, <1>3 DEF IsSeq

\* An encoder writes a sequence of events.
LEMMA EncodeIsSeq ==
  ASSUME NEW p \in Protocols, NEW c, NEW ev,
         \/ ev.type = "start" \/ ev.type = "content_start"
         \/ ev.type = "content_delta" \/ ev.type = "content_stop"
         \/ ev.type = "done"
  PROVE  IsSeq(Encode(p, c, ev))
<1>1. CASE p = "anthropic"
  BY <1>1, ShortSeqs DEF Encode, EncodeAnthropic
<1>2. CASE p = "chat"
  <2>1. CASE ev.type = "done"
    <3> DEFINE e == ClosingChunk("finish", SayStop("chat", ev.stop), NoUsage)
               f == ClosingChunk("usage", "", ev.usage)
               g == [type |-> "[DONE]"]
               m == IF ev.usage.known THEN <<f>> ELSE <<>>
    <3>1. Encode(p, c, ev) = <<e>> \o m \o <<g>>
      BY <1>2, <2>1 DEF Encode, EncodeChat
    <3> HIDE DEF e, f, g
    <3>2. IsSeq(<<e>>) /\ IsSeq(m) /\ IsSeq(<<g>>)
      BY ShortSeqs
    <3> HIDE DEF m
    <3>3. IsSeq(<<e>> \o m)
      BY <3>2, IsSeqJoined
    <3>4. QED
      BY <3>1, <3>2, <3>3, IsSeqJoined
  <2>2. CASE ev.type # "done"
    BY <1>2, <2>2, ShortSeqs DEF Encode, EncodeChat
  <2>3. QED
    BY <2>1, <2>2
<1>3. CASE p = "responses"
  <2>1. CASE ev.type = "content_start"
    <3> DEFINE e == Wire("output_item.added", ev.index, ev.content.type,
                         ev.content.id, <<>>)
               f == Wire("content_part.added", ev.index, ev.content.type,
                         ev.content.id, <<>>)
               m == IF ev.content.type = "text" THEN <<f>> ELSE <<>>
    <3>1. Encode(p, c, ev) = <<e>> \o m
      BY <1>3, <2>1 DEF Encode, EncodeResponses
    <3> HIDE DEF e, f
    <3>2. IsSeq(<<e>>) /\ IsSeq(m)
      BY ShortSeqs
    <3> HIDE DEF m
    <3>3. QED
      BY <3>1, <3>2, IsSeqJoined
  <2>2. CASE ev.type = "content_stop" /\ ev.index \in DOMAIN c.blocks
    <3> DEFINE b == c.blocks[ev.index]
               e == Wire("output_item.done", ev.index, b.type, b.id, <<>>)
               f == Wire("content_part.done", ev.index, b.type, b.id, <<>>)
               m == IF b.type = "text" THEN <<f>> ELSE <<>>
    <3>1. Encode(p, c, ev) = m \o <<e>>
      BY <1>3, <2>2 DEF Encode, EncodeResponses
    <3> HIDE DEF e, f
    <3>2. IsSeq(<<e>>) /\ IsSeq(m)
      BY ShortSeqs
    <3> HIDE DEF m
    <3>3. QED
      BY <3>1, <3>2, IsSeqJoined
  <2>3. CASE ev.type = "content_stop" /\ ev.index \notin DOMAIN c.blocks
    BY <1>3, <2>3, ShortSeqs DEF Encode, EncodeResponses
  <2>4. CASE ev.type \notin {"content_start", "content_stop"}
    BY <1>3, <2>4, ShortSeqs DEF Encode, EncodeResponses
  <2>5. QED
    BY <2>1, <2>2, <2>3, <2>4
<1>4. QED
  BY <1>1, <1>2, <1>3 DEF Protocols

\* Before the first event.
LEMMA RunNone ==
  ASSUME NEW p, NEW c, NEW w, NEW begun, NEW types, NEW live, NEW ended,
         Emitted(p, c, w, begun, types, live, ended)
  PROVE  Runs(p, c, w, <<>>, begun, types, live, ended)
<1>1. EncodeAll(p, c, <<>>) = [to |-> p, c |-> c, out |-> <<>>]
  BY EncodeNone
<1>2. IsSeq(w)
  BY DEF Emitted, Tidy
<1>3. w \o <<>> = w
  BY <1>2, Writing
<1>4. IsSeq(<<>>)
  BY ShortSeqs
<1> DEFINE x == EncodeAll(p, c, <<>>)
<1>5. /\ x.to = p /\ x.c = c /\ x.out = <<>>
      /\ x = [to |-> p, c |-> c, out |-> <<>>]
  BY <1>1
<1> HIDE DEF x
<1>6. Emitted(p, x.c, w \o x.out, begun, types, live, ended)
  BY <1>3, <1>5
<1>7. x = [to |-> p, c |-> x.c, out |-> x.out] /\ IsSeq(x.out)
  BY <1>4, <1>5
<1>8. QED
  BY <1>2, <1>4, <1>6, <1>7 DEF Runs, x

\* One event more.
LEMMA RunNext ==
  ASSUME NEW p \in Protocols, NEW c, NEW w, NEW s, NEW begun, NEW types,
         NEW live, NEW ended, Runs(p, c, w, s, begun, types, live, ended),
         NEW ev,
         \/ ev.type = "start" \/ ev.type = "content_start"
         \/ ev.type = "content_delta" \/ ev.type = "content_stop"
         \/ ev.type = "done",
         NEW x, x = EncodeAll(p, c, s), NEW d, d = Apply(x.c, ev),
         NEW b, NEW t, NEW l, NEW f,
         Emitted(p, d, (w \o x.out) \o Encode(p, d, ev), b, t, l, f)
  PROVE  Runs(p, c, w, Append(s, ev), b, t, l, f)
<1> DEFINE o == Encode(p, d, ev)
           y == EncodeAll(p, c, Append(s, ev))
<1>1. /\ IsSeq(s) /\ IsSeq(w) /\ IsSeq(x.out)
      /\ x = [to |-> p, c |-> x.c, out |-> x.out]
  BY DEF Runs
<1>2. y = EncodeNext(x, ev)
  BY <1>1, EncodeMore
<1>3. EncodeNext(x, ev) = [x EXCEPT !.c = d, !.out = @ \o Encode(x.to, d, ev)]
  BY DEF EncodeNext
<1>4. x.to = p
  BY <1>1
<1> HIDE DEF y
<1>5. y = [to |-> p, c |-> d, out |-> x.out \o o]
  BY <1>1, <1>2, <1>3, <1>4
<1>6. IsSeq(o)
  BY EncodeIsSeq
<1> HIDE DEF o
<1>7. IsSeq(x.out \o o) /\ (w \o x.out) \o o = w \o (x.out \o o)
  BY <1>1, <1>6, IsSeqJoined
<1>8. IsSeq(Append(s, ev))
  BY <1>1, OneMore
<1>9. y.c = d /\ y.out = x.out \o o
  BY <1>5
<1>10. Emitted(p, y.c, w \o y.out, b, t, l, f)
  BY <1>7, <1>9 DEF o
<1>11. QED
  BY <1>1, <1>5, <1>7, <1>8, <1>9, <1>10 DEF Runs, y

\* What an encoder has collected and written after some events.
LEMMA RunWritten ==
  ASSUME NEW p, NEW c, NEW w, NEW s, NEW begun, NEW types,
         NEW live, NEW ended, Runs(p, c, w, s, begun, types, live, ended),
         NEW x, x = EncodeAll(p, c, s)
  PROVE  Emitted(p, x.c, w \o x.out, begun, types, live, ended)
BY DEF Runs

\* The five events.
LEMMA RunStart ==
  ASSUME NEW p \in Protocols, NEW c, NEW w, NEW s, NEW types, NEW live,
         Runs(p, c, w, s, FALSE, types, live, FALSE), NEW u
  PROVE  Runs(p, c, w, Append(s, Start(u)), TRUE, types, live, FALSE)
<1> DEFINE x == EncodeAll(p, c, s)
           ev == Start(u)
           d == Apply(x.c, ev)
           v == w \o x.out
<1>1. Emitted(p, x.c, v, FALSE, types, live, FALSE)
  BY RunWritten
<1>2. ev.type = "start"
  BY DEF Start
<1> HIDE DEF x, v
<1>3. Emitted(p, d, v \o Encode(p, d, Start(u)), TRUE, types, live, FALSE)
  BY <1>1, StartWritten
<1> HIDE DEF d, ev
<1>4. Emitted(p, d, (w \o x.out) \o Encode(p, d, ev), TRUE, types, live, FALSE)
  BY <1>3 DEF v, ev
<1>5. x = EncodeAll(p, c, s) /\ d = Apply(x.c, ev)
  BY DEF x, d
<1>6. Runs(p, c, w, Append(s, ev), TRUE, types, live, FALSE)
  BY <1>2, <1>4, <1>5, RunNext
<1>7. QED
  BY <1>6 DEF ev

\* A block is opened, with an index that had none.
LEMMA RunContentStart ==
  ASSUME NEW p \in Protocols, NEW c, NEW w, NEW s, NEW types, NEW live,
         Runs(p, c, w, s, TRUE, types, live, FALSE),
         NEW i, i \notin DOMAIN types, NEW type \in ContentTypes, NEW id,
         type = "tool_call" => id # -1,
         NEW more, more = Put(types, i, type)
  PROVE  Runs(p, c, w, Append(s, ContentStart(i, type, id)), TRUE, more,
              live \cup {i}, FALSE)
<1> DEFINE x == EncodeAll(p, c, s)
           ev == ContentStart(i, type, id)
           d == Apply(x.c, ev)
           v == w \o x.out
<1>1. Emitted(p, x.c, v, TRUE, types, live, FALSE)
  BY RunWritten
<1>2. ev.type = "content_start"
  BY DEF ContentStart
<1> HIDE DEF x, v
<1>3. /\ x = EncodeAll(p, c, s) /\ d = Apply(x.c, ev)
      /\ ev = ContentStart(i, type, id)
  BY DEF x, d
<1> HIDE DEF d, ev
<1>4. Emitted(p, d, v \o Encode(p, d, ev), TRUE, more, live \cup {i}, FALSE)
  BY <1>1, <1>3, ContentStartWritten
<1>5. Emitted(p, d, (w \o x.out) \o Encode(p, d, ev), TRUE, more,
              live \cup {i}, FALSE)
  BY <1>4 DEF v
<1>6. Runs(p, c, w, Append(s, ev), TRUE, more, live \cup {i}, FALSE)
  BY <1>2, <1>5, <1>3, RunNext
<1>7. QED
  BY <1>6 DEF ev

\* More of an open block.
LEMMA RunDelta ==
  ASSUME NEW p \in Protocols, NEW c, NEW w, NEW s, NEW types, NEW live,
         Runs(p, c, w, s, TRUE, types, live, FALSE),
         NEW i \in live, NEW type, type = types[i], NEW text
  PROVE  Runs(p, c, w, Append(s, ContentDelta(i, type, text)), TRUE, types,
              live, FALSE)
<1> DEFINE x == EncodeAll(p, c, s)
           ev == ContentDelta(i, type, text)
           d == Apply(x.c, ev)
           v == w \o x.out
<1>1. Emitted(p, x.c, v, TRUE, types, live, FALSE)
  BY RunWritten
<1>2. ev.type = "content_delta"
  BY DEF ContentDelta
<1> HIDE DEF x, v
<1>3. /\ x = EncodeAll(p, c, s) /\ d = Apply(x.c, ev)
      /\ ev = ContentDelta(i, type, text)
  BY DEF x, d
<1> HIDE DEF d, ev
<1>4. Emitted(p, d, v \o Encode(p, d, ev), TRUE, types, live, FALSE)
  BY <1>1, <1>3, DeltaWritten
<1>5. Emitted(p, d, (w \o x.out) \o Encode(p, d, ev), TRUE, types, live, FALSE)
  BY <1>4 DEF v
<1>6. Runs(p, c, w, Append(s, ev), TRUE, types, live, FALSE)
  BY <1>2, <1>5, <1>3, RunNext
<1>7. QED
  BY <1>6 DEF ev

\* An open block is closed.
LEMMA RunStop ==
  ASSUME NEW p \in Protocols, NEW c, NEW w, NEW s, NEW types, NEW live,
         Runs(p, c, w, s, TRUE, types, live, FALSE), NEW i \in live
  PROVE  Runs(p, c, w, Append(s, ContentStop(i)), TRUE, types, live \ {i},
              FALSE)
<1> DEFINE x == EncodeAll(p, c, s)
           ev == ContentStop(i)
           d == Apply(x.c, ev)
           v == w \o x.out
<1>1. Emitted(p, x.c, v, TRUE, types, live, FALSE)
  BY RunWritten
<1>2. ev.type = "content_stop"
  BY DEF ContentStop
<1> HIDE DEF x, v
<1>3. /\ x = EncodeAll(p, c, s) /\ d = Apply(x.c, ev)
      /\ ev = ContentStop(i)
  BY DEF x, d
<1> HIDE DEF d, ev
<1>4. Emitted(p, d, v \o Encode(p, d, ev), TRUE, types, live \ {i}, FALSE)
  BY <1>1, <1>3, StopWritten
<1>5. Emitted(p, d, (w \o x.out) \o Encode(p, d, ev), TRUE, types, live \ {i},
              FALSE)
  BY <1>4 DEF v
<1>6. Runs(p, c, w, Append(s, ev), TRUE, types, live \ {i}, FALSE)
  BY <1>2, <1>5, <1>3, RunNext
<1>7. QED
  BY <1>6 DEF ev

\* A block that was never opened is closed: these encoders skip that.
LEMMA RunIgnored ==
  ASSUME NEW p \in {"chat", "responses"}, NEW c, NEW w, NEW s, NEW types,
         NEW live, Runs(p, c, w, s, TRUE, types, live, FALSE),
         NEW i, i \notin DOMAIN types
  PROVE  Runs(p, c, w, Append(s, ContentStop(i)), TRUE, types, live, FALSE)
<1> DEFINE x == EncodeAll(p, c, s)
           ev == ContentStop(i)
           d == Apply(x.c, ev)
           v == w \o x.out
<1>1. Emitted(p, x.c, v, TRUE, types, live, FALSE)
  BY RunWritten
<1>2. ev.type = "content_stop"
  BY DEF ContentStop
<1> HIDE DEF x, v
<1>3. /\ x = EncodeAll(p, c, s) /\ d = Apply(x.c, ev)
      /\ ev = ContentStop(i) /\ p \in Protocols
  BY DEF x, d, Protocols
<1> HIDE DEF d, ev
<1>4. Emitted(p, d, v \o Encode(p, d, ev), TRUE, types, live, FALSE)
  BY <1>1, <1>3, StopIgnored
<1>5. Emitted(p, d, (w \o x.out) \o Encode(p, d, ev), TRUE, types, live, FALSE)
  BY <1>4 DEF v
<1>6. Runs(p, c, w, Append(s, ev), TRUE, types, live, FALSE)
  BY <1>2, <1>5, <1>3, RunNext
<1>7. QED
  BY <1>6 DEF ev

\* The stream ends.
LEMMA RunDone ==
  ASSUME NEW p \in Protocols, NEW c, NEW w, NEW s, NEW begun \in BOOLEAN,
         NEW types, NEW live, Runs(p, c, w, s, begun, types, live, FALSE),
         NEW stop, NEW u
  PROVE  Runs(p, c, w, Append(s, Done(stop, u)), begun, types, live, TRUE)
<1> DEFINE x == EncodeAll(p, c, s)
           ev == Done(stop, u)
           d == Apply(x.c, ev)
           v == w \o x.out
<1>1. Emitted(p, x.c, v, begun, types, live, FALSE)
  BY RunWritten
<1>2. ev.type = "done"
  BY DEF Done
<1> HIDE DEF x, v
<1>3. /\ x = EncodeAll(p, c, s) /\ d = Apply(x.c, ev)
      /\ ev = Done(stop, u)
  BY DEF x, d
<1> HIDE DEF d, ev
<1>4. Emitted(p, d, v \o Encode(p, d, ev), begun, types, live, TRUE)
  BY <1>1, <1>3, DoneWritten
<1>5. Emitted(p, d, (w \o x.out) \o Encode(p, d, ev), begun, types, live, TRUE)
  BY <1>4 DEF v
<1>6. Runs(p, c, w, Append(s, ev), begun, types, live, TRUE)
  BY <1>2, <1>5, <1>3, RunNext
<1>7. QED
  BY <1>6 DEF ev

\* The orders in which the elements of a finite set may be taken.
LEMMA Orders ==
  ASSUME NEW S, IsFiniteSet(S), NEW order \in SetToSeqs(S)
  PROVE  \E n \in Nat :
           /\ order \in [1..n -> S]
           /\ \A i, j \in 1..n : i # j => order[i] # order[j]
           /\ \A x \in S : \E i \in 1..n : order[i] = x
<1> DEFINE n == Cardinality(S)
           D == 1..n
<1>1. n \in Nat
  BY FS_CardinalityType
<1>2. order \in [D -> S] /\ \A i, j \in D : i # j => order[i] # order[j]
  BY DEF SetToSeqs
<1>3. order \in Injection(D, S)
  BY <1>2 DEF Injection, IsInjective
<1>4. Cardinality(D) = n
  <2>1. 1 \in Int /\ n \in Int /\ (IF 1 > n THEN 0 ELSE n - 1 + 1) = n
    BY <1>1
  <2> HIDE DEF n
  <2>2. QED
    BY <2>1, FS_Interval
<1> HIDE DEF D
<1>5. order \in Surjection(D, S)
  BY <1>3, <1>4, FS_Injection
<1>6. \A x \in S : \E i \in D : order[i] = x
  BY <1>5 DEF Surjection
<1>7. QED
  BY <1>1, <1>2, <1>6 DEF D

\* The first k blocks of an order, closed.
StopsOf(order, k) == [j \in 1..k |-> ContentStop(order[j])]

\* One block more to close.
LEMMA StopsMore ==
  ASSUME NEW order, NEW k \in Nat
  PROVE  /\ IsSeq(StopsOf(order, k))
         /\ StopsOf(order, 0) = <<>>
         /\ StopsOf(order, k + 1)
              = Append(StopsOf(order, k), ContentStop(order[k + 1]))
<1> DEFINE S == {ContentStop(order[j]) : j \in 1..(k + 1)}
           s == StopsOf(order, k)
           t == StopsOf(order, k + 1)
           e == ContentStop(order[k + 1])
<1>1. s \in Seq(S) /\ Len(s) = k
  BY DEF StopsOf
<1>2. t \in Seq(S) /\ Len(t) = k + 1
  BY DEF StopsOf
<1>3. e \in S
  OBVIOUS
<1>4. \A j \in 1..k : t[j] = s[j]
  BY DEF StopsOf
<1>5. t[k + 1] = e
  BY DEF StopsOf
<1> HIDE DEF s, t, S, e
<1>6. Append(s, e) \in Seq(S) /\ Len(Append(s, e)) = k + 1
  BY <1>1, <1>3
<1>7. \A j \in 1..(k + 1) : t[j] = Append(s, e)[j]
  BY <1>1, <1>3, <1>4, <1>5
<1>8. t = Append(s, e)
  BY <1>2, <1>6, <1>7, StreamFold!SeqEqual
<1>9. IsSeq(s)
  BY <1>1 DEF IsSeq
<1>10. StopsOf(order, 0) = <<>>
  BY DEF StopsOf
<1>11. QED
  BY <1>8, <1>9, <1>10 DEF s, t, e

\* Two sequences, one of them longer by an element.
LEMMA JoinAppend ==
  ASSUME NEW s, NEW t, IsSeq(s), IsSeq(t), NEW e
  PROVE  s \o Append(t, e) = Append(s \o t, e)
<1>1. PICK S, T : s \in Seq(S) /\ t \in Seq(T)
  BY DEF IsSeq
<1> DEFINE R == S \cup T \cup {e}
<1>2. s \in Seq(R) /\ t \in Seq(R) /\ e \in R
  BY <1>1
<1> HIDE DEF R
<1>3. Cat(s, Append(t, e)) = Append(Cat(s, t), e)
  BY <1>2, CatAppend
<1>4. QED
  BY <1>3 DEF Cat

\* Blocks that are closed, in any order.
LEMMA RunStops ==
  ASSUME NEW p \in Protocols, NEW c, NEW w, NEW s, NEW types, NEW live,
         Runs(p, c, w, s, TRUE, types, live, FALSE),
         NEW closed, closed \subseteq live, IsFiniteSet(closed),
         NEW stops \in Stops(closed)
  PROVE  Runs(p, c, w, s \o stops, TRUE, types, live \ closed, FALSE)
<1>1. PICK order \in SetToSeqs(closed) :
        stops = [k \in DOMAIN order |-> ContentStop(order[k])]
  BY DEF Stops
<1>2. PICK n \in Nat :
        /\ order \in [1..n -> closed]
        /\ \A i, j \in 1..n : i # j => order[i] # order[j]
        /\ \A x \in closed : \E i \in 1..n : order[i] = x
  BY Orders
<1>3. stops = StopsOf(order, n)
  BY <1>1, <1>2 DEF StopsOf
<1>4. IsSeq(s)
  BY DEF Runs
<1> DEFINE L(k) == live \ {order[j] : j \in 1..k}
           G(k) == Runs(p, c, w, s \o StopsOf(order, k), TRUE, types, L(k),
                        FALSE)
           N == {k \in Nat : k <= n => G(k)}
<1>5. 0 \in N
  <2>1. L(0) = live /\ StopsOf(order, 0) = <<>> /\ s \o <<>> = s
    BY <1>4, StopsMore, Writing
  <2> HIDE DEF L
  <2>2. G(0)
    BY <2>1
  <2> HIDE DEF G
  <2>3. QED
    BY <2>2
<1>6. ASSUME NEW k \in N PROVE k + 1 \in N
  <2> HIDE DEF G
  <2>1. SUFFICES ASSUME k + 1 <= n PROVE G(k + 1)
    OBVIOUS
  <2> DEFINE i == order[k + 1]
             u == s \o StopsOf(order, k)
  <2>2. k \in Nat /\ k + 1 \in 1..n /\ G(k)
    BY <2>1
  <2>3. i \in L(k)
    <3>1. i \in live
      BY <1>2, <2>2
    <3>2. \A j \in 1..k : j \in 1..n /\ j # k + 1
      BY <2>2
    <3>3. \A j \in 1..k : order[j] # i
      BY <1>2, <2>2, <3>2
    <3>4. QED
      BY <3>1, <3>3
  <2>4. L(k) \ {i} = L(k + 1)
    <3>1. 1..(k + 1) = 1..k \cup {k + 1}
      BY <2>2
    <3>2. QED
      BY <3>1
  <2>5. s \o StopsOf(order, k + 1) = Append(u, ContentStop(i))
    <3>1. /\ IsSeq(StopsOf(order, k))
          /\ StopsOf(order, k + 1)
               = Append(StopsOf(order, k), ContentStop(order[k + 1]))
      BY <2>2, StopsMore
    <3>2. QED
      BY <1>4, <3>1, JoinAppend
  <2> HIDE DEF L, i
  <2>6. Runs(p, c, w, u, TRUE, types, L(k), FALSE)
    BY <2>2 DEF G
  <2> HIDE DEF u
  <2>7. Runs(p, c, w, Append(u, ContentStop(i)), TRUE, types, L(k) \ {i}, FALSE)
    BY <2>3, <2>6, RunStop
  <2>8. QED
    BY <2>4, <2>5, <2>7 DEF G
<1>7. Nat \subseteq N
  <2> HIDE DEF N
  <2>1. QED
    BY <1>5, <1>6, StreamFold!EveryNumber
<1>8. G(n)
  <2> HIDE DEF G
  <2>1. n \in N /\ n <= n
    BY <1>7
  <2>2. QED
    BY <2>1
<1>9. L(n) = live \ closed
  BY <1>2
<1> HIDE DEF L
<1>10. QED
  BY <1>3, <1>8, <1>9

-----------------------------------------------------------------------------
(* What a provider has to say, and has said.                               *)

Parts(r) == 1..Len(r.message)
Stages(r) == 0..FinalStage(r)

\* How many events of a stage have been sent, and what is left of a sequence.
Sent(r, t, i) == Len(Script(r)[i]) - Len(t[i])
Rest(s, n) == SubSeq(s, n + 1, Len(s))

\* What is left of a stream is the end of each of its stages, one stage after
\* the other but for the parts of a chat message.
LeftInv(r, t) ==
  /\ DOMAIN t = Stages(r)
  /\ \A i \in Stages(r) :
       /\ Sent(r, t, i) \in 0..Len(Script(r)[i])
       /\ t[i] = Rest(Script(r)[i], Sent(r, t, i))
  /\ \A i, j \in Stages(r) :
       /\ j < i /\ Sent(r, t, i) > 0
       /\ j = 0 \/ i = FinalStage(r) \/ r.from # "chat"
       => t[j] = <<>>

\* The parts that the decoder reads: those that have begun, and of them those
\* that have not ended.
Shown(r, i) ==
  \/ r.from = "anthropic" /\ r.message[i] # "redacted"
  \/ r.from = "responses" /\ r.message[i] # "reasoning"
  \/ r.from = "chat"
Begun(r, t) == {i \in Parts(r) : Shown(r, i) /\ Sent(r, t, i) > 0}
UnderWay(r, t) == {i \in Begun(r, t) : t[i] # <<>>}

\* Ready, of any request.
ReadyIn(r, t, i) ==
  /\ t[i] # <<>>
  /\ \A j \in 0..(i - 1) :
       t[j] # <<>> => r.from = "chat" /\ j > 0 /\ i < FinalStage(r)

\* The next event of stage i is sent: what was left is t, what is left is u.
Moves(r, t, i, u) ==
  LET n == Sent(r, t, i) IN
    /\ n \in 0..(Len(Script(r)[i]) - 1)
    /\ Head(t[i]) = Script(r)[i][n + 1]
    /\ Sent(r, u, i) = n + 1
    /\ t[i] # <<>>
    /\ u[i] = <<>> <=> n + 1 = Len(Script(r)[i])
    /\ \A j \in Stages(r) \ {i} : u[j] = t[j] /\ Sent(r, u, j) = Sent(r, t, j)

\* The next event of what is left of a sequence.
LEMMA RestNext ==
  ASSUME NEW s, IsSeq(s), NEW n \in 0..Len(s), NEW q, q = Rest(s, n)
  PROVE  /\ q = <<>> <=> n = Len(s)
         /\ n # Len(s) =>
              Head(q) = s[n + 1] /\ Tail(q) = Rest(s, n + 1)
                /\ Len(Tail(q)) = Len(s) - (n + 1)
<1>1. PICK S : s \in Seq(S)
  BY DEF IsSeq
<1>2. q \in Seq(S) /\ Len(q) = Len(s) - n
  BY <1>1 DEF Rest
<1>3. \A k \in 1..Len(q) : q[k] = s[n + k]
  BY <1>1, <1>2 DEF Rest
<1>4. q = <<>> <=> n = Len(s)
  BY <1>1, <1>2
<1>5. ASSUME n # Len(s)
      PROVE  Head(q) = s[n + 1] /\ Tail(q) = Rest(s, n + 1)
               /\ Len(Tail(q)) = Len(s) - (n + 1)
  <2>1. n + 1 <= Len(s) /\ Len(q) \in Nat /\ Len(q) # 0 /\ 1 \in 1..Len(q)
    BY <1>1, <1>2, <1>5
  <2>2. Head(q) = s[n + 1]
    BY <1>2, <1>3, <2>1
  <2> DEFINE a == Tail(q)
             b == Rest(s, n + 1)
  <2>3. /\ a \in Seq(S) /\ Len(a) = Len(s) - (n + 1)
        /\ \A k \in 1..Len(a) : a[k] = q[k + 1]
    BY <1>1, <1>2, <2>1
  <2>4. /\ b \in Seq(S) /\ Len(b) = Len(s) - (n + 1)
        /\ \A k \in 1..Len(b) : b[k] = s[(n + 1) + k]
    BY <1>1, <2>1 DEF Rest
  <2> HIDE DEF a, b
  <2>5. ASSUME NEW k \in 1..Len(a) PROVE a[k] = b[k]
    <3>1. k + 1 \in 1..Len(q) /\ n + (k + 1) = (n + 1) + k /\ k \in 1..Len(b)
      BY <1>1, <1>2, <2>1, <2>3, <2>4
    <3>2. QED
      BY <1>3, <2>3, <2>4, <3>1
  <2>6. a = b
    BY <2>3, <2>4, <2>5, StreamFold!SeqEqual
  <2>7. QED
    BY <2>2, <2>3, <2>6 DEF a, b
<1>6. QED
  BY <1>4, <1>5

\* The chunks of a part.
LEMMA DeltasAre ==
  ASSUME NEW type, NEW kind, NEW i, NEW n \in Nat
  PROVE  /\ IsSeq(Deltas(type, kind, i, n)) /\ Len(Deltas(type, kind, i, n)) = n
         /\ \A k \in 1..n : \E text :
              Deltas(type, kind, i, n)[k] = Wire(type, i, kind, -1, text)
<1> DEFINE d == Deltas(type, kind, i, n)
           S == {d[k] : k \in 1..n}
<1>1. d = [k \in 1..n |-> d[k]]
  BY DEF Deltas
<1>2. \A k \in 1..n : d[k] = Wire(type, i, kind, -1, <<<<i, k>>>>)
  BY DEF Deltas
<1> HIDE DEF d
<1>3. \A k \in 1..n : d[k] \in S
  OBVIOUS
<1> HIDE DEF S
<1>4. d \in Seq(S) /\ Len(d) = n
  BY <1>1, <1>3
<1>5. IsSeq(d)
  BY <1>4 DEF IsSeq
<1>6. QED
  BY <1>2, <1>4, <1>5 DEF d

\* The elements of two sequences in one.
LEMMA JoinedElements ==
  ASSUME NEW S, NEW s \in Seq(S), NEW t \in Seq(S)
  PROVE  /\ s \o t \in Seq(S) /\ Len(s \o t) = Len(s) + Len(t)
         /\ \A k \in 1..Len(s) : (s \o t)[k] = s[k]
         /\ \A k \in 1..Len(t) : (s \o t)[Len(s) + k] = t[k]
<1>1. s \o t \in Seq(S) /\ Len(s \o t) = Len(s) + Len(t)
  OBVIOUS
<1>2. \A k \in 1..Len(s) : (s \o t)[k] = s[k]
  OBVIOUS
<1>3. ASSUME NEW k \in 1..Len(t) PROVE (s \o t)[Len(s) + k] = t[k]
  <2>1. Len(s) + k \in 1..(Len(s) + Len(t)) /\ ~(Len(s) + k <= Len(s))
    OBVIOUS
  <2>2. QED
    BY <2>1
<1>4. QED
  BY <1>1, <1>2, <1>3

\* A sequence between two elements.
Enclosed(a, s, b) == <<a>> \o s \o <<b>>

\* What is at each place of a sequence between two elements.
LEMMA Between ==
  ASSUME NEW a, NEW s, IsSeq(s), NEW b, NEW t, t = Enclosed(a, s, b)
  PROVE  /\ IsSeq(t) /\ Len(s) \in Nat /\ Len(t) = Len(s) + 2
         /\ t[1] = a /\ t[Len(s) + 2] = b
         /\ \A k \in 1..Len(s) : t[k + 1] = s[k]
<1>1. PICK S : s \in Seq(S)
  BY DEF IsSeq
<1> DEFINE R == S \cup {a, b}
           x == <<a>>
           y == <<b>>
<1>2. s \in Seq(R) /\ x \in Seq(R) /\ y \in Seq(R) /\ Len(x) = 1 /\ Len(y) = 1
  BY <1>1
<1>3. x[1] = a /\ y[1] = b
  OBVIOUS
<1> DEFINE v == x \o s
<1> HIDE DEF x, y, R
<1>4. v \in Seq(R) /\ Len(v) = Len(s) + 1 /\ v[1] = a
  <2>1. /\ v \in Seq(R) /\ Len(v) = Len(x) + Len(s)
        /\ \A k \in 1..Len(x) : v[k] = x[k]
    <3>1. x \in Seq(R) /\ s \in Seq(R)
      BY <1>2
    <3>2. QED
      BY <3>1, JoinedElements
  <2> HIDE DEF v
  <2>2. 1 \in 1..Len(x)
    BY <1>2
  <2>3. QED
    BY <1>2, <1>3, <2>1, <2>2
<1>5. \A k \in 1..Len(s) : v[k + 1] = s[k]
  <2>1. \A k \in 1..Len(s) : v[Len(x) + k] = s[k]
    BY <1>2, JoinedElements
  <2> HIDE DEF v
  <2>2. \A k \in 1..Len(s) : Len(x) + k = k + 1
    BY <1>2
  <2>3. QED
    BY <2>1, <2>2
<1>6. t = v \o y
  BY DEF x, y, Enclosed
<1> HIDE DEF v
<1>7. /\ t \in Seq(R) /\ Len(t) = Len(v) + Len(y)
      /\ \A k \in 1..Len(v) : t[k] = v[k]
      /\ \A k \in 1..Len(y) : t[Len(v) + k] = y[k]
  <2>1. v \in Seq(R) /\ y \in Seq(R)
    BY <1>2, <1>4
  <2>2. QED
    BY <1>6, <2>1, JoinedElements
<1>8. /\ Len(t) = Len(s) + 2 /\ t[1] = a /\ t[Len(s) + 2] = b
      /\ \A k \in 1..Len(s) : t[k + 1] = s[k]
  <2>1. Len(s) \in Nat
    BY <1>2
  <2>2. 1 \in 1..Len(v) /\ 1 \in 1..Len(y) /\ Len(v) + 1 = Len(s) + 2
    BY <1>2, <1>4, <2>1
  <2>3. t[1] = a /\ t[Len(s) + 2] = b
    BY <1>3, <1>4, <1>7, <2>2
  <2>4. \A k \in 1..Len(s) : k + 1 \in 1..Len(v)
    BY <1>4, <2>1
  <2>5. Len(t) = Len(s) + 2
    BY <1>2, <1>4, <1>7, <2>1
  <2>6. QED
    BY <1>5, <1>7, <2>3, <2>4, <2>5
<1>9. QED
  BY <1>2, <1>7, <1>8 DEF IsSeq

\* A part of an Anthropic message.
LEMMA AnthropicPart ==
  ASSUME NEW kind, NEW i, NEW size \in Nat, NEW s,
         s = PartScript("anthropic", kind, i, size)
  PROVE  /\ IsSeq(s) /\ Len(s) \in Nat /\ Len(s) >= 2
         /\ s[1] = Wire("content_block_start", i, kind, i, <<>>)
         /\ s[Len(s)] = Wire("content_block_stop", i, kind, i, <<>>)
         /\ \A n \in 2..(Len(s) - 1) :
              kind # "redacted" /\ \E text :
                s[n] = Wire("content_block_delta", i, kind, -1, text)
<1> DEFINE a == Wire("content_block_start", i, kind, i, <<>>)
           b == Wire("content_block_stop", i, kind, i, <<>>)
           d == Deltas("content_block_delta", kind, i, size)
           m == IF kind = "redacted" THEN <<>> ELSE d
<1>1. s = Enclosed(a, m, b)
  BY DEF PartScript, Enclosed
<1>2. /\ IsSeq(m) /\ Len(m) \in Nat
      /\ \A k \in 1..Len(m) : kind # "redacted" /\ \E text :
           m[k] = Wire("content_block_delta", i, kind, -1, text)
  BY DeltasAre, ShortSeqs
<1> HIDE DEF a, b, m
<1>3. /\ IsSeq(s) /\ Len(s) = Len(m) + 2 /\ s[1] = a /\ s[Len(m) + 2] = b
      /\ \A k \in 1..Len(m) : s[k + 1] = m[k]
  BY <1>1, <1>2, Between
<1>4. ASSUME NEW n \in 2..(Len(s) - 1)
      PROVE  n - 1 \in 1..Len(m) /\ s[n] = m[n - 1]
  <2>1. n - 1 \in 1..Len(m) /\ (n - 1) + 1 = n
    BY <1>2, <1>3
  <2>2. QED
    BY <1>3, <2>1
<1>5. \A n \in 2..(Len(s) - 1) : kind # "redacted" /\ \E text :
        s[n] = Wire("content_block_delta", i, kind, -1, text)
  BY <1>2, <1>4
<1>6. QED
  BY <1>2, <1>3, <1>5 DEF a, b

\* An item of a Responses stream.
LEMMA ResponsesPart ==
  ASSUME NEW kind \in ContentTypes, NEW i, NEW size \in Nat, NEW s,
         s = PartScript("responses", kind, i, size)
  PROVE  /\ IsSeq(s) /\ Len(s) \in Nat /\ Len(s) >= 2
         /\ s[1] = Wire(IF kind = "text" THEN "content_part.added"
                        ELSE "output_item.added", i, kind, i, <<>>)
         /\ s[Len(s)] = Wire(IF kind = "text" THEN "content_part.done"
                             ELSE "output_item.done", i, kind, i, <<>>)
         /\ \A n \in 2..(Len(s) - 1) : \E text :
              s[n] = Wire(DeltaType[kind], i, kind, -1, text)
<1> DEFINE a == Wire(IF kind = "text" THEN "content_part.added"
                     ELSE "output_item.added", i, kind, i, <<>>)
           b == Wire(IF kind = "text" THEN "content_part.done"
                     ELSE "output_item.done", i, kind, i, <<>>)
           m == Deltas(DeltaType[kind], kind, i, size)
<1>1. s = Enclosed(a, m, b)
  BY DEF PartScript, Enclosed
<1>2. /\ IsSeq(m) /\ Len(m) \in Nat
      /\ \A k \in 1..Len(m) : \E text :
           m[k] = Wire(DeltaType[kind], i, kind, -1, text)
  BY DeltasAre
<1> HIDE DEF a, b, m
<1>3. /\ IsSeq(s) /\ Len(s) = Len(m) + 2 /\ s[1] = a /\ s[Len(m) + 2] = b
      /\ \A k \in 1..Len(m) : s[k + 1] = m[k]
  BY <1>1, <1>2, Between
<1>4. ASSUME NEW n \in 2..(Len(s) - 1)
      PROVE  n - 1 \in 1..Len(m) /\ s[n] = m[n - 1]
  <2>1. n - 1 \in 1..Len(m) /\ (n - 1) + 1 = n
    BY <1>2, <1>3
  <2>2. QED
    BY <1>3, <2>1
<1>5. \A n \in 2..(Len(s) - 1) : \E text :
        s[n] = Wire(DeltaType[kind], i, kind, -1, text)
  BY <1>2, <1>4
<1>6. QED
  BY <1>2, <1>3, <1>5 DEF a, b

\* The elements of a sequence after another element.
LEMMA AfterFirst ==
  ASSUME NEW a, NEW m, IsSeq(m), NEW t, t = <<a>> \o m
  PROVE  /\ Len(t) = Len(m) + 1 /\ t[1] = a
         /\ \A k \in 1..Len(m) : t[k + 1] = m[k]
<1>1. PICK S : m \in Seq(S)
  BY DEF IsSeq
<1> DEFINE R == S \cup {a}
           x == <<a>>
<1>2. m \in Seq(R) /\ x \in Seq(R) /\ Len(x) = 1 /\ x[1] = a
  BY <1>1
<1>3. t = x \o m /\ Len(m) \in Nat
  BY <1>1
<1> HIDE DEF x, R
<1>4. Len(t) = Len(x) + Len(m)
  BY <1>2, <1>3, JoinedElements
<1>5. \A k \in 1..Len(x) : t[k] = x[k]
  BY <1>2, <1>3, JoinedElements
<1>6. \A k \in 1..Len(m) : t[Len(x) + k] = m[k]
  BY <1>2, <1>3, JoinedElements
<1>7. t[1] = a
  BY <1>2, <1>5
<1>8. ASSUME NEW k \in 1..Len(m) PROVE t[k + 1] = m[k]
  <2>1. Len(x) + k = k + 1
    BY <1>2
  <2>2. QED
    BY <1>6, <2>1
<1>9. QED
  BY <1>2, <1>3, <1>4, <1>7, <1>8

\* A part of a chat message.
LEMMA ChatPart ==
  ASSUME NEW kind, NEW i, NEW size \in Nat, kind # "tool_call" => size > 0,
         NEW s, s = PartScript("chat", kind, i, size)
  PROVE  /\ IsSeq(s) /\ Len(s) \in Nat /\ Len(s) >= 1
         /\ kind = "tool_call" => s[1] = Wire("chunk", i, kind, i, <<>>)
         /\ \A n \in 1..Len(s) : n > 1 \/ kind # "tool_call" =>
              \E text : s[n] = Wire("chunk", i, kind, -1, text)
<1> DEFINE a == Wire("chunk", i, kind, i, <<>>)
           m == Deltas("chunk", kind, i, size)
<1>1. s = (IF kind = "tool_call" THEN <<a>> ELSE <<>>) \o m
  BY DEF PartScript, Chunk
<1>2. /\ IsSeq(m) /\ Len(m) \in Nat
      /\ kind # "tool_call" => Len(m) >= 1
      /\ \A k \in 1..Len(m) : \E text : m[k] = Wire("chunk", i, kind, -1, text)
  BY DeltasAre
<1> HIDE DEF a, m
<1>3. CASE kind = "tool_call"
  <2>1. s = <<a>> \o m
    BY <1>1, <1>3
  <2>2. IsSeq(s)
    <3>1. IsSeq(<<a>>)
      BY ShortSeqs
    <3>2. IsSeq(m)
      BY <1>2
    <3>3. IsSeq(<<a>> \o m)
      BY <3>1, <3>2, IsSeqJoined
    <3>4. QED
      BY <2>1, <3>3
  <2>3. /\ Len(s) = Len(m) + 1 /\ s[1] = a
        /\ \A k \in 1..Len(m) : s[k + 1] = m[k]
    BY <1>2, <2>1, AfterFirst
  <2>4. ASSUME NEW n \in 1..Len(s), n > 1
        PROVE  n - 1 \in 1..Len(m) /\ s[n] = m[n - 1]
    <3>1. n - 1 \in 1..Len(m) /\ (n - 1) + 1 = n
      BY <1>2, <2>3, <2>4
    <3>2. QED
      BY <2>3, <3>1
  <2>5. QED
    BY <1>2, <1>3, <2>2, <2>3, <2>4 DEF a
<1>4. CASE kind # "tool_call"
  <2>1. s = m
    <3>1. PICK S : m \in Seq(S)
      BY <1>2 DEF IsSeq
    <3>2. <<>> \o m = m
      BY <3>1
    <3>3. QED
      BY <1>1, <1>4, <3>2
  <2>2. QED
    BY <1>2, <1>4, <2>1
<1>5. QED
  BY <1>3, <1>4

\* The exchanges whose provider announces its content parts.
Announcing == {r \in Exchanges : r.announced}

\* What is known of a request.
LEMMA ExchangeFacts ==
  ASSUME NEW r \in Announcing
  PROVE  /\ r.from \in Protocols /\ r.to \in Protocols
         /\ r.message \in Seq(PartKinds) /\ Len(r.message) \in Nat
         /\ FinalStage(r) = Len(r.message) + 1
         /\ \A i \in Parts(r) : r.message[i] \in PartKinds
         /\ r.from # "anthropic" =>
              \A i \in Parts(r) : r.message[i] \in ContentTypes
<1>1. /\ r.from \in Protocols /\ r.to \in Protocols
      /\ r.message \in Seq(PartKinds) /\ CanSay(r)
  BY MessagesAssumption DEF Announcing, Exchanges
<1>2. \A i \in Parts(r) : r.message[i] \in PartKinds
  BY <1>1 DEF Parts
<1>3. ASSUME r.from # "anthropic", NEW i \in Parts(r)
      PROVE  r.message[i] \in ContentTypes
  <2>1. i \in DOMAIN r.message
    BY <1>1, <1>3 DEF Parts
  <2>2. r.message[i] # "redacted"
    BY <1>1, <1>3, <2>1 DEF CanSay, Says
  <2>3. QED
    BY <1>2, <1>3, <2>2 DEF PartKinds
<1>4. QED
  BY <1>1, <1>2, <1>3 DEF FinalStage

\* How many chunks a part of a message has.
LEMMA LengthIs ==
  ASSUME NEW r, NEW kind
  PROVE  /\ Length(r, kind) \in Nat
         /\ kind # "tool_call" => Length(r, kind) > 0
BY ChunksAssumption DEF Length

\* The scripts of the stages.
LEMMA ScriptIs ==
  ASSUME NEW r \in Announcing
  PROVE  /\ DOMAIN Script(r) = Stages(r)
         /\ Script(r)[0] = Opening(r.from)
         /\ Script(r)[FinalStage(r)] = Ending(r.from, r.stop)
         /\ \A i \in Parts(r) :
              /\ i \in Stages(r) /\ i # 0 /\ i # FinalStage(r)
              /\ Script(r)[i]
                   = PartScript(r.from, r.message[i], i,
                                Length(r, r.message[i]))
         /\ \A i \in Stages(r) : i = 0 \/ i = FinalStage(r) \/ i \in Parts(r)
         /\ 0 \in Stages(r) /\ FinalStage(r) \in Stages(r) /\ FinalStage(r) > 0
<1>1. Len(r.message) \in Nat /\ FinalStage(r) = Len(r.message) + 1
  BY ExchangeFacts
<1>2. \A i \in Parts(r) : i \in Stages(r) /\ i # 0 /\ i # FinalStage(r)
  BY <1>1 DEF Parts, Stages
<1>3. 0 \in Stages(r) /\ FinalStage(r) \in Stages(r) /\ FinalStage(r) > 0
  BY <1>1 DEF Stages
<1>4. \A i \in Stages(r) : i = 0 \/ i = FinalStage(r) \/ i \in Parts(r)
  BY <1>1 DEF Stages, Parts
<1>5. \A i \in Stages(r) :
        Script(r)[i] = IF i = 0 THEN Opening(r.from)
                       ELSE IF i = FinalStage(r)
                            THEN Ending(r.from, r.stop)
                            ELSE PartScript(r.from, r.message[i], i,
                                            Length(r, r.message[i]))
  <2>1. r.announced
    BY DEF Announcing
  <2>2. QED
    BY <2>1 DEF Script, Stages
<1>6. DOMAIN Script(r) = Stages(r)
  BY DEF Script, Stages
<1>7. QED
  BY <1>2, <1>3, <1>4, <1>5, <1>6

\* The first and the last events.
LEMMA OpeningIs ==
  ASSUME NEW p \in Protocols, NEW s, s = Opening(p)
  PROVE  /\ IsSeq(s) /\ Len(s) = 1
         /\ p = "anthropic" => s[1].type = "message_start"
         /\ p = "responses" => s[1].type = "response.created"
         /\ p = "chat" => s[1].type = "chunk" /\ s[1].kind = "role"
<1>1. ASSUME NEW a, s = <<a>> PROVE IsSeq(s) /\ Len(s) = 1 /\ s[1] = a
  BY <1>1, ShortSeqs
<1>2. CASE p = "anthropic"
  <2> DEFINE a == Closing("message_start", "", Usage(1, 0))
  <2>1. s = <<a>>
    BY <1>2 DEF Opening
  <2>2. a.type = "message_start"
    BY Zenon DEF Closing
  <2> HIDE DEF a
  <2>3. QED
    BY <1>1, <1>2, <2>1, <2>2
<1>3. CASE p = "responses"
  <2> DEFINE a == Closing("response.created", "", NoUsage)
  <2>1. s = <<a>>
    BY <1>3 DEF Opening
  <2>2. a.type = "response.created"
    BY Zenon DEF Closing
  <2> HIDE DEF a
  <2>3. QED
    BY <1>1, <1>3, <2>1, <2>2
<1>4. CASE p = "chat"
  <2> DEFINE a == Chunk("role", -1, -1, <<>>)
  <2>1. s = <<a>>
    BY <1>4 DEF Opening
  <2>2. a.type = "chunk" /\ a.kind = "role"
    BY DEF Chunk, Wire
  <2> HIDE DEF a
  <2>3. QED
    BY <1>1, <1>4, <2>1, <2>2
<1>5. QED
  BY <1>2, <1>3, <1>4 DEF Protocols

\* The last events of a provider, by its protocol.
LEMMA EndingIs ==
  ASSUME NEW p \in Protocols, NEW stop, NEW s, s = Ending(p, stop)
  PROVE  /\ IsSeq(s) /\ Len(s) \in 1..3
         /\ p = "anthropic" =>
              /\ Len(s) = 2
              /\ s[1].type = "message_delta" /\ s[2].type = "message_stop"
         /\ p = "responses" =>
              /\ Len(s) = 1
              /\ s[1].type \in {"response.completed", "response.incomplete"}
         /\ p = "chat" =>
              /\ Len(s) = 3
              /\ s[1].type = "chunk" /\ s[1].kind = "finish"
              /\ s[2].type = "chunk" /\ s[2].kind = "usage"
              /\ s[3].type = "[DONE]"
<1>1. CASE p = "chat"
  <2> DEFINE a == ClosingChunk("finish", stop, NoUsage)
             b == ClosingChunk("usage", "", RealUsage)
             d == [type |-> "[DONE]"]
  <2>1. s = <<a, b, d>>
    BY <1>1 DEF Ending
  <2>2. a.type = "chunk" /\ a.kind = "finish"
    BY DEF ClosingChunk
  <2>3. b.type = "chunk" /\ b.kind = "usage"
    BY Zenon DEF ClosingChunk
  <2>4. d.type = "[DONE]"
    OBVIOUS
  <2> HIDE DEF a, b, d
  <2>5. <<a, b, d>> \in Seq({a, b, d}) /\ Len(<<a, b, d>>) = 3
    OBVIOUS
  <2>6. IsSeq(<<a, b, d>>)
    BY <2>5 DEF IsSeq
  <2>7. <<a, b, d>>[1] = a /\ <<a, b, d>>[2] = b /\ <<a, b, d>>[3] = d
    OBVIOUS
  <2>8. IsSeq(s) /\ Len(s) = 3 /\ s[1] = a /\ s[2] = b /\ s[3] = d
    BY <2>1, <2>5, <2>6, <2>7
  <2>9. QED
    BY <1>1, <2>2, <2>3, <2>4, <2>8
<1>2. CASE p = "anthropic"
  <2> DEFINE a == Closing("message_delta", stop, Usage(0, 1))
             b == Closing("message_stop", "", NoUsage)
  <2>1. s = <<a, b>>
    BY <1>2 DEF Ending
  <2>2. a.type = "message_delta"
    BY DEF Closing
  <2>3. b.type = "message_stop"
    BY Zenon DEF Closing
  <2> HIDE DEF a, b
  <2>4. IsSeq(s) /\ Len(s) = 2 /\ s[1] = a /\ s[2] = b
    <3>1. IsSeq(<<a, b>>)
      BY ShortSeqs
    <3>2. QED
      BY <2>1, <3>1
  <2>5. QED
    BY <1>2, <2>2, <2>3, <2>4
<1>3. CASE p = "responses"
  <2> DEFINE a == Closing(IF stop = "length" THEN "response.incomplete"
                          ELSE "response.completed", stop, RealUsage)
  <2>1. s = <<a>>
    BY <1>3 DEF Ending
  <2>2. a.type \in {"response.completed", "response.incomplete"}
    BY DEF Closing
  <2> HIDE DEF a
  <2>3. IsSeq(s) /\ Len(s) = 1 /\ s[1] = a
    BY <2>1, ShortSeqs
  <2>4. QED
    BY <1>3, <2>2, <2>3
<1>4. QED
  BY <1>1, <1>2, <1>3 DEF Protocols

\* Each stage of what a provider has to say is a sequence.
LEMMA ScriptSeqs ==
  ASSUME NEW r \in Announcing, NEW i \in Stages(r)
  PROVE  IsSeq(Script(r)[i]) /\ Len(Script(r)[i]) \in Nat
<1> DEFINE s == Script(r)[i]
<1>1. r.from \in Protocols
  BY ExchangeFacts
<1>2. IsSeq(s)
  <2>1. CASE i = 0
    <3>1. s = Opening(r.from)
      BY <2>1, ScriptIs
    <3>2. QED
      BY <1>1, <3>1, OpeningIs
  <2>2. CASE i = FinalStage(r)
    <3>1. s = Ending(r.from, r.stop)
      BY <2>2, ScriptIs
    <3>2. QED
      BY <1>1, <3>1, EndingIs
  <2>3. CASE i \in Parts(r)
    <3>1. s = PartScript(r.from, r.message[i], i, Length(r, r.message[i]))
      BY <2>3, ScriptIs
    <3>0. /\ Length(r, r.message[i]) \in Nat
          /\ r.message[i] # "tool_call" => Length(r, r.message[i]) > 0
      BY LengthIs
    <3> HIDE DEF s
    <3>2. CASE r.from = "anthropic"
      BY <3>0, <3>1, <3>2, AnthropicPart
    <3>3. CASE r.from = "chat"
      BY <3>0, <3>1, <3>3, ChatPart
    <3>4. CASE r.from = "responses"
      <4>1. r.message[i] \in ContentTypes
        BY <2>3, <3>4, ExchangeFacts
      <4>2. QED
        BY <3>0, <3>1, <3>4, <4>1, ResponsesPart
    <3>5. QED
      BY <1>1, <3>2, <3>3, <3>4 DEF Protocols
  <2>4. QED
    BY <2>1, <2>2, <2>3, ScriptIs
<1>3. ASSUME NEW v, IsSeq(v) PROVE Len(v) \in Nat
  BY <1>3 DEF IsSeq
<1>4. QED
  BY <1>2, <1>3

\* At first everything is left.
LEMMA AllLeft ==
  ASSUME NEW r \in Announcing
  PROVE  /\ LeftInv(r, Script(r))
         /\ \A i \in Stages(r) : Sent(r, Script(r), i) = 0
<1> DEFINE t == Script(r)
<1>1. \A i \in Stages(r) : IsSeq(t[i]) /\ Len(t[i]) \in Nat
  BY ScriptSeqs
<1>2. \A i \in Stages(r) : Sent(r, t, i) = 0
  BY <1>1 DEF Sent
<1>3. ASSUME NEW s, IsSeq(s) PROVE s = Rest(s, 0)
  <2>1. PICK S : s \in Seq(S)
    BY <1>3 DEF IsSeq
  <2>2. Rest(s, 0) \in Seq(S) /\ Len(Rest(s, 0)) = Len(s)
    BY <2>1 DEF Rest
  <2>3. \A k \in 1..Len(s) : Rest(s, 0)[k] = s[k]
    BY <2>1 DEF Rest
  <2>4. QED
    BY <2>1, <2>2, <2>3, StreamFold!SeqEqual
<1>4. DOMAIN t = Stages(r)
  BY ScriptIs
<1> HIDE DEF t
<1>5. \A i \in Stages(r) : Sent(r, t, i) \in 0..Len(Script(r)[i])
  BY <1>1, <1>2 DEF t
<1>6. \A i \in Stages(r) : t[i] = Rest(Script(r)[i], Sent(r, t, i))
  BY <1>1, <1>2, <1>3 DEF t
<1>7. \A i \in Stages(r) : ~(Sent(r, t, i) > 0)
  BY <1>2
<1>8. LeftInv(r, t)
  BY <1>4, <1>5, <1>6, <1>7 DEF LeftInv
<1>9. QED
  BY <1>2, <1>8 DEF t

\* The next event of a stage that is ready is sent.
LEMMA OneSent ==
  ASSUME NEW r \in Announcing, NEW t, LeftInv(r, t), NEW i \in DOMAIN t,
         ReadyIn(r, t, i), NEW u, u = [t EXCEPT ![i] = Tail(@)]
  PROVE  LeftInv(r, u) /\ Moves(r, t, i, u) /\ i \in Stages(r)
<1> DEFINE n == Sent(r, t, i)
           s == Script(r)[i]
<1>1. i \in Stages(r)
  BY DEF LeftInv
<1>2. IsSeq(s) /\ Len(s) \in Nat
  BY <1>1, ScriptSeqs
<1>3. n \in 0..Len(s) /\ t[i] = Rest(s, n)
  BY <1>1 DEF LeftInv
<1>4. t[i] # <<>>
  BY DEF ReadyIn
<1>5. u[i] = Tail(t[i]) /\ \A j \in Stages(r) \ {i} : u[j] = t[j]
  BY <1>1 DEF LeftInv
<1>6. DOMAIN u = Stages(r)
  BY DEF LeftInv
<1> HIDE DEF n, s
<1>7. /\ n # Len(s) /\ Head(t[i]) = s[n + 1] /\ u[i] = Rest(s, n + 1)
      /\ Len(u[i]) = Len(s) - (n + 1)
  BY <1>2, <1>3, <1>4, <1>5, RestNext
<1>8. n \in 0..(Len(s) - 1) /\ n + 1 \in 0..Len(s)
  BY <1>2, <1>3, <1>7
<1>9. u[i] = <<>> <=> n + 1 = Len(s)
  BY <1>2, <1>7, <1>8, RestNext
<1>10. Sent(r, u, i) = n + 1
  <2>1. Len(s) - (Len(s) - (n + 1)) = n + 1
    BY <1>2, <1>8
  <2>2. QED
    BY <1>7, <2>1 DEF Sent, s
<1>11. \A j \in Stages(r) \ {i} : Sent(r, u, j) = Sent(r, t, j)
  BY <1>5 DEF Sent
<1>12. Moves(r, t, i, u)
  BY <1>4, <1>5, <1>7, <1>8, <1>9, <1>10, <1>11 DEF Moves, n, s
<1>13. ASSUME NEW j \in Stages(r)
       PROVE  /\ Sent(r, u, j) \in 0..Len(Script(r)[j])
              /\ u[j] = Rest(Script(r)[j], Sent(r, u, j))
  <2>1. CASE j = i
    BY <1>7, <1>8, <1>10, <2>1 DEF s
  <2>2. CASE j # i
    BY <1>5, <1>11, <2>2 DEF LeftInv
  <2>3. QED
    BY <2>1, <2>2
<1>14. ASSUME NEW k \in Stages(r), NEW j \in Stages(r), j < k,
              Sent(r, u, k) > 0,
              j = 0 \/ k = FinalStage(r) \/ r.from # "chat"
       PROVE  u[j] = <<>>
  <2>1. t[j] = <<>>
    <3>1. CASE k = i
      <4>1. j \in 0..(i - 1)
        BY <1>14, <3>1, ExchangeFacts DEF Stages
      <4>2. t[j] # <<>> => r.from = "chat" /\ j > 0 /\ i < FinalStage(r)
        BY <4>1 DEF ReadyIn
      <4>3. ~(r.from = "chat" /\ j > 0 /\ i < FinalStage(r))
        BY <1>14, <3>1, ExchangeFacts DEF Stages
      <4>4. QED
        BY <4>2, <4>3
    <3>2. CASE k # i
      <4>1. Sent(r, t, k) > 0
        BY <1>11, <1>14, <3>2
      <4>2. QED
        BY <1>14, <4>1 DEF LeftInv
    <3>3. QED
      BY <3>1, <3>2
  <2>2. j # i
    BY <1>4, <2>1
  <2>3. QED
    BY <1>5, <2>1, <2>2
<1>15. LeftInv(r, u)
  BY <1>6, <1>13, <1>14 DEF LeftInv
<1>16. QED
  BY <1>1, <1>12, <1>15

\* A move, for what is sent with it.
LEMMA MoveIs ==
  ASSUME NEW r, NEW t, NEW i, NEW u, Moves(r, t, i, u),
         NEW n, n = Sent(r, t, i), NEW s, s = Script(r)[i],
         NEW e, e = Head(t[i])
  PROVE  /\ n \in 0..(Len(s) - 1) /\ e = s[n + 1] /\ t[i] # <<>>
         /\ u[i] = <<>> <=> n + 1 = Len(s)
         /\ Sent(r, u, i) = n + 1
         /\ \A j \in Stages(r) : j # i => u[j] = t[j]
BY DEF Moves

\* A part that the decoder reads begins, goes on or ends.
LEMMA PartMoves ==
  ASSUME NEW r \in Announcing, NEW t, NEW i \in Parts(r), NEW u,
         Moves(r, t, i, u), Shown(r, i), NEW n, n = Sent(r, t, i)
  PROVE  /\ i \in Begun(r, t) <=> n > 0
         /\ i \in UnderWay(r, t) <=> n > 0
         /\ Begun(r, u) = Begun(r, t) \cup {i}
         /\ UnderWay(r, u) = IF n + 1 = Len(Script(r)[i])
                             THEN UnderWay(r, t) \ {i}
                             ELSE UnderWay(r, t) \cup {i}
<1>1. /\ n \in Nat /\ Sent(r, u, i) = n + 1 /\ t[i] # <<>>
      /\ u[i] = <<>> <=> n + 1 = Len(Script(r)[i])
  BY DEF Moves
<1>2. \A j \in Parts(r) : j # i => u[j] = t[j] /\ Sent(r, u, j) = Sent(r, t, j)
  BY ScriptIs DEF Moves
<1>3. i \in Begun(r, t) <=> n > 0
  BY DEF Begun
<1>4. i \in UnderWay(r, t) <=> n > 0
  BY <1>1, <1>3 DEF UnderWay
<1>5. n + 1 > 0
  BY <1>1
<1>6. Begun(r, u) = Begun(r, t) \cup {i}
  BY <1>1, <1>2, <1>5 DEF Begun
<1>7. \A j \in Parts(r) : j # i =>
        (j \in UnderWay(r, u) <=> j \in UnderWay(r, t))
  BY <1>2, <1>6 DEF UnderWay
<1>8. i \in UnderWay(r, u) <=> n + 1 # Len(Script(r)[i])
  BY <1>1, <1>6 DEF UnderWay
<1>9. UnderWay(r, t) \subseteq Parts(r) /\ UnderWay(r, u) \subseteq Parts(r)
  BY DEF UnderWay, Begun
<1>10. QED
  BY <1>3, <1>4, <1>6, <1>7, <1>8, <1>9

\* Other events change nothing of it.
LEMMA NoPartMoves ==
  ASSUME NEW r \in Announcing, NEW t, NEW i \in Stages(r), NEW u,
         Moves(r, t, i, u), ~(i \in Parts(r) /\ Shown(r, i))
  PROVE  Begun(r, u) = Begun(r, t) /\ UnderWay(r, u) = UnderWay(r, t)
<1>1. \A j \in Parts(r) : j # i => u[j] = t[j] /\ Sent(r, u, j) = Sent(r, t, j)
  BY ScriptIs DEF Moves
<1>2. \A j \in Parts(r) : Shown(r, j) => j # i
  OBVIOUS
<1>3. Begun(r, u) = Begun(r, t)
  BY <1>1, <1>2 DEF Begun
<1>4. QED
  BY <1>1, <1>2, <1>3 DEF UnderWay, Begun

\* What is known of the stages when one of them is ready.
LEMMA ReadyFacts ==
  ASSUME NEW r \in Announcing, NEW t, LeftInv(r, t), NEW i \in Stages(r),
         ReadyIn(r, t, i)
  PROVE  /\ t[FinalStage(r)] # <<>>
         /\ i # 0 => t[0] = <<>>
         /\ i = FinalStage(r) => \A j \in Parts(r) : t[j] = <<>>
<1> DEFINE f == FinalStage(r)
<1>1. /\ f \in Nat /\ 0 \in Stages(r) /\ f \in Stages(r) /\ f > 0
      /\ Stages(r) = 0..f
      /\ \A j \in Parts(r) : j \in Stages(r) /\ j # 0 /\ j # f
  BY ScriptIs, ExchangeFacts DEF Stages
<1>2. t[i] # <<>>
  BY DEF ReadyIn
<1>3. t[f] # <<>>
  <2>1. SUFFICES ASSUME t[f] = <<>> PROVE FALSE
    OBVIOUS
  <2>2. Len(Script(r)[f]) > 0
    <3>1. Script(r)[f] = Ending(r.from, r.stop) /\ r.from \in Protocols
      BY ScriptIs, ExchangeFacts
    <3>2. QED
      BY <3>1, EndingIs DEF Protocols
  <2>3. Sent(r, t, f) > 0
    BY <2>1, <2>2 DEF Sent
  <2>4. i < f /\ i \in Stages(r)
    BY <1>1, <1>2, <2>1
  <2>5. QED
    BY <1>1, <1>2, <2>3, <2>4 DEF LeftInv
<1>4. ASSUME i # 0 PROVE t[0] = <<>>
  <2>1. 0 \in 0..(i - 1)
    BY <1>1, <1>4
  <2>2. QED
    BY <2>1 DEF ReadyIn
<1>5. ASSUME i = f, NEW j \in Parts(r) PROVE t[j] = <<>>
  <2>1. j \in 0..(i - 1) /\ ~(i < f)
    BY <1>1, <1>5
  <2>2. QED
    BY <2>1 DEF ReadyIn
<1>6. QED
  BY <1>3, <1>4, <1>5

-----------------------------------------------------------------------------
(* The decoder of Anthropic streams.                                       *)

IsDecoder(d) ==
  /\ d = [started |-> d.started, done |-> d.done, blocks |-> d.blocks,
          open |-> d.open, hadTool |-> d.hadTool, stop |-> d.stop,
          usage |-> d.usage]
  /\ d.started \in BOOLEAN /\ d.done \in BOOLEAN

\* The decoder has started and is done when the stream has and is.
Follows(r, t, d) ==
  /\ IsDecoder(d)
  /\ d.started <=> t[0] = <<>>
  /\ d.done <=> t[FinalStage(r)] = <<>>

\* The blocks of an Anthropic stream are its parts.
PartTypes(r, t) == [i \in Begun(r, t) |-> r.message[i]]
AnthropicInv(r, t, d) == Follows(r, t, d) /\ d.open = UnderWay(r, t)

\* The fields of wire events.
LEMMA WireFields ==
  ASSUME NEW type, NEW index, NEW kind, NEW id, NEW text, NEW e,
         e = Wire(type, index, kind, id, text)
  PROVE  /\ e.type = type /\ e.index = index /\ e.kind = kind /\ e.id = id
         /\ e.text = text
BY DEF Wire

\* What decoding leaves as it was, but for the blocks that are open.
Keeps(d, b, started, open, done) ==
  /\ IsDecoder(b) /\ b.started = started /\ b.open = open /\ b.done = done
  /\ b.blocks = d.blocks

\* What its events are decoded to.
LEMMA AnthropicStart ==
  ASSUME NEW d, IsDecoder(d), NEW e, e.type = "message_start",
         NEW res \in DecodeAnthropic(d, e)
  PROVE  /\ Keeps(d, res.d, TRUE, d.open, d.done)
         /\ res.events = <<Start(e.usage)>>
<1>1. res = Result([d EXCEPT !.started = TRUE, !.usage = e.usage],
                   <<Start(e.usage)>>)
  BY DEF DecodeAnthropic
<1>2. QED
  BY <1>1 DEF Result, IsDecoder, Keeps

\* A block is opened.
LEMMA AnthropicBegin ==
  ASSUME NEW d, IsDecoder(d), NEW e, e.type = "content_block_start",
         e.kind # "redacted", NEW res \in DecodeAnthropic(d, e)
  PROVE  /\ Keeps(d, res.d, d.started, d.open \cup {e.index}, d.done)
         /\ res.events = <<ContentStart(e.index, e.kind, e.id)>>
<1>1. res = Result([d EXCEPT !.open = @ \cup {e.index}],
                   <<ContentStart(e.index, e.kind, e.id)>>)
  BY DEF DecodeAnthropic
<1>2. QED
  BY <1>1 DEF Result, IsDecoder, Keeps

\* Redacted reasoning and the usage are not relayed.
LEMMA AnthropicNothing ==
  ASSUME NEW d, IsDecoder(d), NEW e, NEW res \in DecodeAnthropic(d, e),
         \/ e.type = "content_block_start" /\ e.kind = "redacted"
         \/ e.type = "message_delta"
  PROVE  Keeps(d, res.d, d.started, d.open, d.done) /\ res.events = <<>>
<1>1. CASE e.type = "message_delta"
  <2>1. res = Result([d EXCEPT !.stop = e.stop,
                               !.usage = MergeUsage(d.usage, e.usage)], <<>>)
    BY <1>1 DEF DecodeAnthropic
  <2>2. QED
    BY <2>1 DEF Result, IsDecoder, Keeps
<1>2. CASE e.type # "message_delta"
  <2>1. res = Result(d, <<>>)
    BY <1>2 DEF DecodeAnthropic
  <2>2. QED
    BY <2>1 DEF Result, IsDecoder, Keeps
<1>3. QED
  BY <1>1, <1>2

\* More of an open block.
LEMMA AnthropicDelta ==
  ASSUME NEW d, IsDecoder(d), NEW e, e.type = "content_block_delta",
         e.index \in d.open, NEW res \in DecodeAnthropic(d, e)
  PROVE  /\ Keeps(d, res.d, d.started, d.open, d.done)
         /\ res.events = <<ContentDelta(e.index, e.kind, e.text)>>
<1>1. res = Result(d, <<ContentDelta(e.index, e.kind, e.text)>>)
  BY DEF DecodeAnthropic
<1>2. QED
  BY <1>1 DEF Result, IsDecoder, Keeps

\* A block is closed.
LEMMA AnthropicStop ==
  ASSUME NEW d, IsDecoder(d), NEW e, e.type = "content_block_stop",
         NEW res \in DecodeAnthropic(d, e)
  PROVE  /\ Keeps(d, res.d, d.started, d.open \ {e.index}, d.done)
         /\ res.events = <<ContentStop(e.index)>>
<1>1. res = Result([d EXCEPT !.open = @ \ {e.index}], <<ContentStop(e.index)>>)
  BY DEF DecodeAnthropic
<1>2. QED
  BY <1>1 DEF Result, IsDecoder, Keeps

\* The end closes the blocks that are open.
LEMMA AnthropicDone ==
  ASSUME NEW d, IsDecoder(d), NEW e, e.type = "message_stop",
         NEW res \in DecodeAnthropic(d, e)
  PROVE  /\ Keeps(d, res.d, d.started, {}, TRUE)
         /\ \E stops \in Stops(d.open) : \E stop, usage :
              res.events = Append(stops, Done(stop, usage))
<1>1. PICK stops \in Stops(d.open) :
        res = Result([d EXCEPT !.done = TRUE, !.open = {}],
                     Append(stops, Done(d.stop, d.usage)))
  BY DEF DecodeAnthropic
<1>2. QED
  BY <1>1 DEF Result, IsDecoder, Keeps

\* Nothing to close.
LEMMA NoStops == \A stops \in Stops({}) : stops = <<>>
<1>1. SUFFICES ASSUME NEW stops \in Stops({}) PROVE stops = <<>>
  OBVIOUS
<1>2. PICK order \in SetToSeqs({}) :
        stops = [k \in DOMAIN order |-> ContentStop(order[k])]
  BY DEF Stops
<1>3. PICK m \in Nat : order \in [1..m -> {}]
  BY FS_EmptySet, Orders
<1>4. m = 0
  <2>1. m # 0 => 1 \in 1..m
    OBVIOUS
  <2>2. QED
    BY <1>3, <2>1
<1>5. QED
  BY <1>2, <1>3, <1>4

\* The first event.
LEMMA AnthropicOpens ==
  ASSUME NEW r \in Announcing, r.from = "anthropic",
         NEW t, LeftInv(r, t), NEW d,
         AnthropicInv(r, t, d), NEW c, NEW w,
         Emitted(r.to, c, w, d.started, PartTypes(r, t), d.open, d.done),
         NEW i \in Stages(r), i = 0, ReadyIn(r, t, i), NEW u,
         Moves(r, t, i, u), NEW e, e = Head(t[i]),
         NEW res \in DecodeAnthropic(d, e)
  PROVE  /\ AnthropicInv(r, u, res.d)
         /\ Runs(r.to, c, w, res.events, res.d.started, PartTypes(r, u),
                 res.d.open, res.d.done)
<1> DEFINE f == FinalStage(r)
           s == Script(r)[i]
           n == Sent(r, t, i)
<1>1. r.to \in Protocols /\ i # f /\ f \in Stages(r)
  BY ExchangeFacts, ScriptIs
<1>2. t[f] # <<>> /\ t[i] # <<>>
  BY ReadyFacts DEF ReadyIn
<1>3. s = Opening(r.from) /\ r.from \in Protocols
  BY ScriptIs, ExchangeFacts
<1> HIDE DEF s, n, f
<1>4. Len(s) = 1 /\ s[1].type = "message_start"
  BY <1>3, OpeningIs
<1>5. /\ n \in 0..(Len(s) - 1) /\ e = s[n + 1]
      /\ u[i] = <<>> <=> n + 1 = Len(s)
      /\ \A j \in Stages(r) : j # i => u[j] = t[j]
  <2>1. n = Sent(r, t, i) /\ s = Script(r)[i]
    BY DEF n, s
  <2>2. QED
    BY <2>1, MoveIs
<1>6. e.type = "message_start" /\ u[i] = <<>> /\ u[f] # <<>>
  BY <1>1, <1>2, <1>4, <1>5
<1>7. Begun(r, u) = Begun(r, t) /\ UnderWay(r, u) = UnderWay(r, t)
  BY NoPartMoves, ScriptIs
<1>8. IsDecoder(d) /\ d.started = FALSE /\ d.done = FALSE
  BY <1>2 DEF AnthropicInv, Follows, IsDecoder, f
<1>9. /\ Keeps(d, res.d, TRUE, d.open, d.done)
      /\ res.events = <<Start(e.usage)>>
  BY <1>6, <1>8, AnthropicStart
<1>10. AnthropicInv(r, u, res.d)
  BY <1>6, <1>7, <1>8, <1>9 DEF AnthropicInv, Follows, Keeps, f
<1>11. PartTypes(r, u) = PartTypes(r, t)
  BY <1>7 DEF PartTypes
<1>12. Runs(r.to, c, w, <<>>, FALSE, PartTypes(r, t), d.open, FALSE)
  BY <1>8, RunNone
<1>13. Runs(r.to, c, w, Append(<<>>, Start(e.usage)), TRUE, PartTypes(r, t),
            d.open, FALSE)
  BY <1>1, <1>12, RunStart
<1>14. res.events = Append(<<>>, Start(e.usage))
  BY <1>9, AppendOne
<1>15. res.d.started = TRUE /\ res.d.open = d.open /\ res.d.done = FALSE
  BY <1>8, <1>9 DEF Keeps
<1>16. QED
  BY <1>10, <1>11, <1>13, <1>14, <1>15

\* The last events.
LEMMA AnthropicEnds ==
  ASSUME NEW r \in Announcing, r.from = "anthropic",
         NEW t, LeftInv(r, t), NEW d,
         AnthropicInv(r, t, d), NEW c, NEW w,
         Emitted(r.to, c, w, d.started, PartTypes(r, t), d.open, d.done),
         NEW i \in Stages(r), i = FinalStage(r), ReadyIn(r, t, i), NEW u,
         Moves(r, t, i, u), NEW e, e = Head(t[i]),
         NEW res \in DecodeAnthropic(d, e)
  PROVE  /\ AnthropicInv(r, u, res.d)
         /\ Runs(r.to, c, w, res.events, res.d.started, PartTypes(r, u),
                 res.d.open, res.d.done)
<1> DEFINE n == Sent(r, t, i)
           s == Script(r)[i]
<1>1. r.to \in Protocols /\ 0 # i /\ 0 \in Stages(r) /\ i \notin Parts(r)
  BY ExchangeFacts, ScriptIs
<1>2. t[i] # <<>> /\ t[0] = <<>> /\ \A j \in Parts(r) : t[j] = <<>>
  BY <1>1, ReadyFacts
<1>3. s = Ending(r.from, r.stop) /\ r.from \in Protocols
  BY ScriptIs, ExchangeFacts
<1> HIDE DEF n, s
<1>4. Len(s) = 2 /\ s[1].type = "message_delta" /\ s[2].type = "message_stop"
  BY <1>3, EndingIs
<1>5. /\ n \in 0..(Len(s) - 1) /\ e = s[n + 1]
      /\ u[i] = <<>> <=> n + 1 = Len(s)
      /\ \A j \in Stages(r) : j # i => u[j] = t[j]
  <2>1. n = Sent(r, t, i) /\ s = Script(r)[i]
    BY DEF n, s
  <2>2. QED
    BY <2>1, MoveIs
<1>6. u[0] = <<>>
  BY <1>1, <1>2, <1>5
<1>7. Begun(r, u) = Begun(r, t) /\ UnderWay(r, u) = UnderWay(r, t)
  BY <1>1, NoPartMoves
<1>8. UnderWay(r, t) = {}
  BY <1>2 DEF UnderWay, Begun
<1>9. IsDecoder(d) /\ d.started = TRUE /\ d.done = FALSE /\ d.open = {}
  BY <1>2, <1>8 DEF AnthropicInv, Follows, IsDecoder
<1>10. PartTypes(r, u) = PartTypes(r, t)
  BY <1>7 DEF PartTypes
<1>11. Runs(r.to, c, w, <<>>, TRUE, PartTypes(r, t), {}, FALSE)
  BY <1>9, RunNone
<1>12. CASE n + 1 = 1
  <2>1. e.type = "message_delta" /\ u[i] # <<>>
    BY <1>4, <1>5, <1>12
  <2>2. Keeps(d, res.d, d.started, d.open, d.done) /\ res.events = <<>>
    BY <1>9, <2>1, AnthropicNothing
  <2>3. AnthropicInv(r, u, res.d)
    BY <1>6, <1>7, <1>8, <1>9, <2>1, <2>2 DEF AnthropicInv, Follows, Keeps
  <2>4. res.d.started = TRUE /\ res.d.open = {} /\ res.d.done = FALSE
    BY <1>9, <2>2 DEF Keeps
  <2>5. QED
    BY <1>10, <1>11, <2>2, <2>3, <2>4
<1>13. CASE n + 1 = 2
  <2>1. e.type = "message_stop" /\ u[i] = <<>>
    BY <1>4, <1>5, <1>13
  <2>2. Keeps(d, res.d, d.started, {}, TRUE)
    BY <1>9, <2>1, AnthropicDone
  <2>3. PICK stops \in Stops(d.open) :
          \E stop, usage : res.events = Append(stops, Done(stop, usage))
    BY <1>9, <2>1, AnthropicDone
  <2>4. PICK stop, usage : res.events = Append(stops, Done(stop, usage))
    BY <2>3
  <2>5. res.events = Append(<<>>, Done(stop, usage))
    BY <1>9, <2>4, NoStops
  <2>6. AnthropicInv(r, u, res.d)
    BY <1>6, <1>7, <1>8, <1>9, <2>1, <2>2 DEF AnthropicInv, Follows, Keeps
  <2>7. res.d.started = TRUE /\ res.d.open = {} /\ res.d.done = TRUE
    BY <1>9, <2>2 DEF Keeps
  <2>8. Runs(r.to, c, w, Append(<<>>, Done(stop, usage)), TRUE, PartTypes(r, t),
             {}, TRUE)
    BY <1>1, <1>11, RunDone
  <2>9. QED
    BY <1>10, <2>5, <2>6, <2>7, <2>8
<1>14. QED
  BY <1>4, <1>5, <1>12, <1>13

\* A part that is redacted is not begun, and its end is ignored.
LEMMA RedactedMoves ==
  ASSUME NEW r \in Announcing, r.from = "anthropic", r.to # "anthropic",
         NEW t, LeftInv(r, t), NEW d, AnthropicInv(r, t, d), NEW c, NEW w,
         Emitted(r.to, c, w, d.started, PartTypes(r, t), d.open, d.done),
         NEW i \in Parts(r), r.message[i] = "redacted", ReadyIn(r, t, i), NEW u,
         Moves(r, t, i, u), NEW e, e = Head(t[i]),
         NEW res \in DecodeAnthropic(d, e)
  PROVE  /\ AnthropicInv(r, u, res.d)
         /\ Runs(r.to, c, w, res.events, res.d.started, PartTypes(r, u),
                 res.d.open, res.d.done)
<1> DEFINE f == FinalStage(r)
           n == Sent(r, t, i)
           s == Script(r)[i]
           k == r.message[i]
           size == Length(r, k)
<1>1. /\ r.to \in {"chat", "responses"} /\ i \in Stages(r) /\ f \in Stages(r)
      /\ 0 \in Stages(r) /\ i # 0 /\ i # f
  BY ExchangeFacts, ScriptIs DEF Protocols
<1>2. t[f] # <<>> /\ t[i] # <<>> /\ t[0] = <<>>
  BY <1>1, ReadyFacts DEF ReadyIn
<1>3. s = PartScript("anthropic", k, i, size) /\ size \in Nat
  BY ScriptIs, LengthIs
<1> HIDE DEF n, s, f, size
<1>4. /\ Len(s) \in Nat /\ Len(s) >= 2
      /\ s[1] = Wire("content_block_start", i, k, i, <<>>)
      /\ s[Len(s)] = Wire("content_block_stop", i, k, i, <<>>)
      /\ \A m \in 2..(Len(s) - 1) : k # "redacted"
  BY <1>3, AnthropicPart
<1>5. /\ n \in 0..(Len(s) - 1) /\ e = s[n + 1]
      /\ u[i] = <<>> <=> n + 1 = Len(s)
      /\ \A j \in Stages(r) : j # i => u[j] = t[j]
  <2>1. n = Sent(r, t, i) /\ s = Script(r)[i]
    BY DEF n, s
  <2>2. QED
    BY <2>1, MoveIs
<1>6. u[0] = <<>> /\ u[f] # <<>>
  BY <1>1, <1>2, <1>5
<1>7. Begun(r, u) = Begun(r, t) /\ UnderWay(r, u) = UnderWay(r, t)
  <2>1. ~Shown(r, i)
    BY DEF Shown
  <2>2. QED
    BY <1>1, <2>1, NoPartMoves
<1>8. i \notin Begun(r, t) /\ i \notin UnderWay(r, t)
  BY DEF Begun, UnderWay, Shown
<1>9. /\ IsDecoder(d) /\ d.started = TRUE /\ d.done = FALSE
      /\ d.open = UnderWay(r, t)
  BY <1>2 DEF AnthropicInv, Follows, IsDecoder, f
<1>10. PartTypes(r, u) = PartTypes(r, t) /\ DOMAIN PartTypes(r, t) = Begun(r, t)
  BY <1>7 DEF PartTypes
<1>11. Runs(r.to, c, w, <<>>, TRUE, PartTypes(r, t), d.open, FALSE)
  BY <1>9, RunNone
<1>12. CASE n + 1 = 1
  <2>1. e.type = "content_block_start" /\ e.kind = "redacted"
    BY <1>4, <1>5, <1>12, WireFields
  <2>2. Keeps(d, res.d, d.started, d.open, d.done) /\ res.events = <<>>
    BY <1>9, <2>1, AnthropicNothing
  <2>3. AnthropicInv(r, u, res.d)
    BY <1>6, <1>7, <1>9, <2>1, <2>2 DEF AnthropicInv, Follows, Keeps, f
  <2>4. res.d.started = TRUE /\ res.d.open = d.open /\ res.d.done = FALSE
    BY <1>9, <2>2 DEF Keeps
  <2>5. QED
    BY <1>10, <1>11, <2>2, <2>3, <2>4
<1>13. CASE n + 1 = Len(s)
  <2>1. e.type = "content_block_stop" /\ e.index = i
    BY <1>4, <1>5, <1>13, WireFields
  <2>2. /\ Keeps(d, res.d, d.started, d.open \ {e.index}, d.done)
        /\ res.events = <<ContentStop(e.index)>>
    BY <1>9, <2>1, AnthropicStop
  <2>3. res.d.open = d.open /\ res.d.started = TRUE /\ res.d.done = FALSE
    BY <1>8, <1>9, <2>1, <2>2 DEF Keeps
  <2>4. AnthropicInv(r, u, res.d)
    BY <1>6, <1>7, <1>9, <2>2, <2>3 DEF AnthropicInv, Follows, Keeps, f
  <2>5. Runs(r.to, c, w, Append(<<>>, ContentStop(i)), TRUE, PartTypes(r, t),
             d.open, FALSE)
    BY <1>1, <1>8, <1>10, <1>11, RunIgnored
  <2>6. res.events = Append(<<>>, ContentStop(i))
    BY <2>1, <2>2, AppendOne
  <2>7. QED
    BY <1>10, <2>3, <2>4, <2>5, <2>6
<1>14. n + 1 = 1 \/ n + 1 = Len(s) \/ n + 1 \in 2..(Len(s) - 1)
  BY <1>4, <1>5
<1>15. QED
  BY <1>4, <1>12, <1>13, <1>14

\* Any other part begins, goes on and ends.
LEMMA AnthropicMoves ==
  ASSUME NEW r \in Announcing, r.from = "anthropic",
         NEW t, LeftInv(r, t), NEW d,
         AnthropicInv(r, t, d), NEW c, NEW w,
         Emitted(r.to, c, w, d.started, PartTypes(r, t), d.open, d.done),
         NEW i \in Parts(r), r.message[i] # "redacted", ReadyIn(r, t, i), NEW u,
         Moves(r, t, i, u), NEW e, e = Head(t[i]),
         NEW res \in DecodeAnthropic(d, e)
  PROVE  /\ AnthropicInv(r, u, res.d)
         /\ Runs(r.to, c, w, res.events, res.d.started, PartTypes(r, u),
                 res.d.open, res.d.done)
<1> DEFINE f == FinalStage(r)
           n == Sent(r, t, i)
           s == Script(r)[i]
           k == r.message[i]
           size == Length(r, k)
<1>1. /\ r.to \in Protocols /\ i \in Stages(r) /\ f \in Stages(r)
      /\ 0 \in Stages(r) /\ i # 0 /\ i # f
  BY ExchangeFacts, ScriptIs
<1>2. k \in ContentTypes
  BY ExchangeFacts DEF PartKinds
<1>3. t[f] # <<>> /\ t[i] # <<>> /\ t[0] = <<>>
  BY <1>1, ReadyFacts DEF ReadyIn
<1>4. s = PartScript("anthropic", k, i, size) /\ size \in Nat
  BY ScriptIs, LengthIs
<1>5. i # -1
  BY DEF Parts
<1>6. /\ i \in Begun(r, t) <=> n > 0
      /\ i \in UnderWay(r, t) <=> n > 0
      /\ Begun(r, u) = Begun(r, t) \cup {i}
      /\ UnderWay(r, u) = IF n + 1 = Len(s) THEN UnderWay(r, t) \ {i}
                          ELSE UnderWay(r, t) \cup {i}
  <2>1. Shown(r, i)
    BY DEF Shown
  <2>2. QED
    BY <2>1, PartMoves
<1> HIDE DEF n, s, f, k, size
<1>7. /\ Len(s) \in Nat /\ Len(s) >= 2
      /\ s[1] = Wire("content_block_start", i, k, i, <<>>)
      /\ s[Len(s)] = Wire("content_block_stop", i, k, i, <<>>)
      /\ \A m \in 2..(Len(s) - 1) : \E text :
           s[m] = Wire("content_block_delta", i, k, -1, text)
  BY <1>4, AnthropicPart
<1>8. /\ n \in 0..(Len(s) - 1) /\ e = s[n + 1]
      /\ u[i] = <<>> <=> n + 1 = Len(s)
      /\ \A j \in Stages(r) : j # i => u[j] = t[j]
  <2>1. n = Sent(r, t, i) /\ s = Script(r)[i]
    BY DEF n, s
  <2>2. QED
    BY <2>1, MoveIs
<1>9. u[0] = <<>> /\ u[f] # <<>>
  BY <1>1, <1>3, <1>8
<1>10. /\ IsDecoder(d) /\ d.started = TRUE /\ d.done = FALSE
       /\ d.open = UnderWay(r, t)
  BY <1>3 DEF AnthropicInv, Follows, IsDecoder, f
<1>11. DOMAIN PartTypes(r, t) = Begun(r, t)
  BY DEF PartTypes
<1>12. Runs(r.to, c, w, <<>>, TRUE, PartTypes(r, t), d.open, FALSE)
  BY <1>10, RunNone
<1>13. CASE n + 1 = 1
  <2>1. e.type = "content_block_start" /\ e.kind = k /\ e.index = i /\ e.id = i
    BY <1>7, <1>8, <1>13, WireFields
  <2>2. e.kind # "redacted"
    BY <1>2, <2>1 DEF ContentTypes
  <2>3. /\ Keeps(d, res.d, d.started, d.open \cup {e.index}, d.done)
        /\ res.events = <<ContentStart(e.index, e.kind, e.id)>>
    BY <1>10, <2>1, <2>2, AnthropicBegin
  <2>4. /\ res.d.open = d.open \cup {i} /\ res.d.started = TRUE
        /\ res.d.done = FALSE
    BY <1>10, <2>1, <2>3 DEF Keeps
  <2>5. n + 1 # Len(s)
    BY <1>7, <1>13
  <2>6. AnthropicInv(r, u, res.d)
    BY <1>9, <1>6, <1>10, <2>3, <2>4, <2>5 DEF AnthropicInv, Follows, Keeps, f
  <2>7. i \notin DOMAIN PartTypes(r, t)
    BY <1>8, <1>6, <1>11, <1>13
  <2>8. PartTypes(r, u) = Put(PartTypes(r, t), i, k)
    BY <1>6, <1>11, <2>7 DEF PartTypes, Put, k
  <2>9. Runs(r.to, c, w, Append(<<>>, ContentStart(i, k, i)), TRUE,
             PartTypes(r, u), d.open \cup {i}, FALSE)
    BY <1>1, <1>2, <1>5, <1>12, <2>7, <2>8, RunContentStart
  <2>10. res.events = Append(<<>>, ContentStart(i, k, i))
    BY <2>1, <2>3, AppendOne
  <2>11. QED
    BY <2>4, <2>6, <2>9, <2>10
<1>14. ASSUME n > 0
       PROVE  /\ Begun(r, u) = Begun(r, t) /\ PartTypes(r, u) = PartTypes(r, t)
              /\ i \in d.open /\ PartTypes(r, t)[i] = k
  <2>1. Begun(r, u) = Begun(r, t) /\ i \in Begun(r, t)
    BY <1>6, <1>14
  <2>2. QED
    BY <1>6, <1>10, <1>14, <2>1 DEF PartTypes, k
<1>15. CASE n + 1 = Len(s)
  <2>1. n > 0
    BY <1>7, <1>8, <1>15
  <2>2. e.type = "content_block_stop" /\ e.index = i
    BY <1>7, <1>8, <1>15, WireFields
  <2>3. /\ Keeps(d, res.d, d.started, d.open \ {e.index}, d.done)
        /\ res.events = <<ContentStop(e.index)>>
    BY <1>10, <2>2, AnthropicStop
  <2>4. res.d.open = d.open \ {i} /\ res.d.started = TRUE /\ res.d.done = FALSE
    BY <1>10, <2>2, <2>3 DEF Keeps
  <2>5. AnthropicInv(r, u, res.d)
    BY <1>9, <1>6, <1>10, <1>15, <2>3, <2>4 DEF AnthropicInv, Follows, Keeps, f
  <2>6. i \in d.open /\ PartTypes(r, u) = PartTypes(r, t)
    BY <1>14, <2>1
  <2>7. Runs(r.to, c, w, Append(<<>>, ContentStop(i)), TRUE, PartTypes(r, t),
             d.open \ {i}, FALSE)
    BY <1>1, <1>12, <2>6, RunStop
  <2>8. res.events = Append(<<>>, ContentStop(i))
    BY <2>2, <2>3, AppendOne
  <2>9. QED
    BY <2>4, <2>5, <2>6, <2>7, <2>8
<1>16. CASE n + 1 \in 2..(Len(s) - 1)
  <2>1. n > 0 /\ n + 1 # Len(s)
    BY <1>7, <1>8, <1>16
  <2>2. PICK text : e = Wire("content_block_delta", i, k, -1, text)
    BY <1>7, <1>8, <1>16
  <2>3. /\ e.type = "content_block_delta" /\ e.index = i /\ e.kind = k
        /\ e.text = text
    BY <2>2, WireFields
  <2>4. /\ i \in d.open /\ PartTypes(r, u) = PartTypes(r, t)
        /\ PartTypes(r, t)[i] = k
    BY <1>14, <2>1
  <2>5. /\ Keeps(d, res.d, d.started, d.open, d.done)
        /\ res.events = <<ContentDelta(e.index, e.kind, e.text)>>
    BY <1>10, <2>3, <2>4, AnthropicDelta
  <2>6. res.d.open = d.open /\ res.d.started = TRUE /\ res.d.done = FALSE
    BY <1>10, <2>5 DEF Keeps
  <2>7. UnderWay(r, u) = d.open
    BY <1>6, <1>10, <2>1, <2>4
  <2>8. AnthropicInv(r, u, res.d)
    BY <1>9, <1>10, <2>5, <2>6, <2>7 DEF AnthropicInv, Follows, Keeps, f
  <2>9. Runs(r.to, c, w, Append(<<>>, ContentDelta(i, k, text)), TRUE,
             PartTypes(r, t), d.open, FALSE)
    BY <1>1, <1>12, <2>4, RunDelta
  <2>10. res.events = Append(<<>>, ContentDelta(i, k, text))
    BY <2>3, <2>5, AppendOne
  <2>11. QED
    BY <2>6, <2>8, <2>4, <2>9, <2>10
<1>17. n + 1 = 1 \/ n + 1 = Len(s) \/ n + 1 \in 2..(Len(s) - 1)
  BY <1>7, <1>8
<1>18. QED
  BY <1>13, <1>15, <1>16, <1>17

-----------------------------------------------------------------------------
(* The indexes of blocks that have keys.                                   *)

HasKey(blocks, key) == \E k \in 1..Len(blocks) : blocks[k] = key
Indexed(blocks) ==
  /\ IsSeq(blocks)
  /\ \A j, k \in 1..Len(blocks) : blocks[j] = blocks[k] => j = k
Pos(blocks, key) == IndexOf([blocks |-> blocks], key)

\* What a block with a key is.
KindOf(key) ==
  IF key[1] = "item" THEN "tool_call"
  ELSE IF key[1] = "content" THEN "text" ELSE key[1]
KeyTypes(blocks) == [i \in 0..(Len(blocks) - 1) |-> KindOf(blocks[i + 1])]

\* The index of a key is its position.
LEMMA PosIs ==
  ASSUME NEW blocks, Indexed(blocks), NEW key
  PROVE  /\ Len(blocks) \in Nat
         /\ \A d : d.blocks = blocks => IndexOf(d, key) = Pos(blocks, key)
         /\ ~HasKey(blocks, key) => Pos(blocks, key) = Len(blocks)
         /\ HasKey(blocks, key) =>
              /\ Pos(blocks, key) \in 0..(Len(blocks) - 1)
              /\ blocks[Pos(blocks, key) + 1] = key
         /\ \A k \in 1..Len(blocks) :
              blocks[k] = key => Pos(blocks, key) = k - 1
<1>1. PICK S : blocks \in Seq(S)
  BY DEF Indexed, IsSeq
<1>2. Len(blocks) \in Nat /\ DOMAIN blocks = 1..Len(blocks)
  BY <1>1
<1> DEFINE I == {k \in 1..Len(blocks) : blocks[k] = key}
           m == CHOOSE k \in 1..Len(blocks) : blocks[k] = key
<1>3. Pos(blocks, key) = IF HasKey(blocks, key) THEN m - 1 ELSE Len(blocks)
  BY <1>2 DEF Pos, IndexOf, HasKey
<1>4. \A d : d.blocks = blocks =>
        IndexOf(d, key) = IF HasKey(blocks, key) THEN m - 1 ELSE Len(blocks)
  BY <1>2 DEF IndexOf, HasKey
<1>5. HasKey(blocks, key) => m \in 1..Len(blocks) /\ blocks[m] = key
  BY DEF HasKey
<1> HIDE DEF m
<1>6. HasKey(blocks, key) =>
        Pos(blocks, key) \in 0..(Len(blocks) - 1) /\ Pos(blocks, key) + 1 = m
  BY <1>2, <1>3, <1>5
<1>7. ASSUME NEW k \in 1..Len(blocks), blocks[k] = key
      PROVE  Pos(blocks, key) = k - 1
  <2>1. HasKey(blocks, key)
    BY <1>7 DEF HasKey
  <2>2. m = k
    BY <1>5, <1>7, <2>1 DEF Indexed
  <2>3. QED
    BY <1>3, <2>1, <2>2
<1>8. QED
  BY <1>2, <1>3, <1>4, <1>5, <1>6, <1>7

\* Two keys have two indexes.
LEMMA PosDiffers ==
  ASSUME NEW blocks, Indexed(blocks), NEW a, HasKey(blocks, a), NEW b,
         HasKey(blocks, b), a # b
  PROVE  Pos(blocks, a) # Pos(blocks, b)
<1>1. blocks[Pos(blocks, a) + 1] = a
  BY PosIs
<1>2. blocks[Pos(blocks, b) + 1] = b
  BY PosIs
<1>3. QED
  BY <1>1, <1>2

\* A new key.
LEMMA KeyAppended ==
  ASSUME NEW blocks, Indexed(blocks), NEW key, ~HasKey(blocks, key),
         NEW more, more = Append(blocks, key)
  PROVE  /\ Indexed(more)
         /\ \A x : HasKey(more, x) <=> HasKey(blocks, x) \/ x = key
         /\ Pos(more, key) = Len(blocks)
         /\ \A x : HasKey(blocks, x) => Pos(more, x) = Pos(blocks, x)
         /\ Len(blocks) \notin DOMAIN KeyTypes(blocks)
         /\ KeyTypes(more) = Put(KeyTypes(blocks), Len(blocks), KindOf(key))
<1> DEFINE n == Len(blocks)
<1>1. /\ IsSeq(more) /\ n \in Nat /\ Len(more) = n + 1 /\ more[n + 1] = key
      /\ \A k \in 1..n : more[k] = blocks[k]
  BY OneMore DEF Indexed
<1> HIDE DEF n
<1>2. \A k \in 1..(n + 1) : k \in 1..n \/ k = n + 1
  BY <1>1
<1>3. \A k \in 1..n : blocks[k] # key
  BY DEF HasKey, n
<1>4. Indexed(more)
  BY <1>1, <1>2, <1>3 DEF Indexed, n
<1>5. \A x : HasKey(more, x) <=> HasKey(blocks, x) \/ x = key
  <2>1. n + 1 \in 1..(n + 1) /\ \A k \in 1..n : k \in 1..(n + 1)
    BY <1>1
  <2>2. QED
    BY <1>1, <1>2, <2>1 DEF HasKey, n
<1>6. Pos(more, key) = n
  <2>1. n + 1 \in 1..Len(more) /\ (n + 1) - 1 = n
    BY <1>1
  <2>2. Pos(more, key) = (n + 1) - 1
    BY <1>1, <1>4, <2>1, PosIs
  <2>3. QED
    BY <2>1, <2>2
<1>7. ASSUME NEW x, HasKey(blocks, x) PROVE Pos(more, x) = Pos(blocks, x)
  <2>1. PICK k \in 1..n : blocks[k] = x
    BY <1>7 DEF HasKey, n
  <2>2. Pos(blocks, x) = k - 1
    BY <2>1, PosIs DEF n
  <2>3. k \in 1..Len(more) /\ more[k] = x
    BY <1>1, <2>1
  <2>4. Pos(more, x) = k - 1
    BY <1>4, <2>3, PosIs
  <2>5. QED
    BY <2>2, <2>4
<1>8. DOMAIN KeyTypes(blocks) = 0..(n - 1)
  BY DEF KeyTypes, n
<1>9. n \notin 0..(n - 1)
  BY <1>1
<1>10. KeyTypes(more) = Put(KeyTypes(blocks), n, KindOf(key))
  <2> DEFINE a == KeyTypes(more)
             b == Put(KeyTypes(blocks), n, KindOf(key))
  <2>1. a = [i \in 0..n |-> KindOf(more[i + 1])]
    <3>1. Len(more) - 1 = n
      BY <1>1
    <3>2. QED
      BY <3>1 DEF KeyTypes
  <2>2. b = [i \in 0..n |->
               IF i = n THEN KindOf(key) ELSE KeyTypes(blocks)[i]]
    <3>1. 0..(n - 1) \cup {n} = 0..n
      BY <1>1
    <3>2. QED
      BY <1>8, <3>1 DEF Put
  <2>3. ASSUME NEW i \in 0..n
        PROVE  KindOf(more[i + 1])
                 = IF i = n THEN KindOf(key) ELSE KeyTypes(blocks)[i]
    <3>1. CASE i = n
      BY <1>1, <3>1
    <3>2. CASE i # n
      <4>1. i \in 0..(n - 1) /\ i + 1 \in 1..n
        BY <1>1, <3>2
      <4>2. KeyTypes(blocks)[i] = KindOf(blocks[i + 1])
        BY <4>1 DEF KeyTypes, n
      <4>3. QED
        BY <1>1, <3>2, <4>1, <4>2
    <3>3. QED
      BY <3>1, <3>2
  <2> HIDE DEF a, b
  <2>4. a = b
    BY <2>1, <2>2, <2>3
  <2>5. QED
    BY <2>4 DEF a, b
<1>11. QED
  BY <1>4, <1>5, <1>6, <1>7, <1>8, <1>9, <1>10 DEF n

-----------------------------------------------------------------------------
(* The decoder of Responses streams.                                       *)

ItemKey(r, i) ==
  IF r.message[i] = "text" THEN <<"content", i>> ELSE <<"item", i>>

\* The indexes of some parts.
Places(r, parts, blocks) == {Pos(blocks, ItemKey(r, i)) : i \in parts}

ResponsesInv(r, t, d) ==
  /\ Follows(r, t, d) /\ Indexed(d.blocks)
  /\ \A i \in Parts(r) : Shown(r, i) =>
       (HasKey(d.blocks, ItemKey(r, i)) <=> i \in Begun(r, t))
  /\ d.open = Places(r, UnderWay(r, t), d.blocks)

\* What its events are decoded to.
LEMMA ResponsesStart ==
  ASSUME NEW d, IsDecoder(d), NEW e, e.type = "response.created",
         d.started = FALSE, NEW res, res = DecodeResponses(d, e)
  PROVE  /\ Keeps(d, res.d, TRUE, d.open, d.done)
         /\ res.events = <<Start(NoUsage)>>
<1>1. res = Result([d EXCEPT !.started = TRUE], <<Start(NoUsage)>>)
  BY DEF DecodeResponses
<1>2. res.d = [d EXCEPT !.started = TRUE] /\ res.events = <<Start(NoUsage)>>
  BY <1>1 DEF Result
<1>3. Keeps(d, res.d, TRUE, d.open, d.done)
  BY <1>2 DEF IsDecoder, Keeps
<1>4. QED
  BY <1>2, <1>3

\* Reasoning is not relayed.
LEMMA ResponsesNothing ==
  ASSUME NEW d, IsDecoder(d), NEW e, NEW res, res = DecodeResponses(d, e),
         \/ e.type = "output_item.added" /\ e.kind = "reasoning"
         \/ e.type = "reasoning_summary_text.delta"
         \/ e.type = "output_item.done" /\ e.kind = "reasoning"
  PROVE  Keeps(d, res.d, d.started, d.open, d.done) /\ res.events = <<>>
<1>1. res = Result(d, <<>>)
  BY DEF DecodeResponses
<1>2. QED
  BY <1>1 DEF Result, IsDecoder, Keeps

\* The last event of a Responses stream.
EndsResponse(e) == e.type \in {"response.completed", "response.incomplete"}

\* The end.
LEMMA ResponsesDone ==
  ASSUME NEW d, IsDecoder(d), NEW e, EndsResponse(e),
         NEW res, res = DecodeResponses(d, e)
  PROVE  /\ Keeps(d, res.d, d.started, d.open, TRUE)
         /\ \E stop, usage : res.events = <<Done(stop, usage)>>
<1> DEFINE stop == IF d.hadTool /\ e.stop = "stop" THEN "tool_use" ELSE e.stop
           usage == IF e.usage.known THEN e.usage ELSE d.usage
<1>1. res = Result([d EXCEPT !.done = TRUE, !.stop = stop, !.usage = usage],
                   <<Done(stop, usage)>>)
  <2>1. CASE e.type = "response.completed"
    BY <2>1 DEF DecodeResponses
  <2>2. CASE e.type = "response.incomplete"
    BY <2>2 DEF DecodeResponses
  <2>3. QED
    BY <2>1, <2>2 DEF EndsResponse
<1> HIDE DEF stop, usage
<1>2. /\ res.d = [d EXCEPT !.done = TRUE, !.stop = stop, !.usage = usage]
      /\ res.events = <<Done(stop, usage)>>
  BY <1>1 DEF Result
<1>3. Keeps(d, res.d, d.started, d.open, TRUE)
  BY <1>2 DEF IsDecoder, Keeps
<1>4. QED
  BY <1>2, <1>3

\* The key of the block that an event is about.
EventKey(e) ==
  IF e.kind = "text" THEN <<"content", e.index>> ELSE <<"item", e.index>>

\* A block is opened, with the next index.
LEMMA ResponsesBegin ==
  ASSUME NEW d, IsDecoder(d), Indexed(d.blocks), NEW e,
         \/ e.type = "output_item.added" /\ e.kind = "tool_call"
         \/ e.type = "content_part.added" /\ e.kind = "text",
         ~HasKey(d.blocks, EventKey(e)), NEW res, res = DecodeResponses(d, e),
         NEW i, i = Len(d.blocks)
  PROVE  /\ IsDecoder(res.d) /\ res.d.started = d.started
         /\ res.d.done = d.done /\ res.d.open = d.open \cup {i}
         /\ res.d.blocks = Append(d.blocks, EventKey(e))
         /\ res.events = <<ContentStart(i, e.kind, e.id)>>
<1> DEFINE key == EventKey(e)
<1>1. IndexOf(d, key) = i /\ i \in Nat /\ ~(i < i)
  BY PosIs
<1>2. Allocate(d, key) = [d EXCEPT !.blocks = Append(@, key)]
  BY <1>1 DEF Allocate
<1>3. res = Result([Allocate(d, key) EXCEPT
                      !.open = @ \cup {i},
                      !.hadTool = @ \/ e.kind = "tool_call"],
                   <<ContentStart(i, e.kind, e.id)>>)
  BY <1>1 DEF DecodeResponses, EventKey
<1> HIDE DEF key
<1>4. /\ res.d = [Allocate(d, key) EXCEPT
                   !.open = @ \cup {i}, !.hadTool = @ \/ e.kind = "tool_call"]
      /\ res.events = <<ContentStart(i, e.kind, e.id)>>
  BY <1>3 DEF Result
<1>5. res.d = [d EXCEPT !.blocks = Append(@, key), !.open = @ \cup {i},
                        !.hadTool = @ \/ e.kind = "tool_call"]
  BY <1>2, <1>4 DEF IsDecoder
<1>6. /\ IsDecoder(res.d) /\ res.d.started = d.started
      /\ res.d.done = d.done /\ res.d.open = d.open \cup {i}
      /\ res.d.blocks = Append(d.blocks, key)
  BY <1>5 DEF IsDecoder
<1>7. QED
  BY <1>4, <1>6 DEF key

\* More of a block.
LEMMA ResponsesDelta ==
  ASSUME NEW d, IsDecoder(d), Indexed(d.blocks), NEW e,
         \/ e.type = "function_call_arguments.delta" /\ e.kind = "tool_call"
         \/ e.type = "output_text.delta" /\ e.kind = "text",
         HasKey(d.blocks, EventKey(e)), NEW res, res = DecodeResponses(d, e),
         NEW i, i = Pos(d.blocks, EventKey(e))
  PROVE  /\ Keeps(d, res.d, d.started, d.open, d.done)
         /\ res.events = <<ContentDelta(i, e.kind, e.text)>>
<1> DEFINE key == EventKey(e)
<1>1. IndexOf(d, key) = i /\ i < Len(d.blocks)
  <2>1. i \in 0..(Len(d.blocks) - 1) /\ Len(d.blocks) \in Nat
    BY PosIs
  <2>2. IndexOf(d, key) = i
    BY PosIs
  <2>3. QED
    BY <2>1, <2>2
<1>2. Allocate(d, key) = d
  BY <1>1 DEF Allocate
<1>3. res = Result(Allocate(d, key), <<ContentDelta(i, e.kind, e.text)>>)
  BY <1>1 DEF DecodeResponses, EventKey
<1> HIDE DEF key
<1>4. QED
  BY <1>2, <1>3 DEF Result, IsDecoder, Keeps

\* A block is closed.
LEMMA ResponsesStop ==
  ASSUME NEW d, IsDecoder(d), Indexed(d.blocks), NEW e,
         \/ e.type = "output_item.done" /\ e.kind = "tool_call"
         \/ e.type = "content_part.done" /\ e.kind = "text",
         HasKey(d.blocks, EventKey(e)), NEW res, res = DecodeResponses(d, e),
         NEW i, i = Pos(d.blocks, EventKey(e)), i \in d.open
  PROVE  /\ Keeps(d, res.d, d.started, d.open \ {i}, d.done)
         /\ res.events = <<ContentStop(i)>>
<1> DEFINE key == EventKey(e)
<1>1. IndexOf(d, key) = i /\ i < Len(d.blocks)
  <2>1. i \in 0..(Len(d.blocks) - 1) /\ Len(d.blocks) \in Nat
    BY PosIs
  <2>2. IndexOf(d, key) = i
    BY PosIs
  <2>3. QED
    BY <2>1, <2>2
<1>2. StopBlock(d, key)
        = Result([d EXCEPT !.open = @ \ {i}], <<ContentStop(i)>>)
  BY <1>1 DEF StopBlock
<1>3. res = StopBlock(d, key)
  BY DEF DecodeResponses, EventKey
<1> HIDE DEF key
<1>4. QED
  BY <1>2, <1>3 DEF Result, IsDecoder, Keeps

\* A stage that is not of a part the decoder reads, with a decoder that keeps
\* its blocks.
LEMMA ResponsesKept ==
  ASSUME NEW r \in Announcing, NEW t, NEW d, ResponsesInv(r, t, d), NEW u,
         Begun(r, u) = Begun(r, t), UnderWay(r, u) = UnderWay(r, t), NEW b,
         IsDecoder(b), b.blocks = d.blocks, b.open = d.open, Follows(r, u, b)
  PROVE  ResponsesInv(r, u, b)
BY DEF ResponsesInv

\* The first event.
LEMMA ResponsesOpens ==
  ASSUME NEW r \in Announcing, r.from = "responses",
         NEW t, LeftInv(r, t), NEW d,
         ResponsesInv(r, t, d), NEW c, NEW w,
         Emitted(r.to, c, w, d.started, KeyTypes(d.blocks), d.open, d.done),
         NEW i \in Stages(r), i = 0, ReadyIn(r, t, i), NEW u,
         Moves(r, t, i, u), NEW e, e = Head(t[i]),
         NEW res, res = DecodeResponses(d, e)
  PROVE  /\ ResponsesInv(r, u, res.d)
         /\ Runs(r.to, c, w, res.events, res.d.started, KeyTypes(res.d.blocks),
                 res.d.open, res.d.done)
<1> DEFINE f == FinalStage(r)
           s == Script(r)[i]
           n == Sent(r, t, i)
<1>1. r.to \in Protocols /\ i # f /\ f \in Stages(r)
  BY ExchangeFacts, ScriptIs
<1>2. t[f] # <<>> /\ t[i] # <<>>
  BY ReadyFacts DEF ReadyIn
<1>3. s = Opening(r.from) /\ r.from \in Protocols
  BY ScriptIs, ExchangeFacts
<1> HIDE DEF s, n, f
<1>4. Len(s) = 1 /\ s[1].type = "response.created"
  BY <1>3, OpeningIs
<1>5. /\ n \in 0..(Len(s) - 1) /\ e = s[n + 1]
      /\ u[i] = <<>> <=> n + 1 = Len(s)
      /\ \A j \in Stages(r) : j # i => u[j] = t[j]
  <2>1. n = Sent(r, t, i) /\ s = Script(r)[i]
    BY DEF n, s
  <2>2. QED
    BY <2>1, MoveIs
<1>6. e.type = "response.created" /\ u[i] = <<>> /\ u[f] # <<>>
  BY <1>1, <1>2, <1>4, <1>5
<1>7. Begun(r, u) = Begun(r, t) /\ UnderWay(r, u) = UnderWay(r, t)
  BY NoPartMoves, ScriptIs
<1>8. IsDecoder(d) /\ d.started = FALSE /\ d.done = FALSE
  BY <1>2 DEF ResponsesInv, Follows, IsDecoder, f
<1>9. /\ Keeps(d, res.d, TRUE, d.open, d.done)
      /\ res.events = <<Start(NoUsage)>>
  BY <1>6, <1>8, ResponsesStart
<1>10. /\ IsDecoder(res.d) /\ res.d.started = TRUE /\ res.d.open = d.open
       /\ res.d.done = FALSE /\ res.d.blocks = d.blocks
  BY <1>8, <1>9 DEF Keeps
<1>11. Follows(r, u, res.d)
  BY <1>6, <1>10 DEF Follows, f
<1>12. ResponsesInv(r, u, res.d)
  BY <1>7, <1>10, <1>11, ResponsesKept
<1>13. Runs(r.to, c, w, <<>>, FALSE, KeyTypes(d.blocks), d.open, FALSE)
  BY <1>8, RunNone
<1>14. Runs(r.to, c, w, Append(<<>>, Start(NoUsage)), TRUE,
            KeyTypes(d.blocks), d.open, FALSE)
  BY <1>1, <1>13, RunStart
<1>15. res.events = Append(<<>>, Start(NoUsage))
  BY <1>9, AppendOne
<1>16. QED
  BY <1>10, <1>12, <1>14, <1>15

\* The last event.
LEMMA ResponsesEnds ==
  ASSUME NEW r \in Announcing, r.from = "responses",
         NEW t, LeftInv(r, t), NEW d,
         ResponsesInv(r, t, d), NEW c, NEW w,
         Emitted(r.to, c, w, d.started, KeyTypes(d.blocks), d.open, d.done),
         NEW i \in Stages(r), i = FinalStage(r), ReadyIn(r, t, i), NEW u,
         Moves(r, t, i, u), NEW e, e = Head(t[i]),
         NEW res, res = DecodeResponses(d, e)
  PROVE  /\ ResponsesInv(r, u, res.d) /\ res.d.open = {}
         /\ Runs(r.to, c, w, res.events, res.d.started, KeyTypes(res.d.blocks),
                 res.d.open, res.d.done)
<1> DEFINE n == Sent(r, t, i)
           s == Script(r)[i]
<1>1. r.to \in Protocols /\ 0 # i /\ 0 \in Stages(r) /\ i \notin Parts(r)
  BY ExchangeFacts, ScriptIs
<1>2. t[i] # <<>> /\ t[0] = <<>> /\ \A j \in Parts(r) : t[j] = <<>>
  BY <1>1, ReadyFacts
<1>3. s = Ending(r.from, r.stop) /\ r.from \in Protocols
  BY ScriptIs, ExchangeFacts
<1> HIDE DEF n, s
<1>4. Len(s) = 1 /\ EndsResponse(s[1])
  BY <1>3, EndingIs DEF EndsResponse
<1>5. /\ n \in 0..(Len(s) - 1) /\ e = s[n + 1]
      /\ u[i] = <<>> <=> n + 1 = Len(s)
      /\ \A j \in Stages(r) : j # i => u[j] = t[j]
  <2>1. n = Sent(r, t, i) /\ s = Script(r)[i]
    BY DEF n, s
  <2>2. QED
    BY <2>1, MoveIs
<1>6. u[0] = <<>> /\ u[i] = <<>> /\ EndsResponse(e)
  BY <1>1, <1>2, <1>4, <1>5
<1>7. Begun(r, u) = Begun(r, t) /\ UnderWay(r, u) = UnderWay(r, t)
  BY <1>1, NoPartMoves
<1>8. UnderWay(r, t) = {}
  BY <1>2 DEF UnderWay, Begun
<1>9. IsDecoder(d) /\ d.started = TRUE /\ d.done = FALSE /\ d.open = {}
  BY <1>2, <1>8 DEF ResponsesInv, Follows, IsDecoder, Places
<1>10. Keeps(d, res.d, d.started, d.open, TRUE)
  BY <1>6, <1>9, ResponsesDone
<1>11. PICK stop, usage : res.events = <<Done(stop, usage)>>
  BY <1>6, <1>9, ResponsesDone
<1>12. /\ IsDecoder(res.d) /\ res.d.started = TRUE /\ res.d.open = {}
       /\ res.d.done = TRUE /\ res.d.blocks = d.blocks /\ res.d.open = d.open
  BY <1>9, <1>10 DEF Keeps
<1>13. Follows(r, u, res.d)
  BY <1>6, <1>12 DEF Follows
<1>14. ResponsesInv(r, u, res.d)
  BY <1>7, <1>12, <1>13, ResponsesKept
<1>15. Runs(r.to, c, w, <<>>, TRUE, KeyTypes(d.blocks), {}, FALSE)
  BY <1>9, RunNone
<1>16. Runs(r.to, c, w, Append(<<>>, Done(stop, usage)), TRUE,
            KeyTypes(d.blocks), {}, TRUE)
  BY <1>1, <1>15, RunDone
<1>17. res.events = Append(<<>>, Done(stop, usage))
  BY <1>11, AppendOne
<1>18. QED
  BY <1>12, <1>14, <1>16, <1>17

\* Reasoning is not read.
LEMMA ResponsesSilent ==
  ASSUME NEW r \in Announcing, r.from = "responses",
         NEW t, LeftInv(r, t), NEW d, ResponsesInv(r, t, d), NEW c, NEW w,
         Emitted(r.to, c, w, d.started, KeyTypes(d.blocks), d.open, d.done),
         NEW i \in Parts(r), r.message[i] = "reasoning", ReadyIn(r, t, i),
         NEW u, Moves(r, t, i, u), NEW e, e = Head(t[i]),
         NEW res, res = DecodeResponses(d, e)
  PROVE  /\ ResponsesInv(r, u, res.d)
         /\ Runs(r.to, c, w, res.events, res.d.started, KeyTypes(res.d.blocks),
                 res.d.open, res.d.done)
<1> DEFINE f == FinalStage(r)
           n == Sent(r, t, i)
           s == Script(r)[i]
           k == r.message[i]
           size == Length(r, k)
<1>1. /\ i \in Stages(r) /\ f \in Stages(r) /\ 0 \in Stages(r) /\ i # 0 /\ i # f
  BY ScriptIs
<1>2. t[f] # <<>> /\ t[i] # <<>> /\ t[0] = <<>>
  BY <1>1, ReadyFacts DEF ReadyIn
<1>3. /\ s = PartScript("responses", k, i, size) /\ size \in Nat
      /\ k \in ContentTypes
  BY ScriptIs, LengthIs DEF ContentTypes
<1>4. Begun(r, u) = Begun(r, t) /\ UnderWay(r, u) = UnderWay(r, t)
  <2>1. ~Shown(r, i)
    BY DEF Shown
  <2>2. QED
    BY <1>1, <2>1, NoPartMoves
<1> HIDE DEF n, s, f, size
<1>5. /\ Len(s) \in Nat /\ Len(s) >= 2
      /\ s[1] = Wire("output_item.added", i, k, i, <<>>)
      /\ s[Len(s)] = Wire("output_item.done", i, k, i, <<>>)
      /\ \A m \in 2..(Len(s) - 1) : \E text :
           s[m] = Wire("reasoning_summary_text.delta", i, k, -1, text)
  <2>1. k # "text" /\ DeltaType[k] = "reasoning_summary_text.delta"
    BY DEF DeltaType
  <2> HIDE DEF k
  <2>2. QED
    BY <1>3, <2>1, ResponsesPart
<1>6. /\ n \in 0..(Len(s) - 1) /\ e = s[n + 1]
      /\ u[i] = <<>> <=> n + 1 = Len(s)
      /\ \A j \in Stages(r) : j # i => u[j] = t[j]
  <2>1. n = Sent(r, t, i) /\ s = Script(r)[i]
    BY DEF n, s
  <2>2. QED
    BY <2>1, MoveIs
<1>7. u[0] = <<>> /\ u[f] # <<>>
  BY <1>1, <1>2, <1>6
<1>8. IsDecoder(d) /\ d.started = TRUE /\ d.done = FALSE
  BY <1>2 DEF ResponsesInv, Follows, IsDecoder, f
<1>9. \/ e.type = "output_item.added" /\ e.kind = "reasoning"
      \/ e.type = "reasoning_summary_text.delta"
      \/ e.type = "output_item.done" /\ e.kind = "reasoning"
  <2>1. n + 1 = 1 \/ n + 1 = Len(s) \/ n + 1 \in 2..(Len(s) - 1)
    BY <1>5, <1>6
  <2>2. CASE n + 1 = 1
    BY <1>5, <1>6, <2>2, WireFields
  <2>3. CASE n + 1 = Len(s)
    BY <1>5, <1>6, <2>3, WireFields
  <2>4. CASE n + 1 \in 2..(Len(s) - 1)
    BY <1>5, <1>6, <2>4, WireFields
  <2>5. QED
    BY <2>1, <2>2, <2>3, <2>4
<1>10. Keeps(d, res.d, d.started, d.open, d.done) /\ res.events = <<>>
  BY <1>8, <1>9, ResponsesNothing
<1>11. /\ IsDecoder(res.d) /\ res.d.started = TRUE /\ res.d.open = d.open
       /\ res.d.done = FALSE /\ res.d.blocks = d.blocks
  BY <1>8, <1>10 DEF Keeps
<1>12. Follows(r, u, res.d)
  BY <1>7, <1>11 DEF Follows, f
<1>13. ResponsesInv(r, u, res.d)
  BY <1>4, <1>11, <1>12, ResponsesKept
<1>14. Runs(r.to, c, w, <<>>, TRUE, KeyTypes(d.blocks), d.open, FALSE)
  BY <1>8, RunNone
<1>15. QED
  BY <1>10, <1>11, <1>13, <1>14

\* The keys of the parts that are read.
LEMMA ItemKeys ==
  ASSUME NEW r, NEW i
  PROVE  /\ r.message[i] \in {"text", "tool_call"} =>
              KindOf(ItemKey(r, i)) = r.message[i]
         /\ \A j : ItemKey(r, i) = ItemKey(r, j) => i = j
         /\ \A e : e.kind = r.message[i] /\ e.index = i =>
              EventKey(e) = ItemKey(r, i)
<1>1. r.message[i] \in {"text", "tool_call"} =>
        KindOf(ItemKey(r, i)) = r.message[i]
  BY DEF KindOf, ItemKey
<1>2. \A j : ItemKey(r, i) = ItemKey(r, j) => i = j
  BY DEF ItemKey
<1>3. \A e : e.kind = r.message[i] /\ e.index = i => EventKey(e) = ItemKey(r, i)
  BY DEF EventKey, ItemKey
<1>4. QED
  BY <1>1, <1>2, <1>3

\* The indexes of the parts that are under way, when one of them has ended, and
\* when one has begun.
LEMMA ItemEnds ==
  ASSUME NEW r, NEW U, NEW blocks, Indexed(blocks), NEW i,
         \A j \in U \cup {i} : HasKey(blocks, ItemKey(r, j))
  PROVE  Places(r, U \ {i}, blocks)
           = Places(r, U, blocks) \ {Pos(blocks, ItemKey(r, i))}
<1>1. \A j \in U \ {i} : Pos(blocks, ItemKey(r, j)) # Pos(blocks, ItemKey(r, i))
  <2>1. SUFFICES ASSUME NEW j \in U \ {i}
                 PROVE  Pos(blocks, ItemKey(r, j)) # Pos(blocks, ItemKey(r, i))
    OBVIOUS
  <2>2. ItemKey(r, j) # ItemKey(r, i)
    BY ItemKeys
  <2>3. HasKey(blocks, ItemKey(r, j)) /\ HasKey(blocks, ItemKey(r, i))
    OBVIOUS
  <2>4. QED
    BY <2>2, <2>3, PosDiffers
<1>2. QED
  BY <1>1 DEF Places

Keyed(r, parts, blocks) == \A j \in parts : HasKey(blocks, ItemKey(r, j))

\* The next index goes to an item that had none.
LEMMA ItemBegins ==
  ASSUME NEW r, NEW U, NEW blocks, Indexed(blocks), NEW i,
         Keyed(r, U, blocks),
         ~HasKey(blocks, ItemKey(r, i)),
         NEW more, more = Append(blocks, ItemKey(r, i))
  PROVE  /\ Indexed(more)
         /\ \A j : HasKey(more, ItemKey(r, j)) <=>
                     HasKey(blocks, ItemKey(r, j)) \/ j = i
         /\ Places(r, U \cup {i}, more)
              = Places(r, U, blocks) \cup {Len(blocks)}
         /\ Len(blocks) \notin DOMAIN KeyTypes(blocks)
         /\ KeyTypes(more)
              = Put(KeyTypes(blocks), Len(blocks), KindOf(ItemKey(r, i)))
<1> DEFINE key == ItemKey(r, i)
<1> HIDE DEF key
<1>1. ~HasKey(blocks, key) /\ more = Append(blocks, key)
  BY DEF key
<1>2. /\ Indexed(more)
      /\ \A x : HasKey(more, x) <=> HasKey(blocks, x) \/ x = key
      /\ Pos(more, key) = Len(blocks)
      /\ \A x : HasKey(blocks, x) => Pos(more, x) = Pos(blocks, x)
      /\ Len(blocks) \notin DOMAIN KeyTypes(blocks)
      /\ KeyTypes(more) = Put(KeyTypes(blocks), Len(blocks), KindOf(key))
  BY <1>1, KeyAppended
<1>3. \A j : HasKey(more, ItemKey(r, j)) <=>
               HasKey(blocks, ItemKey(r, j)) \/ j = i
  BY <1>2, ItemKeys DEF key
<1>4. \A j \in U : Pos(more, ItemKey(r, j)) = Pos(blocks, ItemKey(r, j))
  BY <1>2 DEF Keyed
<1>5. Places(r, U \cup {i}, more) = Places(r, U, blocks) \cup {Len(blocks)}
  BY <1>2, <1>4 DEF key, Places
<1>6. QED
  BY <1>2, <1>3, <1>5 DEF key

\* A text or a tool call begins, goes on and ends.
LEMMA ResponsesMoves ==
  ASSUME NEW r \in Announcing, r.from = "responses",
         NEW t, LeftInv(r, t), NEW d,
         ResponsesInv(r, t, d), NEW c, NEW w,
         Emitted(r.to, c, w, d.started, KeyTypes(d.blocks), d.open, d.done),
         NEW i \in Parts(r), r.message[i] # "reasoning", ReadyIn(r, t, i),
         NEW u, Moves(r, t, i, u), NEW e, e = Head(t[i]),
         NEW res, res = DecodeResponses(d, e)
  PROVE  /\ ResponsesInv(r, u, res.d)
         /\ Runs(r.to, c, w, res.events, res.d.started, KeyTypes(res.d.blocks),
                 res.d.open, res.d.done)
<1> DEFINE f == FinalStage(r)
           n == Sent(r, t, i)
           s == Script(r)[i]
           k == r.message[i]
           size == Length(r, k)
           key == ItemKey(r, i)
           pos == Pos(d.blocks, key)
           Ongoing(b, v) == Places(r, UnderWay(r, v), b.blocks)
           Has(b, v) == \A j \in Parts(r) : Shown(r, j) =>
             (HasKey(b.blocks, ItemKey(r, j)) <=> j \in Begun(r, v))
<1>1. /\ r.to \in Protocols /\ i \in Stages(r) /\ f \in Stages(r)
      /\ 0 \in Stages(r) /\ i # 0 /\ i # f
  BY ExchangeFacts, ScriptIs
<1>2. t[f] # <<>> /\ t[i] # <<>> /\ t[0] = <<>>
  BY <1>1, ReadyFacts DEF ReadyIn
<1>3. k \in {"text", "tool_call"} /\ k \in ContentTypes
  BY ExchangeFacts DEF ContentTypes
<1>4. s = PartScript("responses", k, i, size) /\ size \in Nat
  BY ScriptIs, LengthIs
<1>5. i # -1 /\ Shown(r, i)
  BY DEF Parts, Shown
<1>6. /\ i \in Begun(r, t) <=> n > 0
      /\ i \in UnderWay(r, t) <=> n > 0
      /\ Begun(r, u) = Begun(r, t) \cup {i}
      /\ UnderWay(r, u) = IF n + 1 = Len(s) THEN UnderWay(r, t) \ {i}
                          ELSE UnderWay(r, t) \cup {i}
  BY <1>5, PartMoves
<1>7. /\ IsDecoder(d) /\ d.started = TRUE /\ d.done = FALSE
      /\ Indexed(d.blocks) /\ Has(d, t) /\ d.open = Ongoing(d, t)
  BY <1>2 DEF ResponsesInv, Follows, IsDecoder
<1>8. /\ KindOf(key) = k
      /\ \A x : x.kind = k /\ x.index = i => EventKey(x) = key
  BY <1>3, ItemKeys
<1>9. /\ UnderWay(r, t) \subseteq Begun(r, t) /\ Begun(r, t) \subseteq Parts(r)
      /\ \A j \in Begun(r, t) : Shown(r, j)
  BY DEF UnderWay, Begun
<1>10. HasKey(d.blocks, key) <=> n > 0
  BY <1>5, <1>6, <1>7
<1>11. \A j \in UnderWay(r, t) : HasKey(d.blocks, ItemKey(r, j))
  BY <1>7, <1>9
<1>12. ASSUME NEW b, IsDecoder(b), b.started = TRUE, b.done = FALSE,
              Indexed(b.blocks), Has(b, u), b.open = Ongoing(b, u)
       PROVE  ResponsesInv(r, u, b)
  <2>1. u[0] = <<>> /\ u[f] # <<>>
    BY <1>1, <1>2 DEF Moves
  <2>2. Follows(r, u, b)
    BY <1>12, <2>1 DEF Follows
  <2>3. QED
    BY <1>12, <2>2 DEF ResponsesInv
<1> HIDE DEF n, s, f, k, key, pos, size
<1>13. /\ Len(s) \in Nat /\ Len(s) >= 2
       /\ s[1] = Wire(IF k = "text" THEN "content_part.added"
                      ELSE "output_item.added", i, k, i, <<>>)
       /\ s[Len(s)] = Wire(IF k = "text" THEN "content_part.done"
                           ELSE "output_item.done", i, k, i, <<>>)
       /\ \A m \in 2..(Len(s) - 1) : \E text :
            s[m] = Wire(DeltaType[k], i, k, -1, text)
  BY <1>3, <1>4, ResponsesPart
<1>14. n \in 0..(Len(s) - 1) /\ e = s[n + 1]
  <2>1. n = Sent(r, t, i) /\ s = Script(r)[i]
    BY DEF n, s
  <2>2. QED
    BY <2>1, MoveIs
<1>15. Runs(r.to, c, w, <<>>, TRUE, KeyTypes(d.blocks), d.open, FALSE)
  BY <1>7, RunNone
<1> HIDE DEF Has, Ongoing
<1>16. CASE n + 1 = 1
  <2> DEFINE new == Len(d.blocks)
             more == Append(d.blocks, key)
  <2>1. new = Len(d.blocks)
    OBVIOUS
  <2> HIDE DEF new, more
  <2>2. /\ e.kind = k /\ e.index = i /\ e.id = i
        /\ e.type = IF k = "text" THEN "content_part.added"
                    ELSE "output_item.added"
    BY <1>13, <1>14, <1>16, WireFields
  <2>3. \/ e.type = "output_item.added" /\ e.kind = "tool_call"
        \/ e.type = "content_part.added" /\ e.kind = "text"
    BY <1>3, <2>2
  <2>4. EventKey(e) = key
    BY <1>8, <2>2
  <2>5. ~HasKey(d.blocks, key)
    BY <1>10, <1>16, <1>14
  <2>6. ~HasKey(d.blocks, EventKey(e))
    BY <2>4, <2>5
  <2>7. /\ IsDecoder(res.d) /\ res.d.started = d.started
        /\ res.d.done = d.done /\ res.d.open = d.open \cup {new}
        /\ res.d.blocks = Append(d.blocks, EventKey(e))
        /\ res.events = <<ContentStart(new, e.kind, e.id)>>
    BY <1>7, <2>1, <2>3, <2>6, ResponsesBegin
  <2>8. /\ IsDecoder(res.d) /\ res.d.started = TRUE
        /\ res.d.done = FALSE /\ res.d.open = d.open \cup {new}
        /\ res.d.blocks = more
    BY <1>7, <2>4, <2>7 DEF more
  <2>9. /\ more = Append(d.blocks, ItemKey(r, i))
        /\ ~HasKey(d.blocks, ItemKey(r, i))
    BY <2>5 DEF key, more
  <2>10. /\ Indexed(more)
         /\ \A j : HasKey(more, ItemKey(r, j)) <=>
                      HasKey(d.blocks, ItemKey(r, j)) \/ j = i
         /\ Places(r, UnderWay(r, t) \cup {i}, more)
              = Places(r, UnderWay(r, t), d.blocks) \cup {new}
         /\ new \notin DOMAIN KeyTypes(d.blocks)
         /\ KeyTypes(more) = Put(KeyTypes(d.blocks), new, KindOf(key))
    <3> DEFINE U == UnderWay(r, t)
               B == d.blocks
    <3>1. /\ Indexed(B) /\ ~HasKey(B, ItemKey(r, i))
          /\ more = Append(B, ItemKey(r, i))
      BY <1>7, <2>9
    <3>2. Keyed(r, U, B)
      BY <1>11 DEF Keyed
    <3> HIDE DEF U, B
    <3>3. /\ Indexed(more)
          /\ \A j : HasKey(more, ItemKey(r, j)) <=>
                       HasKey(B, ItemKey(r, j)) \/ j = i
          /\ Places(r, U \cup {i}, more) = Places(r, U, B) \cup {Len(B)}
          /\ Len(B) \notin DOMAIN KeyTypes(B)
          /\ KeyTypes(more) = Put(KeyTypes(B), Len(B), KindOf(ItemKey(r, i)))
      BY <3>1, <3>2, ItemBegins
    <3>4. QED
      BY <3>3 DEF key, new, U, B
  <2>11. n + 1 # Len(s)
    BY <1>13, <1>16
  <2>12. res.d.open = Ongoing(res.d, u)
    BY <1>6, <1>7, <2>8, <2>10, <2>11 DEF Ongoing
  <2>13. Has(res.d, u)
    BY <1>6, <1>7, <2>8, <2>10 DEF Has
  <2>14. ResponsesInv(r, u, res.d)
    BY <1>12, <2>8, <2>10, <2>12, <2>13
  <2>15. KeyTypes(more) = Put(KeyTypes(d.blocks), new, k)
    BY <1>8, <2>10
  <2>16. Runs(r.to, c, w, Append(<<>>, ContentStart(new, k, i)), TRUE,
              KeyTypes(more), d.open \cup {new}, FALSE)
    BY <1>1, <1>3, <1>5, <1>15, <2>10, <2>15, RunContentStart
  <2>17. res.events = Append(<<>>, ContentStart(new, k, i))
    BY <2>2, <2>7, AppendOne
  <2>18. QED
    BY <2>8, <2>14, <2>16, <2>17
<1>17. ASSUME n > 0
       PROVE  /\ HasKey(d.blocks, key) /\ pos \in d.open
              /\ KeyTypes(d.blocks)[pos] = k /\ Begun(r, u) = Begun(r, t)
              /\ i \in UnderWay(r, t)
  <2>1. i \in UnderWay(r, t) /\ HasKey(d.blocks, key)
    BY <1>6, <1>10, <1>17
  <2>2. pos \in d.open
    BY <1>7, <2>1 DEF Ongoing, Places, pos, key
  <2>3. pos \in 0..(Len(d.blocks) - 1) /\ d.blocks[pos + 1] = key
    BY <1>7, <2>1, PosIs DEF pos
  <2>4. KeyTypes(d.blocks)[pos] = KindOf(key)
    BY <2>3 DEF KeyTypes
  <2>5. Begun(r, u) = Begun(r, t)
    BY <1>6, <1>17
  <2>6. QED
    BY <1>8, <2>1, <2>2, <2>4, <2>5
<1>18. CASE n + 1 = Len(s)
  <2>1. n > 0
    BY <1>13, <1>14, <1>18
  <2>2. /\ e.kind = k /\ e.index = i
        /\ e.type = IF k = "text" THEN "content_part.done"
                    ELSE "output_item.done"
    BY <1>13, <1>14, <1>18, WireFields
  <2>3. \/ e.type = "output_item.done" /\ e.kind = "tool_call"
        \/ e.type = "content_part.done" /\ e.kind = "text"
    BY <1>3, <2>2
  <2>4. EventKey(e) = key
    BY <1>8, <2>2
  <2>5. HasKey(d.blocks, EventKey(e)) /\ pos = Pos(d.blocks, EventKey(e))
        /\ pos \in d.open
    BY <1>17, <2>1, <2>4 DEF pos
  <2>6. /\ Keeps(d, res.d, d.started, d.open \ {pos}, d.done)
        /\ res.events = <<ContentStop(pos)>>
    BY <1>7, <2>3, <2>5, ResponsesStop
  <2>7. /\ IsDecoder(res.d) /\ res.d.started = TRUE
        /\ res.d.done = FALSE /\ res.d.open = d.open \ {pos}
        /\ res.d.blocks = d.blocks
    BY <1>7, <2>6 DEF Keeps
  <2>8. Places(r, UnderWay(r, t) \ {i}, d.blocks)
          = Places(r, UnderWay(r, t), d.blocks) \ {pos}
    <3>1. \A j \in UnderWay(r, t) \cup {i} : HasKey(d.blocks, ItemKey(r, j))
      BY <1>11, <1>17, <2>1
    <3>2. QED
      BY <1>7, <3>1, ItemEnds DEF pos, key
  <2>9. res.d.open = Ongoing(res.d, u)
    BY <1>6, <1>7, <1>18, <2>7, <2>8 DEF Ongoing
  <2>10. Has(res.d, u)
    BY <1>7, <1>17, <2>1, <2>7 DEF Has
  <2>11. ResponsesInv(r, u, res.d)
    BY <1>7, <1>12, <2>7, <2>9, <2>10
  <2>12. Runs(r.to, c, w, Append(<<>>, ContentStop(pos)), TRUE,
              KeyTypes(d.blocks), d.open \ {pos}, FALSE)
    BY <1>1, <1>15, <2>5, RunStop
  <2>13. res.events = Append(<<>>, ContentStop(pos))
    BY <2>6, AppendOne
  <2>14. QED
    BY <2>7, <2>11, <2>12, <2>13
<1>19. CASE n + 1 \in 2..(Len(s) - 1)
  <2>1. n > 0 /\ n + 1 # Len(s)
    BY <1>13, <1>14, <1>19
  <2>2. PICK text : e = Wire(DeltaType[k], i, k, -1, text)
    BY <1>13, <1>14, <1>19
  <2>3. e.type = DeltaType[k] /\ e.kind = k /\ e.index = i /\ e.text = text
    BY <2>2, WireFields
  <2>4. \/ e.type = "function_call_arguments.delta" /\ e.kind = "tool_call"
        \/ e.type = "output_text.delta" /\ e.kind = "text"
    BY <1>3, <2>3 DEF DeltaType
  <2>5. EventKey(e) = key
    BY <1>8, <2>3
  <2>6. HasKey(d.blocks, EventKey(e)) /\ pos = Pos(d.blocks, EventKey(e))
        /\ pos \in d.open
    BY <1>17, <2>1, <2>5 DEF pos
  <2>7. /\ Keeps(d, res.d, d.started, d.open, d.done)
        /\ res.events = <<ContentDelta(pos, e.kind, e.text)>>
    BY <1>7, <2>4, <2>6, ResponsesDelta
  <2>8. /\ IsDecoder(res.d) /\ res.d.started = TRUE
        /\ res.d.done = FALSE /\ res.d.open = d.open
        /\ res.d.blocks = d.blocks
    BY <1>7, <2>7 DEF Keeps
  <2>9. UnderWay(r, u) = UnderWay(r, t) /\ Begun(r, u) = Begun(r, t)
    BY <1>6, <1>17, <2>1
  <2>10. res.d.open = Ongoing(res.d, u) /\ Has(res.d, u)
    BY <1>7, <2>8, <2>9 DEF Ongoing, Has
  <2>11. ResponsesInv(r, u, res.d)
    BY <1>7, <1>12, <2>8, <2>10
  <2>12. Runs(r.to, c, w, Append(<<>>, ContentDelta(pos, k, text)), TRUE,
              KeyTypes(d.blocks), d.open, FALSE)
    BY <1>1, <1>15, <1>17, <2>1, RunDelta
  <2>13. res.events = Append(<<>>, ContentDelta(pos, k, text))
    BY <2>3, <2>7, AppendOne
  <2>14. QED
    BY <2>8, <2>11, <2>12, <2>13
<1>20. n + 1 = 1 \/ n + 1 = Len(s) \/ n + 1 \in 2..(Len(s) - 1)
  BY <1>13, <1>14
<1>21. QED
  BY <1>16, <1>18, <1>19, <1>20

-----------------------------------------------------------------------------
(* The decoder of chat streams.                                            *)

\* The blocks that are open are all but that of the text, which the decoder
\* remembers apart; none of them has ended before the message does.
OpenChat(blocks) == {i \in DOMAIN KeyTypes(blocks) : blocks[i + 1] # TextKey}
LiveChat(d) == IF d.done THEN {} ELSE DOMAIN KeyTypes(d.blocks)
CallKey(i) == <<"tool_call", i>>

ChatInv(r, t, d) ==
  /\ Follows(r, t, d) /\ Indexed(d.blocks)
  /\ d.started \/ d.blocks = <<>>
  /\ d.open = IF d.done THEN {} ELSE OpenChat(d.blocks)
  /\ \A i \in Parts(r) : r.message[i] = "tool_call" /\ Sent(r, t, i) > 0 =>
       HasKey(d.blocks, CallKey(i))

\* The indexes of the blocks.
LEMMA Indexes ==
  ASSUME NEW blocks, Indexed(blocks)
  PROVE  /\ DOMAIN KeyTypes(blocks) = 0..(Len(blocks) - 1)
         /\ IsFiniteSet(DOMAIN KeyTypes(blocks))
         /\ IsFiniteSet(OpenChat(blocks))
         /\ blocks = <<>> => DOMAIN KeyTypes(blocks) = {}
<1>1. Len(blocks) \in Nat
  BY PosIs
<1>2. DOMAIN KeyTypes(blocks) = 0..(Len(blocks) - 1)
  BY DEF KeyTypes
<1>3. IsFiniteSet(DOMAIN KeyTypes(blocks))
  <2> DEFINE n == Len(blocks) - 1
  <2>1. n \in Int /\ 0 \in Int
    BY <1>1
  <2>2. DOMAIN KeyTypes(blocks) = 0..n
    BY <1>2
  <2> HIDE DEF n
  <2>3. IsFiniteSet(0..n)
    BY <2>1, FS_Interval
  <2>4. QED
    BY <2>2, <2>3
<1>4. OpenChat(blocks) \subseteq DOMAIN KeyTypes(blocks)
  BY DEF OpenChat
<1>5. IsFiniteSet(OpenChat(blocks))
  BY <1>3, <1>4, FS_Subset
<1>6. blocks = <<>> => DOMAIN KeyTypes(blocks) = {}
  <2>1. SUFFICES ASSUME blocks = <<>> PROVE 0..(Len(blocks) - 1) = {}
    BY <1>2
  <2>2. Len(blocks) = 0
    BY <2>1
  <2>3. QED
    BY <2>2
<1>7. QED
  BY <1>2, <1>3, <1>5, <1>6

\* All the blocks are open but that of the text.
LEMMA OpenChatIs ==
  ASSUME NEW blocks, Indexed(blocks)
  PROVE  /\ HasKey(blocks, TextKey) =>
              /\ Pos(blocks, TextKey) \in DOMAIN KeyTypes(blocks)
              /\ OpenChat(blocks)
                   = DOMAIN KeyTypes(blocks) \ {Pos(blocks, TextKey)}
         /\ ~HasKey(blocks, TextKey) =>
              OpenChat(blocks) = DOMAIN KeyTypes(blocks)
<1> DEFINE D == DOMAIN KeyTypes(blocks)
           p == Pos(blocks, TextKey)
<1>1. D = 0..(Len(blocks) - 1) /\ Len(blocks) \in Nat
  BY Indexes, PosIs
<1>2. \A k \in 1..Len(blocks) : blocks[k] = TextKey => p = k - 1
  BY PosIs
<1>3. HasKey(blocks, TextKey) =>
        p \in 0..(Len(blocks) - 1) /\ blocks[p + 1] = TextKey
  BY PosIs
<1> HIDE DEF D, p
<1>4. ASSUME NEW i \in D PROVE i + 1 \in 1..Len(blocks) /\ (i + 1) - 1 = i
  BY <1>1
<1>5. \A i \in D : blocks[i + 1] = TextKey => i = p
  BY <1>2, <1>4
<1>6. OpenChat(blocks) = {i \in D : blocks[i + 1] # TextKey}
  BY DEF OpenChat, D
<1>7. ASSUME ~HasKey(blocks, TextKey), NEW i \in D PROVE blocks[i + 1] # TextKey
  BY <1>4, <1>7 DEF HasKey
<1>8. HasKey(blocks, TextKey) => p \in D /\ OpenChat(blocks) = D \ {p}
  BY <1>1, <1>3, <1>5, <1>6
<1>9. ~HasKey(blocks, TextKey) => OpenChat(blocks) = D
  BY <1>6, <1>7
<1>10. QED
  BY <1>8, <1>9 DEF D, p

\* What the first chunk is decoded to.
LEMMA ChatStart ==
  ASSUME NEW d, IsDecoder(d), d.started = FALSE, NEW e, e.type = "chunk",
         e.kind = "role", NEW res \in DecodeChat(d, e)
  PROVE  /\ Keeps(d, res.d, TRUE, d.open, d.done)
         /\ res.events = <<Start(NoUsage)>>
<1> DEFINE b == [d EXCEPT !.started = TRUE]
           s == <<Start(NoUsage)>>
<1>1. ChatChunk(b, e) = Result(b, <<>>)
  BY DEF ChatChunk
<1>2. res = Result(ChatChunk(b, e).d, s \o ChatChunk(b, e).events)
  <2>1. d.started = FALSE /\ e.type # "[DONE]"
    OBVIOUS
  <2>2. QED
    BY <2>1 DEF DecodeChat
<1>3. b = [d EXCEPT !.started = TRUE]
  OBVIOUS
<1> HIDE DEF b, s
<1>4. /\ IsDecoder(b) /\ b.started = TRUE /\ b.open = d.open
      /\ b.done = d.done /\ b.blocks = d.blocks
  BY <1>3 DEF IsDecoder
<1>5. s \o <<>> = s
  <2>1. IsSeq(s)
    BY ShortSeqs DEF s
  <2>2. QED
    BY <2>1, Writing
<1>6. res.d = b /\ res.events = s
  BY <1>1, <1>2, <1>5 DEF Result
<1>7. QED
  BY <1>4, <1>6 DEF s, Keeps

\* The others are decoded as they are.
LEMMA ChatNext ==
  ASSUME NEW d, IsDecoder(d), d.started = TRUE, NEW e, e.type = "chunk",
         IsSeq(ChatChunk(d, e).events), NEW res \in DecodeChat(d, e)
  PROVE  /\ res.d = ChatChunk(d, e).d
         /\ res.events = ChatChunk(d, e).events
<1> DEFINE x == ChatChunk(d, e)
           b == [d EXCEPT !.started = TRUE]
<1>1. b = d
  BY DEF IsDecoder
<1>2. res = Result(ChatChunk(b, e).d, <<>> \o ChatChunk(b, e).events)
  BY DEF DecodeChat
<1> HIDE DEF b
<1>3. <<>> \o x.events = x.events
  <2>1. PICK S : x.events \in Seq(S)
    BY DEF IsSeq
  <2>2. QED
    BY <2>1
<1>4. QED
  BY <1>1, <1>2, <1>3 DEF Result

\* The stop reason and the usage are kept for the end.
LEMMA ChatNothing ==
  ASSUME NEW d, IsDecoder(d), d.started = TRUE, NEW e, e.type = "chunk",
         e.kind = "finish" \/ e.kind = "usage", NEW res \in DecodeChat(d, e)
  PROVE  Keeps(d, res.d, d.started, d.open, d.done) /\ res.events = <<>>
<1> DEFINE x == ChatChunk(d, e)
<1>1. CASE e.kind = "finish"
  <2>1. x = Result([d EXCEPT !.stop = e.stop], <<>>)
    BY <1>1 DEF ChatChunk
  <2>2. x.d = [d EXCEPT !.stop = e.stop] /\ x.events = <<>>
    BY <2>1 DEF Result
  <2> HIDE DEF x
  <2>3. IsSeq(x.events)
    BY <2>2, ShortSeqs
  <2>4. IsSeq(ChatChunk(d, e).events)
    BY <2>3 DEF x
  <2>5. res.d = x.d /\ res.events = x.events
    BY <2>4, ChatNext DEF x
  <2>6. QED
    BY <2>2, <2>5 DEF IsDecoder, Keeps
<1>2. CASE e.kind = "usage"
  <2>1. x = Result([d EXCEPT !.usage = e.usage], <<>>)
    BY <1>2 DEF ChatChunk
  <2>2. x.d = [d EXCEPT !.usage = e.usage] /\ x.events = <<>>
    BY <2>1 DEF Result
  <2> HIDE DEF x
  <2>3. IsSeq(x.events)
    BY <2>2, ShortSeqs
  <2>4. IsSeq(ChatChunk(d, e).events)
    BY <2>3 DEF x
  <2>5. res.d = x.d /\ res.events = x.events
    BY <2>4, ChatNext DEF x
  <2>6. QED
    BY <2>2, <2>5 DEF IsDecoder, Keeps
<1>3. QED
  BY <1>1, <1>2

\* The chunk of a part: its block is opened when it is the first of its key.
DeltaSeq(i, kind, text) ==
  IF text = <<>> THEN <<>> ELSE <<ContentDelta(i, kind, text)>>
BeginSeq(i, kind, id, text) ==
  <<ContentStart(i, kind, id)>> \o DeltaSeq(i, kind, text)

\* The decoder keeps a set of the blocks it has opened, but for the text's.
NowOpen(d, i, kind) == IF kind = "text" THEN d.open ELSE d.open \cup {i}

\* More of a block that has been opened.
LEMMA ChatGoesOn ==
  ASSUME NEW d, IsDecoder(d), d.started = TRUE, Indexed(d.blocks), NEW e,
         e.type = "chunk", e.kind \in ContentTypes,
         HasKey(d.blocks, ChatKey(e)), NEW res \in DecodeChat(d, e),
         NEW i, i = Pos(d.blocks, ChatKey(e))
  PROVE  /\ Keeps(d, res.d, d.started, d.open, d.done)
         /\ res.events = DeltaSeq(i, e.kind, e.text)
<1> DEFINE key == ChatKey(e)
           x == ChatDelta(d, e)
           s == DeltaSeq(i, e.kind, e.text)
<1>1. IndexOf(d, key) = i /\ i < Len(d.blocks)
  <2>1. i \in 0..(Len(d.blocks) - 1) /\ Len(d.blocks) \in Nat
    BY PosIs
  <2>2. IndexOf(d, key) = i
    BY PosIs
  <2>3. QED
    BY <2>1, <2>2
<1>2. Allocate(d, key) = d
  BY <1>1 DEF Allocate
<1>3. IsSeq(s)
  BY ShortSeqs DEF DeltaSeq
<1>4. <<>> \o s = s
  <2> HIDE DEF s
  <2>1. PICK S : s \in Seq(S)
    BY <1>3 DEF IsSeq
  <2>2. QED
    BY <2>1
<1>5. x = Result([Allocate(d, key) EXCEPT !.open = @], <<>> \o s)
  BY <1>1 DEF ChatDelta, DeltaSeq
<1>6. [d EXCEPT !.open = @] = d
  BY DEF IsDecoder
<1> HIDE DEF s, key
<1>7. x = Result(d, s)
  BY <1>2, <1>4, <1>5, <1>6
<1>8. x = ChatChunk(d, e)
  BY DEF ChatChunk, ContentTypes
<1> HIDE DEF x
<1>9. x.d = d /\ x.events = s
  BY <1>7 DEF Result
<1>10. IsSeq(x.events)
  BY <1>3, <1>9
<1>11. res.d = x.d /\ res.events = x.events
  <2>1. IsSeq(ChatChunk(d, e).events)
    BY <1>8, <1>10
  <2>2. QED
    BY <1>8, <2>1, ChatNext
<1>12. Keeps(d, d, d.started, d.open, d.done)
  BY DEF Keeps
<1>13. QED
  BY <1>9, <1>11, <1>12 DEF s

\* The first of a block opens it, with the next index.
LEMMA ChatBegins ==
  ASSUME NEW d, IsDecoder(d), d.started = TRUE, Indexed(d.blocks), NEW e,
         e.type = "chunk", e.kind \in ContentTypes,
         ~HasKey(d.blocks, ChatKey(e)), NEW res \in DecodeChat(d, e),
         NEW i, i = Len(d.blocks)
  PROVE  /\ IsDecoder(res.d) /\ res.d.started = d.started
         /\ res.d.done = d.done
         /\ res.d.open = NowOpen(d, i, e.kind)
         /\ res.d.blocks = Append(d.blocks, ChatKey(e))
         /\ res.events = BeginSeq(i, e.kind, e.id, e.text)
<1> DEFINE key == ChatKey(e)
           x == ChatDelta(d, e)
           a == <<ContentStart(i, e.kind, e.id)>>
           s == DeltaSeq(i, e.kind, e.text)
<1>1. IndexOf(d, key) = i /\ i \in Nat /\ ~(i < i)
  BY PosIs
<1>2. Allocate(d, key) = [d EXCEPT !.blocks = Append(@, key)]
  BY <1>1 DEF Allocate
<1>3. IsSeq(a \o s)
  <2>1. IsSeq(a)
    BY ShortSeqs
  <2>2. IsSeq(s)
    BY ShortSeqs DEF DeltaSeq
  <2> HIDE DEF a, s
  <2>3. QED
    BY <2>1, <2>2, IsSeqJoined
<1>4. a # <<>>
  OBVIOUS
<1>5. x = Result([Allocate(d, key) EXCEPT
                    !.open = IF e.kind = "text" THEN @ ELSE @ \cup {i}],
                 a \o s)
  BY <1>1, <1>4 DEF ChatDelta, DeltaSeq
<1> HIDE DEF s, key, a
<1>6. x = Result([d EXCEPT !.blocks = Append(@, key),
                           !.open = IF e.kind = "text" THEN @ ELSE @ \cup {i}],
                 a \o s)
  BY <1>2, <1>5 DEF IsDecoder
<1>7. x = ChatChunk(d, e)
  BY DEF ChatChunk, ContentTypes
<1> HIDE DEF x
<1>8. /\ x.d = [d EXCEPT !.blocks = Append(@, key),
                         !.open = IF e.kind = "text" THEN @ ELSE @ \cup {i}]
      /\ x.events = a \o s
  BY <1>6 DEF Result
<1>9. IsSeq(x.events)
  BY <1>3, <1>8
<1>10. res.d = x.d /\ res.events = x.events
  <2>1. IsSeq(ChatChunk(d, e).events)
    BY <1>7, <1>9
  <2>2. QED
    BY <1>7, <2>1, ChatNext
<1>11. /\ IsDecoder(x.d) /\ x.d.started = d.started /\ x.d.done = d.done
       /\ x.d.open = IF e.kind = "text" THEN d.open ELSE d.open \cup {i}
       /\ x.d.blocks = Append(d.blocks, key)
  BY <1>8 DEF IsDecoder
<1>12. QED
  BY <1>8, <1>10, <1>11 DEF a, s, key, BeginSeq, NowOpen

\* The text of a chunk.
LEMMA RunText ==
  ASSUME NEW p \in Protocols, NEW c, NEW w, NEW s, NEW types, NEW live,
         Runs(p, c, w, s, TRUE, types, live, FALSE),
         NEW i \in live, NEW type, type = types[i], NEW text
  PROVE  Runs(p, c, w, s \o DeltaSeq(i, type, text), TRUE, types, live, FALSE)
<1>1. IsSeq(s)
  BY DEF Runs
<1>2. CASE text = <<>>
  <2>1. s \o DeltaSeq(i, type, text) = s
    BY <1>1, <1>2, Writing DEF DeltaSeq
  <2>2. QED
    BY <2>1
<1>3. CASE text # <<>>
  <2>1. s \o DeltaSeq(i, type, text) = Append(s, ContentDelta(i, type, text))
    BY <1>1, <1>3, Writing DEF DeltaSeq
  <2>2. Runs(p, c, w, Append(s, ContentDelta(i, type, text)), TRUE, types, live,
             FALSE)
    BY RunDelta
  <2>3. QED
    BY <2>1, <2>2
<1>4. QED
  BY <1>2, <1>3

\* What the text's block, when it is open, is closed with.
TextStop(d) ==
  IF TextOpen(d) THEN <<ContentStop(IndexOf(d, TextKey))>> ELSE <<>>

\* The end closes the blocks that are open, the text first.
LEMMA ChatDoneIs ==
  ASSUME NEW d, IsDecoder(d), NEW res \in ChatDone(d)
  PROVE  /\ Keeps(d, res.d, d.started, {}, TRUE)
         /\ \E stops \in Stops(d.open) : \E stop :
              res.events = Append(TextStop(d) \o stops, Done(stop, d.usage))
<1>1. PICK all \in CloseBlocks(d) :
        res = Result([d EXCEPT !.done = TRUE, !.open = {}],
                     Append(all, Done(DefaultStopReason(d.stop), d.usage)))
  BY DEF ChatDone
<1>2. PICK stops \in Stops(d.open) : all = TextStop(d) \o stops
  BY <1>1 DEF CloseBlocks, TextStop
<1>3. res.d = [d EXCEPT !.done = TRUE, !.open = {}]
  BY <1>1 DEF Result
<1>4. res.events = Append(TextStop(d) \o stops,
                          Done(DefaultStopReason(d.stop), d.usage))
  BY <1>1, <1>2 DEF Result
<1>5. Keeps(d, res.d, d.started, {}, TRUE)
  BY <1>3 DEF IsDecoder, Keeps
<1>6. QED
  BY <1>4, <1>5

\* The end of a chat message: the blocks that are open are closed.
LEMMA ChatCloses ==
  ASSUME NEW p \in Protocols, NEW c, NEW w, NEW d, IsDecoder(d),
         d.done = FALSE, Indexed(d.blocks), d.started \/ d.blocks = <<>>,
         d.open = OpenChat(d.blocks),
         Runs(p, c, w, <<>>, d.started, KeyTypes(d.blocks),
              DOMAIN KeyTypes(d.blocks), FALSE),
         NEW res \in ChatDone(d)
  PROVE  /\ Keeps(d, res.d, d.started, {}, TRUE)
         /\ Runs(p, c, w, res.events, d.started, KeyTypes(d.blocks), {}, TRUE)
<1> DEFINE types == KeyTypes(d.blocks)
           D == DOMAIN types
           pos == Pos(d.blocks, TextKey)
<1>1. Keeps(d, res.d, d.started, {}, TRUE)
  BY ChatDoneIs
<1>2. PICK stops \in Stops(d.open) : \E stop :
        res.events = Append(TextStop(d) \o stops, Done(stop, d.usage))
  BY ChatDoneIs
<1>3. PICK stop :
        res.events = Append(TextStop(d) \o stops, Done(stop, d.usage))
  BY <1>2
<1>4. /\ IsFiniteSet(d.open) /\ (d.blocks = <<>> => D = {})
      /\ HasKey(d.blocks, TextKey) => pos \in D /\ d.open = D \ {pos}
      /\ ~HasKey(d.blocks, TextKey) => d.open = D
  BY Indexes, OpenChatIs
<1>5. TextStop(d) = IF HasKey(d.blocks, TextKey) THEN <<ContentStop(pos)>>
                    ELSE <<>>
  <2>1. /\ IndexOf(d, TextKey) = pos /\ Len(d.blocks) \in Nat
        /\ HasKey(d.blocks, TextKey) => pos \in 0..(Len(d.blocks) - 1)
        /\ ~HasKey(d.blocks, TextKey) => pos = Len(d.blocks)
    BY PosIs
  <2> HIDE DEF pos
  <2>2. TextOpen(d) <=> HasKey(d.blocks, TextKey)
    BY <2>1 DEF TextOpen
  <2>3. QED
    BY <2>1, <2>2 DEF TextStop
<1>6. Runs(p, c, w, <<>>, d.started, types, D, FALSE)
  OBVIOUS
<1> HIDE DEF types, D, pos
<1>7. Runs(p, c, w, TextStop(d) \o stops, d.started, types, {}, FALSE)
  <2>1. CASE d.started = FALSE
    <3>1. d.blocks = <<>>
      BY <2>1
    <3>2. D = {} /\ ~HasKey(d.blocks, TextKey) /\ d.open = {}
      BY <1>4, <3>1
    <3>3. stops = <<>>
      BY <3>2, NoStops
    <3>4. TextStop(d) = <<>>
      BY <1>5, <3>2
    <3>5. <<>> \o <<>> = <<>>
      BY ShortSeqs, Writing
    <3>6. QED
      BY <1>6, <3>2, <3>3, <3>4, <3>5
  <2>2. CASE d.started = TRUE /\ HasKey(d.blocks, TextKey)
    <3>1. pos \in D /\ d.open = D \ {pos} /\ TextStop(d) = <<ContentStop(pos)>>
      BY <1>4, <1>5, <2>2
    <3>2. Runs(p, c, w, <<>>, TRUE, types, D, FALSE)
      BY <1>6, <2>2
    <3>3. Runs(p, c, w, Append(<<>>, ContentStop(pos)), TRUE, types, D \ {pos},
               FALSE)
      BY <3>1, <3>2, RunStop
    <3>4. Append(<<>>, ContentStop(pos)) = TextStop(d)
      BY <3>1, AppendOne
    <3>5. Runs(p, c, w, TextStop(d), TRUE, types, d.open, FALSE)
      BY <3>1, <3>3, <3>4
    <3>6. Runs(p, c, w, TextStop(d) \o stops, TRUE, types, d.open \ d.open,
               FALSE)
      BY <1>4, <3>5, RunStops
    <3>7. d.open \ d.open = {}
      OBVIOUS
    <3>8. QED
      BY <2>2, <3>6, <3>7
  <2>3. CASE d.started = TRUE /\ ~HasKey(d.blocks, TextKey)
    <3>1. d.open = D /\ TextStop(d) = <<>>
      BY <1>4, <1>5, <2>3
    <3>2. Runs(p, c, w, TextStop(d), TRUE, types, d.open, FALSE)
      BY <1>6, <2>3, <3>1
    <3>3. Runs(p, c, w, TextStop(d) \o stops, TRUE, types, d.open \ d.open,
               FALSE)
      BY <1>4, <3>2, RunStops
    <3>4. d.open \ d.open = {}
      OBVIOUS
    <3>5. QED
      BY <2>3, <3>3, <3>4
  <2>4. QED
    BY <2>1, <2>2, <2>3 DEF IsDecoder
<1> DEFINE all == TextStop(d) \o stops
<1>8. Runs(p, c, w, all, d.started, types, {}, FALSE) /\ d.started \in BOOLEAN
  BY <1>7 DEF IsDecoder
<1> HIDE DEF all
<1>9. Runs(p, c, w, Append(all, Done(stop, d.usage)), d.started, types, {},
           TRUE)
  BY <1>8, RunDone
<1>10. QED
  BY <1>1, <1>3, <1>9 DEF all, types

\* The first event.
LEMMA ChatOpens ==
  ASSUME NEW r \in Announcing, r.from = "chat", NEW t, LeftInv(r, t), NEW d,
         ChatInv(r, t, d), NEW c, NEW w,
         Emitted(r.to, c, w, d.started, KeyTypes(d.blocks), LiveChat(d),
                 d.done),
         NEW i \in Stages(r), i = 0, ReadyIn(r, t, i), NEW u,
         Moves(r, t, i, u), NEW e, e = Head(t[i]),
         NEW res \in DecodeChat(d, e)
  PROVE  /\ ChatInv(r, u, res.d)
         /\ Runs(r.to, c, w, res.events, res.d.started, KeyTypes(res.d.blocks),
                 LiveChat(res.d), res.d.done)
<1> DEFINE f == FinalStage(r)
           s == Script(r)[i]
           n == Sent(r, t, i)
<1>1. r.to \in Protocols /\ i # f /\ f \in Stages(r)
  BY ExchangeFacts, ScriptIs
<1>2. t[f] # <<>> /\ t[i] # <<>>
  BY ReadyFacts DEF ReadyIn
<1>3. s = Opening(r.from) /\ r.from \in Protocols
  BY ScriptIs, ExchangeFacts
<1> HIDE DEF s, n, f
<1>4. Len(s) = 1 /\ s[1].type = "chunk" /\ s[1].kind = "role"
  BY <1>3, OpeningIs
<1>5. /\ n \in 0..(Len(s) - 1) /\ e = s[n + 1]
      /\ u[i] = <<>> <=> n + 1 = Len(s)
      /\ \A j \in Stages(r) : j # i => u[j] = t[j]
  <2>1. n = Sent(r, t, i) /\ s = Script(r)[i]
    BY DEF n, s
  <2>2. QED
    BY <2>1, MoveIs
<1>6. e.type = "chunk" /\ e.kind = "role" /\ u[i] = <<>> /\ u[f] # <<>>
  <2>1. n = 0
    BY <1>4, <1>5
  <2>2. e = s[1] /\ u[i] = <<>>
    BY <1>4, <1>5, <2>1
  <2>3. u[f] = t[f]
    BY <1>1, <1>5
  <2>4. QED
    BY <1>2, <1>4, <2>2, <2>3
<1>7. IsDecoder(d) /\ d.started = FALSE /\ d.done = FALSE
  BY <1>2 DEF ChatInv, Follows, IsDecoder, f
<1>8. /\ Keeps(d, res.d, TRUE, d.open, d.done)
      /\ res.events = <<Start(NoUsage)>>
  BY <1>6, <1>7, ChatStart
<1>9. /\ IsDecoder(res.d) /\ res.d.started = TRUE /\ res.d.open = d.open
      /\ res.d.done = FALSE /\ res.d.blocks = d.blocks
  BY <1>7, <1>8 DEF Keeps
<1>10. Follows(r, u, res.d)
  BY <1>6, <1>9 DEF Follows, f
<1>11. \A j \in Parts(r) : Sent(r, u, j) = Sent(r, t, j)
  BY ScriptIs DEF Moves
<1>12. ChatInv(r, u, res.d)
  BY <1>7, <1>9, <1>10, <1>11 DEF ChatInv
<1>13. LiveChat(res.d) = LiveChat(d)
  BY <1>7, <1>9 DEF LiveChat
<1>14. Runs(r.to, c, w, <<>>, FALSE, KeyTypes(d.blocks), LiveChat(d), FALSE)
  BY <1>7, RunNone
<1>15. Runs(r.to, c, w, Append(<<>>, Start(NoUsage)), TRUE,
            KeyTypes(d.blocks), LiveChat(d), FALSE)
  BY <1>1, <1>14, RunStart
<1>16. res.events = Append(<<>>, Start(NoUsage))
  BY <1>8, AppendOne
<1>17. QED
  BY <1>9, <1>12, <1>13, <1>15, <1>16

\* The last events.
LEMMA ChatEnds ==
  ASSUME NEW r \in Announcing, r.from = "chat", NEW t, LeftInv(r, t), NEW d,
         ChatInv(r, t, d), NEW c, NEW w,
         Emitted(r.to, c, w, d.started, KeyTypes(d.blocks), LiveChat(d),
                 d.done),
         NEW i \in Stages(r), i = FinalStage(r), ReadyIn(r, t, i), NEW u,
         Moves(r, t, i, u), NEW e, e = Head(t[i]),
         NEW res \in DecodeChat(d, e)
  PROVE  /\ ChatInv(r, u, res.d)
         /\ Runs(r.to, c, w, res.events, res.d.started, KeyTypes(res.d.blocks),
                 LiveChat(res.d), res.d.done)
<1> DEFINE n == Sent(r, t, i)
           s == Script(r)[i]
<1>1. r.to \in Protocols /\ 0 # i /\ 0 \in Stages(r) /\ i \notin Parts(r)
  BY ExchangeFacts, ScriptIs
<1>2. t[i] # <<>> /\ t[0] = <<>>
  BY <1>1, ReadyFacts
<1>3. s = Ending(r.from, r.stop) /\ r.from \in Protocols
  BY ScriptIs, ExchangeFacts
<1> HIDE DEF n, s
<1>4. /\ Len(s) = 3
      /\ s[1].type = "chunk" /\ s[1].kind = "finish"
      /\ s[2].type = "chunk" /\ s[2].kind = "usage"
      /\ s[3].type = "[DONE]"
  BY <1>3, EndingIs
<1>5. /\ n \in 0..(Len(s) - 1) /\ e = s[n + 1]
      /\ u[i] = <<>> <=> n + 1 = Len(s)
      /\ \A j \in Stages(r) : j # i => u[j] = t[j]
  <2>1. n = Sent(r, t, i) /\ s = Script(r)[i]
    BY DEF n, s
  <2>2. QED
    BY <2>1, MoveIs
<1>6. u[0] = <<>>
  BY <1>1, <1>2, <1>5
<1>7. \A j \in Parts(r) : Sent(r, u, j) = Sent(r, t, j)
  BY <1>1, ScriptIs DEF Moves
<1>8. /\ IsDecoder(d) /\ d.started = TRUE /\ d.done = FALSE
      /\ Indexed(d.blocks) /\ d.open = OpenChat(d.blocks)
  BY <1>2 DEF ChatInv, Follows, IsDecoder
<1>9. Runs(r.to, c, w, <<>>, TRUE, KeyTypes(d.blocks),
           DOMAIN KeyTypes(d.blocks), FALSE)
  <2>1. LiveChat(d) = DOMAIN KeyTypes(d.blocks)
    BY <1>8 DEF LiveChat
  <2>2. Runs(r.to, c, w, <<>>, TRUE, KeyTypes(d.blocks), LiveChat(d), FALSE)
    BY <1>8, RunNone
  <2>3. QED
    BY <2>1, <2>2
<1>10. CASE n + 1 = 1 \/ n + 1 = 2
  <2>1. /\ e.type = "chunk" /\ u[i] # <<>>
        /\ \/ e.kind = "finish"
           \/ e.kind = "usage"
    BY <1>4, <1>5, <1>10
  <2>2. Keeps(d, res.d, d.started, d.open, d.done) /\ res.events = <<>>
    BY <1>8, <2>1, ChatNothing
  <2>3. /\ IsDecoder(res.d) /\ res.d.started = TRUE /\ res.d.open = d.open
        /\ res.d.done = FALSE /\ res.d.blocks = d.blocks
    BY <1>8, <2>2 DEF Keeps
  <2>4. Follows(r, u, res.d)
    BY <1>6, <2>1, <2>3 DEF Follows
  <2>5. ChatInv(r, u, res.d)
    BY <1>7, <1>8, <2>3, <2>4 DEF ChatInv
  <2>6. LiveChat(res.d) = DOMAIN KeyTypes(d.blocks)
    BY <2>3 DEF LiveChat
  <2>7. QED
    BY <1>9, <2>2, <2>3, <2>5, <2>6
<1>11. CASE n + 1 = 3
  <2>1. e.type = "[DONE]" /\ u[i] = <<>>
    BY <1>4, <1>5, <1>11
  <2>2. res \in ChatDone(d)
    BY <1>8, <2>1 DEF DecodeChat
  <2>3. Runs(r.to, c, w, <<>>, d.started, KeyTypes(d.blocks),
             DOMAIN KeyTypes(d.blocks), FALSE)
    BY <1>8, <1>9
  <2>4. /\ Keeps(d, res.d, d.started, {}, TRUE)
        /\ Runs(r.to, c, w, res.events, d.started, KeyTypes(d.blocks), {}, TRUE)
    BY <1>1, <1>8, <2>2, <2>3, ChatCloses
  <2>5. /\ IsDecoder(res.d) /\ res.d.started = TRUE /\ res.d.open = {}
        /\ res.d.done = TRUE /\ res.d.blocks = d.blocks
    BY <1>8, <2>4 DEF Keeps
  <2>6. Follows(r, u, res.d)
    BY <1>6, <2>1, <2>5 DEF Follows
  <2>7. ChatInv(r, u, res.d)
    BY <1>7, <1>8, <2>5, <2>6 DEF ChatInv
  <2>8. LiveChat(res.d) = {}
    BY <2>5 DEF LiveChat
  <2>9. QED
    BY <1>8, <2>4, <2>5, <2>7, <2>8
<1>12. n + 1 = 1 \/ n + 1 = 2 \/ n + 1 = 3
  BY <1>4, <1>5
<1>13. QED
  BY <1>10, <1>11, <1>12

\* What a part's chunk is.
LEMMA ChatKeys ==
  ASSUME NEW kind \in ContentTypes, NEW i, NEW e, e.kind = kind, e.index = i,
         NEW key, key = ChatKey(e)
  PROVE  /\ KindOf(key) = kind
         /\ key = TextKey <=> kind = "text"
         /\ kind = "tool_call" => key = CallKey(i)
<1>1. KindOf(key) = kind
  BY DEF ContentTypes, ChatKey, KindOf
<1>2. key = TextKey <=> kind = "text"
  BY DEF ContentTypes, ChatKey, TextKey
<1>3. kind = "tool_call" => key = CallKey(i)
  BY DEF ChatKey, CallKey
<1>4. QED
  BY <1>1, <1>2, <1>3

\* A new block is open when it is not that of the text.
LEMMA OpenChatMore ==
  ASSUME NEW blocks, Indexed(blocks), NEW key, NEW more,
         more = Append(blocks, key)
  PROVE  OpenChat(more) = IF key = TextKey THEN OpenChat(blocks)
                          ELSE OpenChat(blocks) \cup {Len(blocks)}
<1> DEFINE n == Len(blocks)
<1>1. /\ n \in Nat /\ Len(more) = n + 1 /\ more[n + 1] = key
      /\ \A k \in 1..n : more[k] = blocks[k]
  BY OneMore DEF Indexed
<1>2. DOMAIN KeyTypes(blocks) = 0..(n - 1)
  BY DEF KeyTypes
<1>3. DOMAIN KeyTypes(more) = 0..(Len(more) - 1)
  BY DEF KeyTypes
<1> HIDE DEF n
<1>4. DOMAIN KeyTypes(more) = 0..(n - 1) \cup {n}
  BY <1>1, <1>3
<1>5. \A i \in 0..(n - 1) : i + 1 \in 1..n /\ i # n
  BY <1>1
<1>6. \A i \in 0..(n - 1) : more[i + 1] = blocks[i + 1]
  BY <1>1, <1>5
<1>7. QED
  BY <1>1, <1>2, <1>4, <1>5, <1>6 DEF OpenChat, n

\* A chunk of a part begins its block, or goes on with it.
LEMMA ChatMoves ==
  ASSUME NEW r \in Announcing, r.from = "chat", NEW t, LeftInv(r, t), NEW d,
         ChatInv(r, t, d), NEW c, NEW w,
         Emitted(r.to, c, w, d.started, KeyTypes(d.blocks), LiveChat(d),
                 d.done),
         NEW i \in Parts(r), ReadyIn(r, t, i), NEW u,
         Moves(r, t, i, u), NEW e, e = Head(t[i]),
         NEW res \in DecodeChat(d, e)
  PROVE  /\ ChatInv(r, u, res.d)
         /\ Runs(r.to, c, w, res.events, res.d.started, KeyTypes(res.d.blocks),
                 LiveChat(res.d), res.d.done)
<1> DEFINE f == FinalStage(r)
           n == Sent(r, t, i)
           s == Script(r)[i]
           k == r.message[i]
           size == Length(r, k)
           key == ChatKey(e)
           B == d.blocks
           Calls(blocks, v) ==
             \A j \in Parts(r) : r.message[j] = "tool_call" /\ Sent(r, v, j) > 0
               => HasKey(blocks, CallKey(j))
<1>1. /\ r.to \in Protocols /\ i \in Stages(r) /\ f \in Stages(r)
      /\ 0 \in Stages(r) /\ i # 0 /\ i # f
  BY ExchangeFacts, ScriptIs
<1>2. t[f] # <<>> /\ t[i] # <<>> /\ t[0] = <<>>
  BY <1>1, ReadyFacts DEF ReadyIn
<1>3. k \in ContentTypes
  BY ExchangeFacts
<1>4. /\ s = PartScript("chat", k, i, size) /\ size \in Nat
      /\ k # "tool_call" => size > 0
  BY ScriptIs, LengthIs
<1>5. i # -1
  BY DEF Parts
<1>6. /\ IsDecoder(d) /\ d.started = TRUE /\ d.done = FALSE
      /\ Indexed(B) /\ Calls(B, t) /\ d.open = OpenChat(B)
  BY <1>2 DEF ChatInv, Follows, IsDecoder
<1>7. ASSUME NEW b, IsDecoder(b), b.started = TRUE, b.done = FALSE,
             Indexed(b.blocks), Calls(b.blocks, u), b.open = OpenChat(b.blocks)
      PROVE  ChatInv(r, u, b)
  <2>1. u[0] = <<>> /\ u[f] # <<>>
    BY <1>1, <1>2 DEF Moves
  <2>2. Follows(r, u, b)
    BY <1>7, <2>1 DEF Follows
  <2>3. QED
    BY <1>7, <2>2 DEF ChatInv
<1>8. k = "tool_call" /\ n > 0 => HasKey(B, CallKey(i))
  BY <1>6
<1>9. \A j \in Parts(r) : j # i => Sent(r, u, j) = Sent(r, t, j)
  BY ScriptIs DEF Moves
<1>10. ASSUME NEW more,
              \A j : HasKey(B, CallKey(j)) => HasKey(more, CallKey(j)),
              k = "tool_call" => HasKey(more, CallKey(i))
       PROVE  Calls(more, u)
  BY <1>6, <1>9, <1>10
<1>11. Runs(r.to, c, w, <<>>, TRUE, KeyTypes(B), DOMAIN KeyTypes(B), FALSE)
  <2>1. LiveChat(d) = DOMAIN KeyTypes(B)
    BY <1>6 DEF LiveChat
  <2>2. Runs(r.to, c, w, <<>>, TRUE, KeyTypes(B), LiveChat(d), FALSE)
    BY <1>6, RunNone
  <2>3. QED
    BY <2>1, <2>2
<1> HIDE DEF f, n, s, k, Calls, size
<1>12. /\ Len(s) \in Nat /\ Len(s) >= 1
       /\ k = "tool_call" => s[1] = Wire("chunk", i, k, i, <<>>)
       /\ \A m \in 1..Len(s) : m > 1 \/ k # "tool_call" =>
            \E text : s[m] = Wire("chunk", i, k, -1, text)
  BY <1>4, ChatPart
<1>13. n \in 0..(Len(s) - 1) /\ e = s[n + 1]
  <2>1. n = Sent(r, t, i) /\ s = Script(r)[i]
    BY DEF n, s
  <2>2. QED
    BY <2>1, MoveIs
<1>14. /\ e.type = "chunk" /\ e.kind = k /\ e.index = i
       /\ k = "tool_call" /\ n = 0 => e.id = i
  <2>1. CASE k = "tool_call" /\ n = 0
    BY <1>12, <1>13, <2>1, WireFields
  <2>2. CASE ~(k = "tool_call" /\ n = 0)
    <3>1. n + 1 \in 1..Len(s) /\ (n + 1 > 1 \/ k # "tool_call")
      BY <1>12, <1>13, <2>2
    <3>2. PICK text : e = Wire("chunk", i, k, -1, text)
      BY <1>12, <1>13, <3>1
    <3>3. QED
      BY <2>2, <3>2, WireFields
  <2>3. QED
    BY <2>1, <2>2
<1>15. /\ KindOf(key) = k /\ (key = TextKey <=> k = "text")
       /\ k = "tool_call" => key = CallKey(i)
  BY <1>3, <1>14, ChatKeys
<1>16. e.kind \in ContentTypes
  BY <1>3, <1>14
<1>17. CASE HasKey(B, key)
  <2> DEFINE pos == Pos(B, key)
  <2>1. pos \in DOMAIN KeyTypes(B) /\ KeyTypes(B)[pos] = k
    <3>1. pos \in 0..(Len(B) - 1) /\ B[pos + 1] = key
      BY <1>6, <1>17, PosIs
    <3> HIDE DEF pos
    <3>2. QED
      BY <1>15, <3>1 DEF KeyTypes
  <2>2. /\ Keeps(d, res.d, d.started, d.open, d.done)
        /\ res.events = DeltaSeq(pos, e.kind, e.text)
    BY <1>6, <1>14, <1>16, <1>17, ChatGoesOn
  <2> HIDE DEF pos
  <2>3. /\ IsDecoder(res.d) /\ res.d.started = TRUE /\ res.d.open = d.open
        /\ res.d.done = FALSE /\ res.d.blocks = B
    BY <1>6, <2>2 DEF Keeps
  <2>4. k = "tool_call" => HasKey(B, CallKey(i))
    BY <1>15, <1>17
  <2>5. Calls(B, u)
    BY <1>10, <2>4
  <2>6. ChatInv(r, u, res.d)
    BY <1>6, <1>7, <2>3, <2>5
  <2>7. Runs(r.to, c, w, <<>> \o DeltaSeq(pos, k, e.text), TRUE, KeyTypes(B),
             DOMAIN KeyTypes(B), FALSE)
    BY <1>1, <1>11, <2>1, RunText
  <2>8. <<>> \o DeltaSeq(pos, k, e.text) = res.events
    <3> DEFINE q == DeltaSeq(pos, k, e.text)
    <3>1. IsSeq(q)
      BY ShortSeqs DEF DeltaSeq
    <3> HIDE DEF q
    <3>2. PICK S : q \in Seq(S)
      BY <3>1 DEF IsSeq
    <3>3. <<>> \o q = q
      BY <3>2
    <3>4. QED
      BY <1>14, <2>2, <3>3 DEF q
  <2>9. LiveChat(res.d) = DOMAIN KeyTypes(B)
    BY <2>3 DEF LiveChat
  <2>10. QED
    BY <2>3, <2>6, <2>7, <2>8, <2>9
<1>18. CASE ~HasKey(B, key)
  <2> DEFINE new == Len(B)
             more == Append(B, key)
  <2>1. /\ IsDecoder(res.d) /\ res.d.started = d.started
        /\ res.d.done = d.done
        /\ res.d.open = NowOpen(d, new, e.kind)
        /\ res.d.blocks = more
        /\ res.events = BeginSeq(new, e.kind, e.id, e.text)
    BY <1>6, <1>14, <1>16, <1>18, ChatBegins
  <2>2. /\ Indexed(more)
        /\ \A x : HasKey(more, x) <=> HasKey(B, x) \/ x = key
        /\ new \notin DOMAIN KeyTypes(B)
        /\ KeyTypes(more) = Put(KeyTypes(B), new, KindOf(key))
    <3>1. Indexed(B) /\ ~HasKey(B, key) /\ more = Append(B, key)
      BY <1>6, <1>18
    <3> HIDE DEF more, B, key
    <3>2. /\ Indexed(more)
          /\ \A x : HasKey(more, x) <=> HasKey(B, x) \/ x = key
          /\ Len(B) \notin DOMAIN KeyTypes(B)
          /\ KeyTypes(more) = Put(KeyTypes(B), Len(B), KindOf(key))
      BY <3>1, KeyAppended
    <3>3. QED
      BY <3>2
  <2>3. OpenChat(more) = IF key = TextKey THEN OpenChat(B)
                         ELSE OpenChat(B) \cup {new}
    <3>1. more = Append(B, key) /\ new = Len(B)
      OBVIOUS
    <3> HIDE DEF more, new, B, key
    <3>2. QED
      BY <1>6, <3>1, OpenChatMore
  <2> HIDE DEF more, new, key
  <2>4. /\ IsDecoder(res.d) /\ res.d.started = TRUE /\ res.d.done = FALSE
        /\ res.d.open = OpenChat(more) /\ res.d.blocks = more
    BY <1>6, <1>14, <1>15, <2>1, <2>3 DEF NowOpen
  <2>5. Calls(more, u)
    <3>1. k = "tool_call" => HasKey(more, CallKey(i))
      BY <1>15, <2>2
    <3>2. \A j : HasKey(B, CallKey(j)) => HasKey(more, CallKey(j))
      BY <2>2
    <3>3. QED
      BY <1>10, <3>1, <3>2
  <2>6. ChatInv(r, u, res.d)
    BY <1>7, <2>2, <2>4, <2>5
  <2>7. k = "tool_call" => e.id # -1
    <3>1. k = "tool_call" => n = 0
      BY <1>8, <1>13, <1>15, <1>18
    <3>2. QED
      BY <1>5, <1>14, <3>1
  <2>8. KeyTypes(more) = Put(KeyTypes(B), new, k)
    BY <1>15, <2>2
  <2>9. Runs(r.to, c, w, Append(<<>>, ContentStart(new, k, e.id)), TRUE,
             KeyTypes(more), DOMAIN KeyTypes(B) \cup {new}, FALSE)
    BY <1>1, <1>3, <1>11, <2>2, <2>7, <2>8, RunContentStart
  <2>10. /\ DOMAIN KeyTypes(more) = DOMAIN KeyTypes(B) \cup {new}
         /\ KeyTypes(more)[new] = k
    BY <2>8 DEF Put
  <2> DEFINE q == Append(<<>>, ContentStart(new, k, e.id))
  <2>11. Runs(r.to, c, w, q, TRUE, KeyTypes(more), DOMAIN KeyTypes(more), FALSE)
    BY <2>9, <2>10
  <2>12. q = <<ContentStart(new, k, e.id)>>
    BY AppendOne
  <2> HIDE DEF q
  <2>13. new \in DOMAIN KeyTypes(more)
    BY <2>10
  <2>14. Runs(r.to, c, w, q \o DeltaSeq(new, k, e.text), TRUE, KeyTypes(more),
              DOMAIN KeyTypes(more), FALSE)
    BY <1>1, <2>10, <2>11, <2>13, RunText
  <2>15. res.events = q \o DeltaSeq(new, k, e.text)
    BY <1>14, <2>1, <2>12 DEF BeginSeq
  <2>16. LiveChat(res.d) = DOMAIN KeyTypes(more)
    BY <2>4 DEF LiveChat
  <2>17. QED
    BY <2>4, <2>6, <2>14, <2>15, <2>16
<1>19. QED
  BY <1>17, <1>18

-----------------------------------------------------------------------------
(* A stream that is relayed.                                               *)

\* What holds of a decoder, and the blocks it has opened.
DecoderInv(r, t, d) ==
  /\ r.from = "anthropic" => AnthropicInv(r, t, d)
  /\ r.from = "responses" => ResponsesInv(r, t, d)
  /\ r.from = "chat" => ChatInv(r, t, d)
TypesNow(r, t, d) ==
  IF r.from = "anthropic" THEN PartTypes(r, t) ELSE KeyTypes(d.blocks)
LiveNow(r, d) == IF r.from = "chat" THEN LiveChat(d) ELSE d.open

\* What the provider has still to send is t, and what it has sent has been
\* decoded, encoded and written.
Streams(r, t, d, c, w) ==
  /\ LeftInv(r, t)
  /\ DecoderInv(r, t, d)
  /\ Emitted(r.to, c, w, d.started, TypesNow(r, t, d), LiveNow(r, d), d.done)

\* The next event of the stream.
LEMMA AnthropicRelayed ==
  ASSUME NEW r \in Announcing, r.from = "anthropic", r.to # "anthropic",
         NEW t, LeftInv(r, t), NEW d, AnthropicInv(r, t, d), NEW c, NEW w,
         Emitted(r.to, c, w, d.started, PartTypes(r, t), d.open, d.done),
         NEW i \in Stages(r), ReadyIn(r, t, i), NEW u,
         Moves(r, t, i, u), NEW e, e = Head(t[i]),
         NEW res \in DecodeAnthropic(d, e)
  PROVE  /\ AnthropicInv(r, u, res.d)
         /\ Runs(r.to, c, w, res.events, res.d.started, PartTypes(r, u),
                 res.d.open, res.d.done)
<1>1. i = 0 \/ i = FinalStage(r) \/ i \in Parts(r)
  BY ScriptIs
<1>2. CASE i = 0
  BY <1>2, AnthropicOpens
<1>3. CASE i = FinalStage(r)
  BY <1>3, AnthropicEnds
<1>4. CASE i \in Parts(r) /\ r.message[i] = "redacted"
  BY <1>4, RedactedMoves
<1>5. CASE i \in Parts(r) /\ r.message[i] # "redacted"
  BY <1>5, AnthropicMoves
<1>6. QED
  BY <1>1, <1>2, <1>3, <1>4, <1>5

\* One event of a Responses stream, decoded and encoded.
LEMMA ResponsesRelayed ==
  ASSUME NEW r \in Announcing, r.from = "responses",
         NEW t, LeftInv(r, t), NEW d, ResponsesInv(r, t, d), NEW c, NEW w,
         Emitted(r.to, c, w, d.started, KeyTypes(d.blocks), d.open, d.done),
         NEW i \in Stages(r), ReadyIn(r, t, i), NEW u,
         Moves(r, t, i, u), NEW e, e = Head(t[i]),
         NEW res, res = DecodeResponses(d, e)
  PROVE  /\ ResponsesInv(r, u, res.d)
         /\ Runs(r.to, c, w, res.events, res.d.started, KeyTypes(res.d.blocks),
                 res.d.open, res.d.done)
<1>1. i = 0 \/ i = FinalStage(r) \/ i \in Parts(r)
  BY ScriptIs
<1>2. CASE i = 0
  BY <1>2, ResponsesOpens
<1>3. CASE i = FinalStage(r)
  BY <1>3, ResponsesEnds
<1>4. CASE i \in Parts(r) /\ r.message[i] = "reasoning"
  BY <1>4, ResponsesSilent
<1>5. CASE i \in Parts(r) /\ r.message[i] # "reasoning"
  BY <1>5, ResponsesMoves
<1>6. QED
  BY <1>1, <1>2, <1>3, <1>4, <1>5

\* One event of a chat stream, decoded and encoded.
LEMMA ChatRelayed ==
  ASSUME NEW r \in Announcing, r.from = "chat", NEW t, LeftInv(r, t), NEW d,
         ChatInv(r, t, d), NEW c, NEW w,
         Emitted(r.to, c, w, d.started, KeyTypes(d.blocks), LiveChat(d),
                 d.done),
         NEW i \in Stages(r), ReadyIn(r, t, i), NEW u,
         Moves(r, t, i, u), NEW e, e = Head(t[i]),
         NEW res \in DecodeChat(d, e)
  PROVE  /\ ChatInv(r, u, res.d)
         /\ Runs(r.to, c, w, res.events, res.d.started, KeyTypes(res.d.blocks),
                 LiveChat(res.d), res.d.done)
<1>1. i = 0 \/ i = FinalStage(r) \/ i \in Parts(r)
  BY ScriptIs
<1>2. CASE i = 0
  BY <1>2, ChatOpens
<1>3. CASE i = FinalStage(r)
  BY <1>3, ChatEnds
<1>4. CASE i \in Parts(r)
  BY <1>4, ChatMoves
<1>5. QED
  BY <1>1, <1>2, <1>3, <1>4

\* One event of any stream that is translated.
LEMMA EventRelayed ==
  ASSUME NEW r \in Announcing, r.from # r.to, NEW t, NEW d, NEW c, NEW w,
         Streams(r, t, d, c, w), NEW i \in DOMAIN t, ReadyIn(r, t, i),
         NEW u, u = [t EXCEPT ![i] = Tail(@)],
         NEW res \in Decode(r.from, d, Head(t[i])),
         NEW x, x = EncodeAll(r.to, c, res.events)
  PROVE  Streams(r, u, res.d, x.c, w \o x.out)
<1> DEFINE e == Head(t[i])
<1>1. LeftInv(r, t) /\ DecoderInv(r, t, d)
      /\ Emitted(r.to, c, w, d.started, TypesNow(r, t, d), LiveNow(r, d),
                 d.done)
  BY DEF Streams
<1>2. LeftInv(r, u) /\ Moves(r, t, i, u) /\ i \in Stages(r)
  BY <1>1, OneSent
<1>3. e = Head(t[i]) /\ res \in Decode(r.from, d, e)
  OBVIOUS
<1>4. SUFFICES
        /\ DecoderInv(r, u, res.d)
        /\ Runs(r.to, c, w, res.events, res.d.started, TypesNow(r, u, res.d),
                LiveNow(r, res.d), res.d.done)
  <2>1. Emitted(r.to, x.c, w \o x.out, res.d.started, TypesNow(r, u, res.d),
                LiveNow(r, res.d), res.d.done)
    BY <1>4, RunWritten
  <2>2. QED
    BY <1>2, <1>4, <2>1 DEF Streams
<1> HIDE DEF e
<1>5. CASE r.from = "anthropic"
  <2>1. /\ AnthropicInv(r, t, d)
        /\ Emitted(r.to, c, w, d.started, PartTypes(r, t), d.open, d.done)
        /\ res \in DecodeAnthropic(d, e)
    BY <1>1, <1>3, <1>5 DEF DecoderInv, TypesNow, LiveNow, Decode
  <2>2. r.to # "anthropic"
    BY <1>5
  <2>3. /\ AnthropicInv(r, u, res.d)
        /\ Runs(r.to, c, w, res.events, res.d.started, PartTypes(r, u),
                res.d.open, res.d.done)
    BY <1>1, <1>2, <1>3, <1>5, <2>1, <2>2, AnthropicRelayed
  <2>4. QED
    BY <1>5, <2>3 DEF DecoderInv, TypesNow, LiveNow
<1>6. CASE r.from = "responses"
  <2>1. /\ ResponsesInv(r, t, d)
        /\ Emitted(r.to, c, w, d.started, KeyTypes(d.blocks), d.open, d.done)
        /\ res = DecodeResponses(d, e)
    BY <1>1, <1>3, <1>6 DEF DecoderInv, TypesNow, LiveNow, Decode
  <2>2. /\ ResponsesInv(r, u, res.d)
        /\ Runs(r.to, c, w, res.events, res.d.started, KeyTypes(res.d.blocks),
                res.d.open, res.d.done)
    BY <1>1, <1>2, <1>3, <1>6, <2>1, ResponsesRelayed
  <2>3. QED
    BY <1>6, <2>2 DEF DecoderInv, TypesNow, LiveNow
<1>7. CASE r.from = "chat"
  <2>1. /\ ChatInv(r, t, d)
        /\ Emitted(r.to, c, w, d.started, KeyTypes(d.blocks), LiveChat(d),
                   d.done)
        /\ res \in DecodeChat(d, e)
    BY <1>1, <1>3, <1>7 DEF DecoderInv, TypesNow, LiveNow, Decode
  <2>2. /\ ChatInv(r, u, res.d)
        /\ Runs(r.to, c, w, res.events, res.d.started, KeyTypes(res.d.blocks),
                LiveChat(res.d), res.d.done)
    BY <1>1, <1>2, <1>3, <1>7, <2>1, ChatRelayed
  <2>3. QED
    BY <1>7, <2>2 DEF DecoderInv, TypesNow, LiveNow
<1>8. r.from \in Protocols
  BY ExchangeFacts
<1>9. QED
  BY <1>5, <1>6, <1>7, <1>8 DEF Protocols

\* Before anything is written.
NoTypes == [i \in {} |-> "text"]

\* An encoder that has written nothing.
LEMMA NothingWritten ==
  ASSUME NEW p
  PROVE  Emitted(p, Collector, <<>>, FALSE, NoTypes, {}, FALSE)
<1>1. IsCollector(Collector) /\ Types(Collector) = NoTypes
  <2>1. Collector.blocks = <<>>
    BY Zenon DEF Collector
  <2>2. Collector = [content |-> Collector.content,
                     blocks |-> Collector.blocks, stop |-> Collector.stop,
                     usage |-> Collector.usage]
    BY Zenon DEF Collector
  <2>3. DOMAIN Collector.blocks = {}
    BY <2>1
  <2>4. IsCollector(Collector)
    BY <2>2, <2>3 DEF IsCollector
  <2>5. Types(Collector) = NoTypes
    BY <2>3 DEF Types, NoTypes
  <2>6. QED
    BY <2>4, <2>5
<1> DEFINE w == <<>>
<1>2. IsSeq(w) /\ 1..Len(w) = {} /\ w = <<>>
  BY ShortSeqs
<1> HIDE DEF w
<1>3. Tidy(w, FALSE, Opened(p, NoTypes), {}, FALSE)
  BY <1>2 DEF Tidy
<1>4. Open(p, NoTypes, {}) = {}
  BY <1>1 DEF Open, Opened, NoTypes
<1>5. Tidy(w, FALSE, Opened(p, NoTypes), Open(p, NoTypes, {}), FALSE)
  BY <1>3, <1>4
<1>6. Emitted(p, Collector, w, FALSE, NoTypes, {}, FALSE)
  BY <1>1, <1>2, <1>5 DEF Emitted
<1>7. QED
  BY <1>6 DEF w

\* Before the first event.
LEMMA NothingSent ==
  ASSUME NEW r \in Announcing
  PROVE  Streams(r, Script(r), Decoder, Collector, <<>>)
<1> DEFINE t == Script(r)
<1>1. LeftInv(r, t) /\ \A i \in Stages(r) : Sent(r, t, i) = 0
  BY AllLeft
<1>2. Begun(r, t) = {} /\ UnderWay(r, t) = {}
  <2>1. \A i \in Parts(r) : i \in Stages(r)
    BY ScriptIs
  <2> HIDE DEF t
  <2>2. \A i \in Parts(r) : ~(Sent(r, t, i) > 0)
    BY <1>1, <2>1
  <2>3. QED
    BY <2>2 DEF Begun, UnderWay
<1>3. t[0] # <<>> /\ t[FinalStage(r)] # <<>>
  <2>1. r.from \in Protocols
    BY ExchangeFacts
  <2>2. /\ t[0] = Opening(r.from)
        /\ t[FinalStage(r)] = Ending(r.from, r.stop)
    BY ScriptIs
  <2>3. IsSeq(t[0]) /\ Len(t[0]) = 1
    BY <2>1, <2>2, OpeningIs
  <2>4. IsSeq(t[FinalStage(r)]) /\ Len(t[FinalStage(r)]) \in 1..3
    BY <2>1, <2>2, EndingIs
  <2>5. Len(<<>>) = 0 /\ 0 \notin 1..3 /\ 0 # 1
    OBVIOUS
  <2> HIDE DEF t
  <2>6. t[0] # <<>>
    BY <2>3, <2>5
  <2>7. t[FinalStage(r)] # <<>>
    BY <2>4, <2>5
  <2>8. QED
    BY <2>6, <2>7
<1>4. /\ Decoder.started = FALSE /\ Decoder.done = FALSE
      /\ Decoder.blocks = <<>> /\ Decoder.open = {}
  BY Zenon DEF Decoder
<1>5. IsDecoder(Decoder)
  <2>1. Decoder = [started |-> Decoder.started, done |-> Decoder.done,
                   blocks |-> Decoder.blocks, open |-> Decoder.open,
                   hadTool |-> Decoder.hadTool, stop |-> Decoder.stop,
                   usage |-> Decoder.usage]
    BY Zenon DEF Decoder
  <2>2. QED
    BY <1>4, <2>1 DEF IsDecoder
<1>6. Follows(r, t, Decoder)
  BY <1>3, <1>4, <1>5 DEF Follows
<1>7. Indexed(<<>>) /\ \A key : ~HasKey(<<>>, key)
  BY ShortSeqs DEF Indexed, HasKey
<1>8. KeyTypes(<<>>) = NoTypes /\ PartTypes(r, t) = NoTypes
  <2>1. DOMAIN KeyTypes(<<>>) = {}
    BY <1>7, <1>4, Indexes
  <2>2. KeyTypes(<<>>) = NoTypes
    BY <2>1 DEF KeyTypes, NoTypes
  <2>3. PartTypes(r, t) = NoTypes
    BY <1>2 DEF PartTypes, NoTypes
  <2>4. QED
    BY <2>2, <2>3
<1> HIDE DEF t
<1>9. TypesNow(r, t, Decoder) = NoTypes /\ LiveNow(r, Decoder) = {}
  <2>1. TypesNow(r, t, Decoder) = NoTypes
    BY <1>4, <1>8 DEF TypesNow
  <2>2. LiveChat(Decoder) = {}
    BY <1>4, <1>7, Indexes DEF LiveChat
  <2>3. QED
    BY <1>4, <2>1, <2>2 DEF LiveNow
<1>10. DecoderInv(r, t, Decoder)
  <2>1. AnthropicInv(r, t, Decoder)
    BY <1>2, <1>4, <1>6 DEF AnthropicInv
  <2>2. ResponsesInv(r, t, Decoder)
    <3>1. Places(r, {}, <<>>) = {}
      BY DEF Places
    <3>2. Decoder.open = Places(r, UnderWay(r, t), Decoder.blocks)
      BY <1>2, <1>4, <3>1
    <3>3. \A i \in Parts(r) : ~HasKey(Decoder.blocks, ItemKey(r, i))
                              /\ i \notin Begun(r, t)
      BY <1>2, <1>4, <1>7
    <3>4. Indexed(Decoder.blocks)
      BY <1>4, <1>7
    <3>5. QED
      BY <1>6, <3>2, <3>3, <3>4 DEF ResponsesInv
  <2>3. ChatInv(r, t, Decoder)
    <3>1. DOMAIN KeyTypes(<<>>) = {}
      BY <1>7, Indexes
    <3>2. OpenChat(<<>>) = {}
      BY <3>1 DEF OpenChat
    <3>3. \A i \in Parts(r) : ~(Sent(r, t, i) > 0)
      <4>1. \A i \in Parts(r) : i \in Stages(r)
        BY ScriptIs
      <4>2. QED
        BY <1>1, <4>1
    <3>4. QED
      BY <1>4, <1>6, <1>7, <3>2, <3>3 DEF ChatInv
  <2>4. QED
    BY <2>1, <2>2, <2>3 DEF DecoderInv
<1>11. Emitted(r.to, Collector, <<>>, FALSE, NoTypes, {}, FALSE)
  BY NothingWritten
<1>12. Emitted(r.to, Collector, <<>>, Decoder.started, TypesNow(r, t, Decoder),
               LiveNow(r, Decoder), Decoder.done)
  BY <1>4, <1>9, <1>11
<1>13. LeftInv(r, t)
  BY <1>1
<1>14. Streams(r, t, Decoder, Collector, <<>>)
  BY <1>10, <1>12, <1>13 DEF Streams
<1>15. QED
  BY <1>14 DEF t

\* When all has been sent, the decoder is done and no block is open.
LEMMA AllReceived ==
  ASSUME NEW r \in Announcing, NEW t, NEW d, LeftInv(r, t), DecoderInv(r, t, d),
         \A i \in DOMAIN t : t[i] = <<>>
  PROVE  d.done = TRUE /\ LiveNow(r, d) = {}
<1>1. r.from \in Protocols
  BY ExchangeFacts
<1>2. t[FinalStage(r)] = <<>>
  BY ScriptIs DEF LeftInv
<1>3. UnderWay(r, t) = {}
  <2>1. \A i \in Parts(r) : t[i] = <<>>
    BY ScriptIs DEF LeftInv
  <2>2. QED
    BY <2>1 DEF UnderWay, Begun
<1>4. ASSUME Follows(r, t, d) PROVE d.done = TRUE
  BY <1>2, <1>4 DEF Follows, IsDecoder
<1>5. CASE r.from = "anthropic"
  BY <1>3, <1>4, <1>5 DEF DecoderInv, AnthropicInv, LiveNow
<1>6. CASE r.from = "responses"
  <2>1. Places(r, {}, d.blocks) = {}
    BY DEF Places
  <2>2. d.open = {} /\ Follows(r, t, d)
    BY <1>3, <1>6, <2>1 DEF DecoderInv, ResponsesInv
  <2>3. QED
    BY <1>4, <1>6, <2>2 DEF LiveNow
<1>7. CASE r.from = "chat"
  BY <1>4, <1>7 DEF DecoderInv, ChatInv, LiveNow, LiveChat
<1>8. QED
  BY <1>1, <1>5, <1>6, <1>7 DEF Protocols

\* A decoder that is done, of whatever protocol, and one that is not.
LEMMA FinishIs ==
  ASSUME NEW p, NEW d, NEW res \in Finish(p, d)
  PROVE  /\ d.done => res.d = d /\ res.events = <<>>
         /\ ~d.done /\ p = "chat" => res \in ChatDone(d)
         /\ ~d.done /\ p # "chat" =>
              res.d = d /\ res.events = <<Done("stop", d.usage)>>
BY DEF Finish, Result

\* The connection has ended.
LEMMA StreamEnded ==
  ASSUME NEW r \in Announcing, NEW t, NEW d, NEW c, NEW w,
         Streams(r, t, d, c, w), NEW res \in Finish(r.from, d),
         NEW x, x = EncodeAll(r.to, c, res.events)
  PROVE  \E types, live :
           /\ Emitted(r.to, x.c, w \o x.out, res.d.started, types, live, TRUE)
           /\ (\A i \in DOMAIN t : t[i] = <<>>) => live = {}
<1> DEFINE types == TypesNow(r, t, d)
           live == LiveNow(r, d)
<1>1. LeftInv(r, t) /\ DecoderInv(r, t, d)
      /\ Emitted(r.to, c, w, d.started, types, live, d.done)
  BY DEF Streams
<1>2. r.from \in Protocols /\ r.to \in Protocols
  BY ExchangeFacts
<1>3. IsDecoder(d)
  BY <1>1, <1>2 DEF DecoderInv, AnthropicInv, ResponsesInv, ChatInv, Follows,
                    Protocols
<1>4. d.started \in BOOLEAN /\ d.done \in BOOLEAN
  BY <1>3 DEF IsDecoder
<1>5. (\A i \in DOMAIN t : t[i] = <<>>) => d.done = TRUE /\ live = {}
  BY <1>1, AllReceived
<1>6. Runs(r.to, c, w, <<>>, d.started, types, live, d.done)
  BY <1>1, RunNone
<1> HIDE DEF types
<1>7. ASSUME NEW l, Runs(r.to, c, w, res.events, res.d.started, types, l, TRUE),
             (\A i \in DOMAIN t : t[i] = <<>>) => l = {}
      PROVE  \E ts, ls :
               /\ Emitted(r.to, x.c, w \o x.out, res.d.started, ts, ls, TRUE)
               /\ (\A i \in DOMAIN t : t[i] = <<>>) => ls = {}
  <2>1. Emitted(r.to, x.c, w \o x.out, res.d.started, types, l, TRUE)
    BY <1>7, RunWritten
  <2>2. QED
    BY <1>7, <2>1
<1>8. CASE d.done
  <2>1. res.d = d /\ res.events = <<>> /\ d.done = TRUE
    BY <1>4, <1>8, FinishIs
  <2>2. QED
    BY <1>5, <1>6, <1>7, <2>1
<1>9. CASE ~d.done /\ r.from = "chat"
  <2>1. res \in ChatDone(d) /\ d.done = FALSE
    BY <1>4, <1>9, FinishIs
  <2>2. ChatInv(r, t, d)
    BY <1>1, <1>9 DEF DecoderInv
  <2>3. /\ Indexed(d.blocks)
        /\ d.started \/ d.blocks = <<>>
        /\ d.open = OpenChat(d.blocks)
    BY <2>1, <2>2 DEF ChatInv
  <2>4. types = KeyTypes(d.blocks) /\ live = DOMAIN KeyTypes(d.blocks)
    BY <1>9, <2>1 DEF types, TypesNow, LiveNow, LiveChat
  <2>5. Runs(r.to, c, w, <<>>, d.started, KeyTypes(d.blocks),
             DOMAIN KeyTypes(d.blocks), FALSE)
    BY <1>6, <2>1, <2>4
  <2>6. /\ Keeps(d, res.d, d.started, {}, TRUE)
        /\ Runs(r.to, c, w, res.events, d.started, KeyTypes(d.blocks), {}, TRUE)
    BY <1>2, <1>3, <2>1, <2>2, <2>3, <2>5, ChatCloses
  <2>7. res.d.started = d.started
    BY <2>6 DEF Keeps
  <2>8. QED
    BY <1>7, <2>4, <2>6, <2>7
<1>10. CASE ~d.done /\ r.from # "chat"
  <2>1. res.d = d /\ res.events = <<Done("stop", d.usage)>> /\ d.done = FALSE
    BY <1>4, <1>10, FinishIs
  <2>2. Runs(r.to, c, w, <<>>, d.started, types, live, FALSE)
    BY <1>6, <2>1
  <2>3. Runs(r.to, c, w, Append(<<>>, Done("stop", d.usage)), d.started, types,
             live, TRUE)
    BY <1>2, <1>4, <2>2, RunDone
  <2>4. Append(<<>>, Done("stop", d.usage)) = res.events
    BY <2>1, AppendOne
  <2>5. QED
    BY <1>5, <1>7, <2>1, <2>3, <2>4
<1>11. QED
  BY <1>4, <1>8, <1>9, <1>10

-----------------------------------------------------------------------------
(* A document that is rendered as a stream.                                *)

\* The events of block i, of the first k blocks, and the types of these.
BlockSeq(content, i) ==
  <<ContentStart(i - 1, content[i].type, content[i].id),
    ContentDelta(i - 1, content[i].type, content[i].text),
    ContentStop(i - 1)>>
Blocks(content, k) == FlattenSeq([i \in 1..k |-> BlockSeq(content, i)])
FirstTypes(content, k) == [j \in 0..(k - 1) |-> content[j + 1].type]

\* Contents that a stream can be made of.
Contents(content) ==
  /\ IsSeq(content)
  /\ \A i \in 1..Len(content) :
       /\ content[i].type \in ContentTypes
       /\ content[i].type = "tool_call" => content[i].id # -1

\* Three elements.
LEMMA Triples ==
  ASSUME NEW a, NEW b, NEW c
  PROVE  /\ Append(<<a>>, b) = <<a, b>>
         /\ Append(Append(<<a>>, b), c) = <<a, b, c>>
         /\ \A S : a \in S /\ b \in S /\ c \in S => <<a, b, c>> \in Seq(S)
<1>1. \A S : a \in S /\ b \in S /\ c \in S => <<a, b, c>> \in Seq(S)
  OBVIOUS
<1> DEFINE S == {a, b, c}
           u == <<a>>
           v == <<a, b>>
           w == <<a, b, c>>
<1>2. u \in Seq(S) /\ Len(u) = 1 /\ u[1] = a
  OBVIOUS
<1>3. v \in Seq(S) /\ Len(v) = 2 /\ v[1] = a /\ v[2] = b
  OBVIOUS
<1>4. w \in Seq(S) /\ Len(w) = 3 /\ w[1] = a /\ w[2] = b /\ w[3] = c
  OBVIOUS
<1>5. b \in S /\ c \in S
  OBVIOUS
<1> HIDE DEF S, u, v, w
<1>6. Append(u, b) = v
  <2> DEFINE x == Append(u, b)
  <2>1. x \in Seq(S)
    BY <1>2, <1>5
  <2>2. IsSeq(u)
    BY <1>2 DEF IsSeq
  <2>3. Len(x) = Len(u) + 1 /\ x[Len(u) + 1] = b
        /\ \A i \in 1..Len(u) : x[i] = u[i]
    BY <2>2, OneMore
  <2> HIDE DEF x
  <2>4. Len(x) = 2 /\ \A i \in 1..Len(x) : x[i] = v[i]
    BY <1>2, <1>3, <2>3
  <2>5. QED
    BY <1>3, <2>1, <2>4, StreamFold!SeqEqual DEF x
<1>7. Append(v, c) = w
  <2> DEFINE x == Append(v, c)
  <2>1. x \in Seq(S)
    BY <1>3, <1>5
  <2>2. IsSeq(v)
    BY <1>3 DEF IsSeq
  <2>3. Len(x) = Len(v) + 1 /\ x[Len(v) + 1] = c
        /\ \A i \in 1..Len(v) : x[i] = v[i]
    BY <2>2, OneMore
  <2> HIDE DEF x
  <2>4. Len(x) = 3 /\ \A i \in 1..Len(x) : x[i] = w[i]
    BY <1>3, <1>4, <2>3
  <2>5. QED
    BY <1>4, <2>1, <2>4, StreamFold!SeqEqual DEF x
<1>8. QED
  BY <1>1, <1>6, <1>7 DEF u, v, w

\* One block more.
LEMMA BlocksMore ==
  ASSUME NEW content, NEW k \in Nat, IsSeq(Blocks(content, k)),
         NEW a, a = ContentStart(k, content[k + 1].type, content[k + 1].id),
         NEW b, b = ContentDelta(k, content[k + 1].type, content[k + 1].text),
         NEW c, c = ContentStop(k)
  PROVE  Blocks(content, k + 1)
           = Append(Append(Append(Blocks(content, k), a), b), c)
<1> DEFINE S == UNION {{BlockSeq(content, i)[j] : j \in 1..3} :
                        i \in 1..(k + 1)}
           ss == [i \in 1..k |-> BlockSeq(content, i)]
           tt == [i \in 1..(k + 1) |-> BlockSeq(content, i)]
           s == BlockSeq(content, k + 1)
<1>1. \A i \in 1..(k + 1) : BlockSeq(content, i) \in Seq(S)
  <2> SUFFICES ASSUME NEW i \in 1..(k + 1) PROVE BlockSeq(content, i) \in Seq(S)
    OBVIOUS
  <2> DEFINE q == BlockSeq(content, i)
  <2>1. PICK x, y, z : q = <<x, y, z>>
    BY DEF BlockSeq
  <2>2. q[1] \in S /\ q[2] \in S /\ q[3] \in S
    OBVIOUS
  <2> HIDE DEF q, S
  <2>3. q[1] = x /\ q[2] = y /\ q[3] = z
    BY <2>1
  <2>4. q \in Seq(S)
    BY <2>1, <2>2, <2>3, Triples
  <2>5. QED
    BY <2>4 DEF q
<1> HIDE DEF S
<1>2. ss \in Seq(Seq(S)) /\ Len(ss) = k
  BY <1>1
<1>3. s \in Seq(S)
  BY <1>1
<1>4. tt \in Seq(Seq(S)) /\ Len(tt) = k + 1
  BY <1>1
<1>5. tt = Append(ss, s)
  <2> DEFINE uu == Append(ss, s)
             Q == Seq(S)
  <2>1. uu \in Seq(Q) /\ Len(uu) = k + 1
    BY <1>2, <1>3
  <2>2. \A i \in 1..(k + 1) : uu[i] = BlockSeq(content, i)
    BY <1>2, <1>3
  <2>3. \A i \in 1..(k + 1) : tt[i] = BlockSeq(content, i)
    OBVIOUS
  <2>4. tt \in Seq(Q)
    BY <1>4
  <2> HIDE DEF uu, tt, Q
  <2>5. QED
    BY <1>4, <2>1, <2>2, <2>3, <2>4, StreamFold!SeqEqual DEF uu
<1> HIDE DEF ss, tt, s
<1>6. FlattenSeq(tt) = Cat(FlattenSeq(ss), s)
  BY <1>2, <1>3, <1>5, FlattenAppend
<1> DEFINE B == Blocks(content, k)
<1>7. B = FlattenSeq(ss) /\ Blocks(content, k + 1) = FlattenSeq(tt)
  BY DEF Blocks, ss, tt
<1>8. s = Append(Append(<<a>>, b), c)
  <2>1. (k + 1) - 1 = k
    OBVIOUS
  <2>2. s = <<a, b, c>>
    BY <2>1 DEF s, BlockSeq
  <2> HIDE DEF s
  <2>3. QED
    BY <2>2, Triples
<1> HIDE DEF B
<1>9. B \o s = Append(Append(Append(B, a), b), c)
  <2>1. IsSeq(B) /\ IsSeq(<<a>>) /\ IsSeq(Append(<<a>>, b))
    <3>1. IsSeq(Append(<<a>>, b))
      <4>1. Append(<<a>>, b) = <<a, b>>
        BY Triples
      <4>2. QED
        BY <4>1, ShortSeqs
    <3>2. QED
      BY <3>1, ShortSeqs DEF B
  <2>2. B \o <<a>> = Append(B, a)
    BY <2>1, Writing
  <2>3. B \o Append(<<a>>, b) = Append(B \o <<a>>, b)
    BY <2>1, JoinAppend
  <2>4. B \o Append(Append(<<a>>, b), c) = Append(B \o Append(<<a>>, b), c)
    BY <2>1, JoinAppend
  <2>5. QED
    BY <1>8, <2>2, <2>3, <2>4
<1>10. QED
  BY <1>6, <1>7, <1>9 DEF Cat, B

\* The stream of the first k blocks.
LEMMA BlocksWritten ==
  ASSUME NEW p \in Protocols, NEW content, Contents(content), NEW u,
         NEW n, n = Len(content)
  PROVE  /\ n \in Nat /\ IsSeq(Blocks(content, n))
         /\ Runs(p, Collector, <<>>, <<Start(u)>> \o Blocks(content, n), TRUE,
                 FirstTypes(content, n), {}, FALSE)
<1> DEFINE s(k) == <<Start(u)>> \o Blocks(content, k)
           G(k) == /\ IsSeq(Blocks(content, k))
                   /\ Runs(p, Collector, <<>>, s(k), TRUE,
                           FirstTypes(content, k), {}, FALSE)
           N == {k \in Nat : k <= n => G(k)}
<1>1. n \in Nat
  BY DEF Contents, IsSeq
<1>2. 0 \in N
  <2>1. Runs(p, Collector, <<>>, <<>>, FALSE, NoTypes, {}, FALSE)
    BY NothingWritten, RunNone
  <2>2. Runs(p, Collector, <<>>, Append(<<>>, Start(u)), TRUE, NoTypes, {},
             FALSE)
    BY <2>1, RunStart
  <2>3. Blocks(content, 0) = <<>>
    <3> DEFINE ss == [i \in 1..0 |-> BlockSeq(content, i)]
    <3>1. ss = <<>>
      OBVIOUS
    <3>2. Blocks(content, 0) = FlattenSeq(ss)
      BY DEF Blocks
    <3> HIDE DEF ss
    <3>3. QED
      BY <3>1, <3>2, FlattenEmpty
  <2>4. FirstTypes(content, 0) = NoTypes
    <3>1. 0..(0 - 1) = {}
      OBVIOUS
    <3>2. QED
      BY <3>1 DEF FirstTypes, NoTypes
  <2>5. s(0) = Append(<<>>, Start(u))
    <3>1. IsSeq(<<Start(u)>>)
      BY ShortSeqs
    <3>2. <<Start(u)>> \o <<>> = <<Start(u)>>
      BY <3>1, Writing
    <3>3. QED
      BY <2>3, <3>2, AppendOne
  <2> HIDE DEF s
  <2>6. G(0)
    BY <2>2, <2>3, <2>4, <2>5, ShortSeqs
  <2> HIDE DEF G
  <2>7. QED
    BY <2>6
<1>3. ASSUME NEW k \in N PROVE k + 1 \in N
  <2> HIDE DEF G
  <2>1. SUFFICES ASSUME k + 1 <= n PROVE G(k + 1)
    OBVIOUS
  <2> DEFINE B == Blocks(content, k)
             x == content[k + 1]
             a == ContentStart(k, x.type, x.id)
             b == ContentDelta(k, x.type, x.text)
             c == ContentStop(k)
             types == FirstTypes(content, k)
             more == FirstTypes(content, k + 1)
  <2>2. k \in Nat /\ k + 1 \in 1..Len(content) /\ G(k)
    BY <1>1, <2>1
  <2>3. x.type \in ContentTypes /\ (x.type = "tool_call" => x.id # -1)
    BY <2>2 DEF Contents
  <2>4. IsSeq(B) /\ Runs(p, Collector, <<>>, s(k), TRUE, types, {}, FALSE)
    BY <2>2 DEF G
  <2>5. Blocks(content, k + 1) = Append(Append(Append(B, a), b), c)
    <3>1. /\ a = ContentStart(k, content[k + 1].type, content[k + 1].id)
          /\ b = ContentDelta(k, content[k + 1].type, content[k + 1].text)
          /\ c = ContentStop(k)
      OBVIOUS
    <3>2. IsSeq(Blocks(content, k))
      BY <2>4
    <3> HIDE DEF a, b, c, x
    <3>3. QED
      BY <2>2, <3>1, <3>2, BlocksMore
  <2>6. /\ k \notin DOMAIN types
        /\ more = Put(types, k, x.type) /\ more[k] = x.type
    <3>1. DOMAIN types = 0..(k - 1) /\ DOMAIN more = 0..k /\ (k + 1) - 1 = k
      BY <2>2 DEF FirstTypes
    <3>2. k \notin 0..(k - 1) /\ 0..k = 0..(k - 1) \cup {k}
      BY <2>2
    <3>3. more = [j \in 0..k |-> content[j + 1].type]
      BY <3>1 DEF FirstTypes
    <3>4. \A j \in 0..(k - 1) : types[j] = content[j + 1].type
      BY DEF FirstTypes
    <3> HIDE DEF types, more
    <3>5. QED
      BY <3>1, <3>2, <3>3, <3>4 DEF Put
  <2>7. IsSeq(Append(B, a)) /\ IsSeq(Append(Append(B, a), b))
        /\ IsSeq(Append(Append(Append(B, a), b), c))
    <3> HIDE DEF a, b, c, B
    <3>1. QED
      BY <2>4, OneMore
  <2>8. s(k + 1) = Append(Append(Append(s(k), a), b), c)
    <3>1. IsSeq(<<Start(u)>>)
      BY ShortSeqs
    <3> DEFINE h == <<Start(u)>>
    <3> HIDE DEF h, a, b, c, B
    <3>2. h \o Append(B, a) = Append(h \o B, a)
      BY <2>4, <3>1, JoinAppend DEF h
    <3>3. h \o Append(Append(B, a), b) = Append(h \o Append(B, a), b)
      BY <2>7, <3>1, JoinAppend DEF h
    <3>4. h \o Append(Append(Append(B, a), b), c)
            = Append(h \o Append(Append(B, a), b), c)
      BY <2>7, <3>1, JoinAppend DEF h
    <3>5. QED
      BY <2>5, <3>2, <3>3, <3>4 DEF h, B
  <2> HIDE DEF s, x, types, more, B
  <2> DEFINE s1 == Append(s(k), a)
             s2 == Append(s1, b)
             s3 == Append(s2, c)
  <2>9. Runs(p, Collector, <<>>, s1, TRUE, more, {k}, FALSE)
    <3>1. {} \cup {k} = {k}
      OBVIOUS
    <3>2. Runs(p, Collector, <<>>, s1, TRUE, more, {} \cup {k}, FALSE)
      BY <2>3, <2>4, <2>6, RunContentStart
    <3>3. QED
      BY <3>1, <3>2
  <2> HIDE DEF s1
  <2>10. Runs(p, Collector, <<>>, s2, TRUE, more, {k}, FALSE)
    <3>1. k \in {k}
      OBVIOUS
    <3>2. QED
      BY <2>6, <2>9, <3>1, RunDelta
  <2> HIDE DEF s2
  <2>11. Runs(p, Collector, <<>>, s3, TRUE, more, {}, FALSE)
    <3>1. k \in {k} /\ {k} \ {k} = {}
      OBVIOUS
    <3>2. Runs(p, Collector, <<>>, s3, TRUE, more, {k} \ {k}, FALSE)
      BY <2>10, <3>1, RunStop
    <3>3. QED
      BY <3>1, <3>2
  <2> HIDE DEF a, b, c
  <2>12. s(k + 1) = s3
    BY <2>8 DEF s1, s2
  <2>13. IsSeq(Blocks(content, k + 1))
    BY <2>5, <2>7
  <2> HIDE DEF s3
  <2>14. QED
    BY <2>11, <2>12, <2>13 DEF G, more
<1>4. Nat \subseteq N
  <2> HIDE DEF N
  <2>1. QED
    BY <1>2, <1>3, StreamFold!EveryNumber
<1>5. G(n)
  <2> HIDE DEF G
  <2>1. n \in N /\ n <= n
    BY <1>1, <1>4
  <2>2. QED
    BY <2>1
<1>6. QED
  BY <1>1, <1>5

\* A document as a stream.
LEMMA RenderWritten ==
  ASSUME NEW p \in Protocols, NEW response, Contents(response.content)
  PROVE  \E c, types :
           Emitted(p, c, Render(p, response), TRUE, types, {}, TRUE)
<1> DEFINE content == response.content
           n == Len(content)
           u == response.usage
           B == Blocks(content, n)
           s == <<Start(u)>> \o B
           e == Done(response.stop, u)
           x == EncodeAll(p, Collector, Append(s, e))
<1>1. IsSeq(B) /\ Runs(p, Collector, <<>>, s, TRUE, FirstTypes(content, n), {},
                       FALSE)
  BY BlocksWritten
<1>2. Runs(p, Collector, <<>>, Append(s, e), TRUE, FirstTypes(content, n), {},
           TRUE)
  <2> HIDE DEF s
  <2>1. QED
    BY <1>1, RunDone
<1>3. s \o <<e>> = Append(s, e)
  <2>1. IsSeq(s)
    BY <1>1 DEF Runs
  <2> HIDE DEF s, e
  <2>2. QED
    BY <2>1, Writing
<1>4. Render(p, response) = x.out
  <2>1. DOMAIN content = 1..n
    BY DEF Contents, IsSeq
  <2>2. B = FlattenSeq([i \in DOMAIN content |-> BlockSeq(content, i)])
    BY <2>1 DEF Blocks
  <2>3. Render(p, response) = EncodeAll(p, Collector, s \o <<e>>).out
    BY <2>2 DEF Render, BlockSeq
  <2> HIDE DEF s, e
  <2>4. QED
    BY <1>3, <2>3
<1>5. Emitted(p, x.c, <<>> \o x.out, TRUE, FirstTypes(content, n), {}, TRUE)
      /\ IsSeq(x.out)
  BY <1>2 DEF Runs
<1> HIDE DEF x
<1>6. <<>> \o x.out = x.out
  <2>1. PICK S : x.out \in Seq(S)
    BY <1>5 DEF IsSeq
  <2>2. QED
    BY <2>1
<1>7. QED
  BY <1>4, <1>5, <1>6

\* Flattening keeps the type of the elements.
LEMMA FlattenType ==
  ASSUME NEW S, NEW ss \in Seq(Seq(S))
  PROVE  FlattenSeq(ss) \in Seq(S)
<1> DEFINE Q == Seq(S)
           T == {u \in Seq(Q) : FlattenSeq(u) \in Seq(S)}
<1>1. <<>> \in T
  <2>1. <<>> \in Seq(S) /\ <<>> \in Seq(Q)
    OBVIOUS
  <2>2. QED
    BY <2>1, FlattenEmpty
<1>2. ASSUME NEW u \in Seq(Q), NEW s \in Q, u \in T PROVE Append(u, s) \in T
  <2>1. FlattenSeq(Append(u, s)) = Cat(FlattenSeq(u), s)
    BY FlattenAppend
  <2>2. Cat(FlattenSeq(u), s) \in Seq(S)
    BY <1>2, CatType
  <2>3. Append(u, s) \in Seq(Q)
    OBVIOUS
  <2>4. QED
    BY <2>1, <2>2, <2>3
<1>3. Seq(Q) \subseteq T
  <2> HIDE DEF T, Q
  <2>1. QED
    BY <1>1, <1>2, StreamFold!EverySequence
<1>4. QED
  BY <1>3

\* A function on 1..n is a sequence.
LEMMA FunctionSeq ==
  ASSUME NEW n \in Nat, NEW Q, NEW f, f = [i \in 1..n |-> f[i]],
         \A i \in 1..n : f[i] \in Q
  PROVE  f \in Seq(Q)
OBVIOUS

\* What is kept of a sequence has its type.
LEMMA KeptContents ==
  ASSUME NEW S, NEW s \in Seq(S)
  PROVE  /\ \A type : OfType(s, type) \in Seq(S)
         /\ \A p : ReadContent(p, s) \in Seq(S)
<1>1. ASSUME NEW K, K \subseteq DOMAIN s
      PROVE  FlattenSeq([i \in DOMAIN s |-> IF i \in K THEN <<s[i]>> ELSE <<>>])
               \in Seq(S)
  <2> DEFINE ss == [i \in DOMAIN s |-> IF i \in K THEN <<s[i]>> ELSE <<>>]
  <2>1. ss \in Seq(Seq(S))
    <3>1. /\ Len(s) \in Nat /\ DOMAIN s = 1..Len(s)
          /\ ss = [i \in 1..Len(s) |-> ss[i]]
      OBVIOUS
    <3>2. \A i \in 1..Len(s) : ss[i] \in Seq(S)
      BY <3>1
    <3> DEFINE Q == Seq(S)
    <3> HIDE DEF ss, Q
    <3>3. ss \in Seq(Q)
      BY <3>1, <3>2, FunctionSeq DEF Q
    <3>4. QED
      BY <3>3 DEF Q
  <2> HIDE DEF ss
  <2>2. FlattenSeq(ss) \in Seq(S)
    BY <2>1, FlattenType
  <2>3. QED
    BY <2>2 DEF ss
<1>2. ASSUME NEW type PROVE OfType(s, type) \in Seq(S)
  <2> DEFINE K == {i \in DOMAIN s : s[i].type = type}
  <2>1. [i \in DOMAIN s |-> IF i \in K THEN <<s[i]>> ELSE <<>>]
          = [i \in DOMAIN s |-> IF s[i].type = type THEN <<s[i]>> ELSE <<>>]
    OBVIOUS
  <2>2. OfType(s, type)
          = FlattenSeq([i \in DOMAIN s |-> IF i \in K THEN <<s[i]>> ELSE <<>>])
    BY <2>1 DEF OfType, Keep, FlatMap, MapSeq
  <2>3. K \subseteq DOMAIN s
    OBVIOUS
  <2> HIDE DEF K
  <2>4. QED
    BY <1>1, <2>2, <2>3
<1>3. ASSUME NEW p PROVE ReadContent(p, s) \in Seq(S)
  <2> DEFINE K == {i \in DOMAIN s : /\ Legible(p, s[i])
                                    /\ p = "chat" => s[i].type # "reasoning"}
  <2>1. [i \in DOMAIN s |-> IF i \in K THEN <<s[i]>> ELSE <<>>]
          = [i \in DOMAIN s |->
               IF /\ Legible(p, s[i])
                  /\ p = "chat" => s[i].type # "reasoning"
               THEN <<s[i]>> ELSE <<>>]
    OBVIOUS
  <2>2. ReadContent(p, s)
          = FlattenSeq([i \in DOMAIN s |-> IF i \in K THEN <<s[i]>> ELSE <<>>])
    BY <2>1 DEF ReadContent, Keep, FlatMap, MapSeq
  <2>3. K \subseteq DOMAIN s
    OBVIOUS
  <2> HIDE DEF K
  <2>4. QED
    BY <1>1, <2>2, <2>3
<1>4. QED
  BY <1>2, <1>3

\* Contents that a stream can be made of, as a set.
Streamable(x) == x.type \in ContentTypes /\ (x.type = "tool_call" => x.id # -1)

\* A sequence of such contents.
LEMMA StreamableContents ==
  ASSUME NEW S, \A x \in S : Streamable(x), NEW s \in Seq(S)
  PROVE  Contents(s)
<1>1. \A i \in 1..Len(s) : s[i] \in S
  OBVIOUS
<1>2. IsSeq(s)
  BY DEF IsSeq
<1>3. QED
  BY <1>1, <1>2 DEF Contents, Streamable

\* The parts of a message, and the text and the reasoning of a chat message.
LEMMA WholeStreamable ==
  ASSUME NEW r \in Announcing, NEW document,
         document = Document(DocumentContent(r.from, Whole(r)), r.stop,
                             RealUsage)
  PROVE  Contents(DecodeResponse(r.from, document).content)
<1> DEFINE w == Whole(r)
           Part(i) == PartContent(r.message[i], i, Length(r, r.message[i]))
           a == Content("text", -1, TextOf(w, "text"))
           b == Content("reasoning", -1, TextOf(w, "reasoning"))
           M == {Part(i) : i \in Parts(r)} \cup {a, b}
           S == {x \in M : Streamable(x)}
<1>1. /\ r.from \in Protocols /\ r.message \in Seq(PartKinds)
      /\ DOMAIN r.message = Parts(r)
      /\ \A i \in Parts(r) : r.message[i] \in PartKinds
  BY ExchangeFacts DEF Parts
<1>2. a \in S /\ b \in S
  BY DEF Streamable, Content, ContentTypes
<1>3. ASSUME NEW i \in Parts(r), r.message[i] # "redacted"
      PROVE  Part(i) \in S
  <2>1. r.message[i] \in ContentTypes
    BY <1>1, <1>3 DEF PartKinds
  <2>2. i # -1
    BY DEF Parts
  <2>3. Streamable(Part(i))
    BY <2>1, <2>2 DEF Streamable, PartContent, Content
  <2>4. QED
    BY <2>3
<1>4. w \in Seq(S)
  <2> DEFINE ss == [i \in DOMAIN r.message |->
                      IF r.message[i] = "redacted" THEN <<>>
                      ELSE <<Part(i)>>]
  <2>1. ss \in Seq(Seq(S))
    <3>1. /\ Len(r.message) \in Nat /\ DOMAIN ss = 1..Len(r.message)
          /\ ss = [i \in 1..Len(r.message) |-> ss[i]]
      BY <1>1
    <3>2. ASSUME NEW i \in 1..Len(r.message) PROVE ss[i] \in Seq(S)
      <4>1. i \in Parts(r) /\ i \in DOMAIN r.message
        BY <1>1, <3>2 DEF Parts
      <4>2. CASE r.message[i] = "redacted"
        BY <4>1, <4>2
      <4>3. CASE r.message[i] # "redacted"
        <5> DEFINE x == Part(i)
        <5>1. x \in S
          BY <1>3, <4>1, <4>3
        <5>2. ss[i] = <<x>>
          BY <4>1, <4>3
        <5> HIDE DEF x, ss, S
        <5>3. QED
          BY <5>1, <5>2
      <4>4. QED
        BY <4>2, <4>3
    <3> DEFINE Q == Seq(S)
    <3> HIDE DEF ss, Q
    <3>3. ss \in Seq(Q)
      BY <3>1, <3>2, FunctionSeq DEF Q
    <3>4. QED
      BY <3>3 DEF Q
  <2>2. w = FlattenSeq(ss)
    BY DEF Whole
  <2> HIDE DEF ss, w, S
  <2>3. QED
    BY <2>1, <2>2, FlattenType
<1> HIDE DEF w
<1>5. \A x \in S : Streamable(x)
  OBVIOUS
<1> HIDE DEF S
<1>6. ASSUME NEW s \in Seq(S) PROVE Contents(s)
  BY <1>5, StreamableContents
<1>7. document.content \in Seq(S)
  <2>1. document.content = DocumentContent(r.from, w)
    BY DEF Document, w
  <2>2. CASE r.from # "chat"
    BY <1>4, <2>1, <2>2 DEF DocumentContent
  <2>3. CASE r.from = "chat"
    <3> DEFINE t == Merged(w, "text")
               g == Merged(w, "reasoning")
               c == OfType(w, "tool_call")
               d == (t \o g) \o c
    <3>1. t \in Seq(S)
      BY <1>2 DEF Merged
    <3>2. g \in Seq(S)
      BY <1>2 DEF Merged
    <3>3. c \in Seq(S)
      BY <1>4, KeptContents
    <3>4. document.content = d
      BY <2>1, <2>3 DEF DocumentContent, ChatMessage
    <3> HIDE DEF t, g, c
    <3>5. QED
      BY <3>1, <3>2, <3>3, <3>4
  <2>4. QED
    BY <2>2, <2>3
<1>8. DecodeResponse(r.from, document).content
        = ReadContent(r.from, document.content)
  <2>1. CASE r.from = "chat"
    BY <2>1 DEF DecodeResponse, DecodeChatResponse, Document
  <2>2. CASE r.from = "anthropic"
    BY <2>2 DEF DecodeResponse, DecodeAnthropicResponse, Document
  <2>3. CASE r.from = "responses"
    BY <2>3 DEF DecodeResponse, DecodeResponsesResponse, Document
  <2>4. QED
    BY <1>1, <2>1, <2>2, <2>3 DEF Protocols
<1>9. ReadContent(r.from, document.content) \in Seq(S)
  BY <1>7, KeptContents
<1>10. QED
  BY <1>6, <1>8, <1>9

-----------------------------------------------------------------------------
(* The gateway.                                                            *)

\* StreamIsWellFormed, of any events for a client of p: whether they must have
\* begun, and whether they have ended.
WellFormed(p, w, begun, ended) ==
  /\ \A k \in DOMAIN w :
       /\ Begins(w[k]) => k = 1
       /\ k = 1 /\ begun => Begins(w[1])
       /\ Opens(w[k]) =>
            \A j \in 1..(k - 1) : Opens(w[j]) => w[j].index # w[k].index
       /\ Extends(w[k]) \/ Closes(w[k]) => OpenIn(w, k, w[k].index)
       /\ Ends(w[k]) => k = Len(w)
  /\ ended =>
       /\ Ends(w[Len(w)])
       /\ p # "chat" =>
            \A k \in DOMAIN w :
              Opens(w[k]) => ~OpenIn(w, Len(w) + 1, w[k].index)

\* What an encoder has written is well formed.
LEMMA WrittenWell ==
  ASSUME NEW p, NEW c, NEW w, NEW begun, NEW types, NEW live, NEW over,
         Emitted(p, c, w, begun, types, live, over),
         NEW starts, starts => begun,
         NEW ended, ended => over /\ live = {}
  PROVE  WellFormed(p, w, starts, ended)
<1>1. Tidy(w, begun, Opened(p, types), Open(p, types, live), over)
  BY DEF Emitted
<1>2. DOMAIN w = 1..Len(w)
  <2>1. IsSeq(w)
    BY <1>1 DEF Tidy
  <2>2. QED
    BY <2>1 DEF IsSeq
<1>3. ASSUME NEW k \in DOMAIN w
      PROVE  /\ Begins(w[k]) => k = 1
             /\ k = 1 /\ starts => Begins(w[1])
             /\ Opens(w[k]) =>
                  \A j \in 1..(k - 1) : Opens(w[j]) => w[j].index # w[k].index
             /\ Extends(w[k]) \/ Closes(w[k]) => OpenIn(w, k, w[k].index)
             /\ Ends(w[k]) => k = Len(w)
  BY <1>1, <1>2 DEF Tidy
<1>4. ASSUME ended PROVE Ends(w[Len(w)])
  BY <1>1, <1>4 DEF Tidy
<1>5. ASSUME ended, p # "chat", NEW k \in DOMAIN w, Opens(w[k])
      PROVE  ~OpenIn(w, Len(w) + 1, w[k].index)
  <2>1. Open(p, types, live) = {}
    BY <1>5 DEF Open
  <2>2. QED
    BY <1>1, <1>2, <1>5, <2>1 DEF Tidy
<1>6. QED
  BY <1>3, <1>4, <1>5 DEF WellFormed

\* Nothing has been written.
LEMMA NothingWell == \A p, starts : WellFormed(p, <<>>, starts, FALSE)
<1>1. DOMAIN <<>> = {}
  OBVIOUS
<1>2. QED
  BY <1>1 DEF WellFormed

\* What has been written of a stream that is well formed, before its last event.
LEMMA PrefixWell ==
  ASSUME NEW p, NEW w, IsSeq(w), NEW starts, NEW ended,
         WellFormed(p, w, starts, ended), NEW n \in 0..(Len(w) - 1)
  PROVE  WellFormed(p, SubSeq(w, 1, n), starts, FALSE)
<1> DEFINE v == SubSeq(w, 1, n)
<1>1. Len(w) \in Nat /\ DOMAIN w = 1..Len(w)
  BY DEF IsSeq
<1>2. /\ DOMAIN v = 1..n
      /\ \A k \in 1..n : v[k] = w[k]
  <2>1. PICK S : w \in Seq(S)
    BY DEF IsSeq
  <2>2. v \in Seq(S) /\ Len(v) = n /\ \A k \in 1..n : v[k] = w[k]
    BY <1>1, <2>1
  <2> HIDE DEF v
  <2>3. QED
    BY <2>2
<1> HIDE DEF v
<1>3. ASSUME NEW k \in 1..n, NEW index
      PROVE  OpenIn(v, k, index) <=> OpenIn(w, k, index)
  <2>1. \A j \in 1..(k - 1) : j \in 1..n /\ v[j] = w[j]
    BY <1>2
  <2>2. \A j \in 1..(k - 1) : \A l \in (j + 1)..(k - 1) : v[l] = w[l]
    BY <1>2
  <2>3. QED
    BY <2>1, <2>2 DEF OpenIn
<1>4. ASSUME NEW k \in DOMAIN v
      PROVE  /\ k \in DOMAIN w /\ v[k] = w[k] /\ k \in 1..n
             /\ v[1] = w[1] /\ k # Len(w)
             /\ \A j \in 1..(k - 1) : v[j] = w[j]
  BY <1>1, <1>2
<1>5. ASSUME NEW k \in DOMAIN v
      PROVE  /\ Begins(v[k]) => k = 1
             /\ k = 1 /\ starts => Begins(v[1])
             /\ Opens(v[k]) =>
                  \A j \in 1..(k - 1) : Opens(v[j]) => v[j].index # v[k].index
             /\ Extends(v[k]) \/ Closes(v[k]) => OpenIn(v, k, v[k].index)
             /\ Ends(v[k]) => k = Len(v)
  BY <1>3, <1>4 DEF WellFormed
<1>6. WellFormed(p, v, starts, FALSE)
  BY <1>5 DEF WellFormed
<1>7. QED
  BY <1>6 DEF v

\* What the handler has written, in terms of the events.
LEMMA WellFormedNow ==
  StreamIsWellFormed
    <=> (IsStream /\ ~Native /\ req.announced =>
           WellFormed(req.to, out, gives = "stream" => dec.started,
                      outcome = "answered"))
BY DEF StreamIsWellFormed, WellFormed, IsOpen, OpenIn

\* The same of the next state.
LEMMA WellFormedThen ==
  StreamIsWellFormed'
    <=> (IsStream' /\ ~Native' /\ req'.announced =>
           WellFormed(req'.to, out', gives' = "stream" => dec'.started,
                      outcome' = "answered"))
BY DEF StreamIsWellFormed, WellFormed, IsOpen, OpenIn

\* Until the handler has answered, what it has is what it began with, or a
\* stream that it relays.
StreamInv ==
  /\ req \in Exchanges
  /\ handler \in {"received", "calling", "relaying", "reading", "done"}
  /\ handler # "done" => outcome = ""
  /\ handler \in {"received", "calling"} =>
       gives = "" /\ dec = Decoder /\ col = Collector /\ out = <<>>
  /\ handler = "reading" =>
       gives = "document" /\ out = <<>> /\ req.announced
  /\ handler = "relaying" => gives = "stream"
  /\ handler = "relaying" /\ Relays /\ ~Native /\ req.announced =>
       Streams(req, todo, dec, col, out)
  /\ handler = "done" => StreamIsWellFormed

\* A stream that is being relayed is well formed.
LEMMA RelayedWell ==
  ASSUME NEW r \in Announcing, NEW t, NEW d, NEW c, NEW w,
         Streams(r, t, d, c, w)
  PROVE  WellFormed(r.to, w, d.started, FALSE)
<1>1. Emitted(r.to, c, w, d.started, TypesNow(r, t, d), LiveNow(r, d), d.done)
  BY DEF Streams
<1>2. QED
  BY <1>1, WrittenWell

\* The invariant implies that the stream is well formed.
LEMMA StreamInvWell == StreamInv => StreamIsWellFormed
<1>1. SUFFICES ASSUME StreamInv, handler # "done", IsStream, ~Native,
                      req.announced
               PROVE  WellFormed(req.to, out, gives = "stream" => dec.started,
                                 FALSE)
  <2>1. ASSUME StreamInv, handler # "done" PROVE outcome = ""
    BY <2>1 DEF StreamInv
  <2>2. ASSUME StreamInv, handler = "done" PROVE StreamIsWellFormed
    BY <2>2 DEF StreamInv
  <2>3. ASSUME StreamInv, handler # "done" PROVE StreamIsWellFormed
    <3>1. (outcome = "answered") = FALSE
      BY <2>1, <2>3
    <3>2. QED
      BY <1>1, <2>3, <3>1, WellFormedNow
  <2>4. QED
    BY <2>2, <2>3
<1>2. CASE handler \in {"received", "calling"}
  BY <1>1, <1>2 DEF StreamInv, IsStream, Relays
<1>3. CASE handler = "reading"
  BY <1>1, <1>3, NothingWell DEF StreamInv
<1>4. CASE handler = "relaying"
  <2>1. gives = "stream" /\ Relays /\ req \in Announcing
    BY <1>1, <1>4 DEF StreamInv, IsStream, Announcing
  <2>2. Streams(req, todo, dec, col, out)
    BY <1>1, <1>4, <2>1 DEF StreamInv
  <2>3. WellFormed(req.to, out, dec.started, FALSE)
    BY <2>1, <2>2, RelayedWell
  <2>4. QED
    BY <2>1, <2>3 DEF WellFormed
<1>5. QED
  BY <1>1, <1>2, <1>3, <1>4 DEF StreamInv

\* A handler that returns before the provider has answered.
LEMMA StreamInvRefused ==
  ASSUME StreamInv, handler \in {"received", "calling"}, handler' = "done",
         UNCHANGED <<req, gives, todo, dec, col, out>>
  PROVE  StreamInv'
<1>1. gives' = "" /\ req' \in Exchanges
  BY DEF StreamInv
<1>2. StreamIsWellFormed'
  BY <1>1 DEF StreamIsWellFormed, IsStream, Relays
<1>3. QED
  BY <1>1, <1>2 DEF StreamInv

\* The provider is called.
LEMMA StreamInvCall ==
  ASSUME StreamInv, CallUpstream
  PROVE  StreamInv'
BY DEF StreamInv, CallUpstream

\* The provider answers, with a stream or a document.
LEMMA StreamInvAnswers ==
  ASSUME StreamInv, UpstreamAnswers
  PROVE  StreamInv'
<1>1. PICK g \in {"stream", "document"} :
        /\ CanGive(req, g)
        /\ gives' = g
        /\ handler' = IF g = "stream" THEN "relaying" ELSE "reading"
        /\ todo' = IF g = "stream" THEN Script(req) ELSE <<>>
  BY DEF UpstreamAnswers
<1>2. /\ handler = "calling"
      /\ UNCHANGED <<req, dec, col, out, outcome>>
  BY DEF UpstreamAnswers
<1>3. /\ req \in Exchanges /\ dec = Decoder /\ col = Collector /\ out = <<>>
      /\ outcome = ""
  BY <1>2 DEF StreamInv
<1>4. req.announced => Streams(req, Script(req), dec, col, out)
  BY <1>3, NothingSent DEF Announcing
<1>5. g = "stream" /\ req'.announced => Streams(req', todo', dec', col', out')
  BY <1>1, <1>2, <1>4
<1>6. g = "document" => req'.announced
  BY <1>1, <1>2 DEF CanGive
<1>7. QED
  BY <1>1, <1>2, <1>3, <1>5, <1>6 DEF StreamInv

\* One event of the provider is relayed.
LEMMA StreamInvRelay ==
  ASSUME StreamInv, NEW i \in DOMAIN todo, RelayEvent(i)
  PROVE  StreamInv'
<1> DEFINE e == Head(todo[i])
<1>1. /\ handler = "relaying" /\ Ready(i)
      /\ todo' = [todo EXCEPT ![i] = Tail(@)]
      /\ UNCHANGED <<req, handler, gives, outcome>>
  BY DEF RelayEvent
<1>2. PICK res \in Decode(req.from, dec, e) :
        dec' = res.d /\ Emit(res.events, <<e>>)
  BY DEF RelayEvent
<1>3. req \in Exchanges /\ gives = "stream" /\ outcome = ""
  BY <1>1 DEF StreamInv
<1>4. ASSUME Relays, ~Native, req.announced
      PROVE  Streams(req', todo', dec', col', out')
  <2> DEFINE x == EncodeAll(req.to, col, res.events)
  <2>1. col' = x.c /\ out' = out \o x.out
    BY <1>2, <1>4 DEF Emit
  <2>2. /\ Streams(req, todo, dec, col, out) /\ req.from # req.to
        /\ req \in Announcing
    BY <1>1, <1>3, <1>4 DEF StreamInv, Native, Announcing
  <2>3. ReadyIn(req, todo, i)
    BY <1>1 DEF Ready, ReadyIn
  <2> HIDE DEF x
  <2>4. Streams(req, todo', res.d, x.c, out \o x.out)
    BY <1>1, <1>3, <2>2, <2>3, EventRelayed DEF x
  <2>5. QED
    BY <1>1, <1>2, <2>1, <2>4
<1>5. Relays' = Relays /\ Native' = Native
  BY <1>1 DEF Relays, Native
<1>6. QED
  BY <1>1, <1>3, <1>4, <1>5 DEF StreamInv

\* The stream ends where the provider or the connection ended it.
LEMMA StreamInvEnds ==
  ASSUME StreamInv, EndOfStream
  PROVE  StreamInv'
<1>1. handler = "relaying" /\ UNCHANGED <<req, gives, todo>>
  BY DEF EndOfStream
<1>2. handler' = "done" /\ (outcome' = "answered" => AllSent)
  BY DEF EndOfStream, End, Return
<1>3. PICK res \in Finish(req.from, dec) :
        /\ dec' = res.d
        /\ Relays => Emit(res.events, <<>>)
  BY DEF EndOfStream
<1>4. req \in Exchanges /\ gives = "stream"
  BY <1>1 DEF StreamInv
<1>5. ASSUME Relays, ~Native, req.announced
      PROVE  WellFormed(req.to, out', dec'.started, outcome' = "answered")
  <2> DEFINE x == EncodeAll(req.to, col, res.events)
  <2>1. col' = x.c /\ out' = out \o x.out
    BY <1>3, <1>5 DEF Emit
  <2>2. Streams(req, todo, dec, col, out) /\ req \in Announcing
    BY <1>1, <1>4, <1>5 DEF StreamInv, Announcing
  <2> HIDE DEF x
  <2>3. PICK types, live :
          /\ Emitted(req.to, x.c, out \o x.out, res.d.started, types, live,
                     TRUE)
          /\ (\A i \in DOMAIN todo : todo[i] = <<>>) => live = {}
    BY <2>2, StreamEnded DEF x
  <2>4. outcome' = "answered" => live = {}
    BY <1>2, <2>3 DEF AllSent
  <2>5. Emitted(req.to, x.c, out', dec'.started, types, live, TRUE)
    BY <1>3, <2>1, <2>3
  <2>6. QED
    BY <2>4, <2>5, WrittenWell
<1>6. StreamIsWellFormed'
  <2>1. ASSUME IsStream', ~Native', req'.announced
        PROVE  WellFormed(req'.to, out', gives' = "stream" => dec'.started,
                          outcome' = "answered")
    <3>1. Relays /\ ~Native /\ req.announced
      BY <1>1, <1>4, <2>1 DEF IsStream, Relays, Native
    <3>2. WellFormed(req.to, out', dec'.started, outcome' = "answered")
      BY <1>5, <3>1
    <3>3. QED
      BY <1>1, <1>4, <3>2 DEF WellFormed
  <2>2. QED
    BY <2>1, WellFormedThen
<1>7. QED
  BY <1>1, <1>2, <1>4, <1>6 DEF StreamInv

\* A stream that fails, or whose client has gone.
LEMMA StreamInvCut ==
  ASSUME StreamInv, handler = "relaying", handler' = "done",
         outcome' = "failed", UNCHANGED <<req, gives, dec, out>>
  PROVE  StreamInv'
<1>1. req \in Exchanges /\ gives = "stream" /\ (outcome' = "answered") = FALSE
  BY DEF StreamInv
<1>2. ASSUME IsStream', ~Native', req'.announced
      PROVE  WellFormed(req'.to, out', gives' = "stream" => dec'.started,
                        outcome' = "answered")
  <2>1. Relays /\ ~Native /\ req \in Announcing
    BY <1>1, <1>2 DEF IsStream, Relays, Native, Announcing
  <2>2. WellFormed(req.to, out, dec.started, FALSE)
    BY <1>1, <2>1, RelayedWell DEF StreamInv, Announcing
  <2>3. QED
    BY <1>1, <2>2 DEF WellFormed
<1>3. StreamIsWellFormed'
  BY <1>2, WellFormedThen
<1>4. QED
  BY <1>1, <1>3 DEF StreamInv

\* A document that cannot be read.
LEMMA StreamInvUnread ==
  ASSUME StreamInv, DocumentFails
  PROVE  StreamInv'
<1>1. /\ handler = "reading" /\ handler' = "done" /\ outcome' = "failed"
      /\ UNCHANGED <<req, out>>
  BY DEF DocumentFails, End, Return
<1>2. out = <<>> /\ req \in Exchanges
  BY <1>1 DEF StreamInv
<1>3. (outcome' = "answered") = FALSE
  BY <1>1
<1>4. WellFormed(req'.to, out', gives' = "stream" => dec'.started, FALSE)
  BY <1>1, <1>2, NothingWell
<1>5. StreamIsWellFormed'
  BY <1>3, <1>4, WellFormedThen
<1>6. QED
  BY <1>1, <1>2, <1>5 DEF StreamInv

\* A document that is translated.
LEMMA StreamInvTranslated ==
  ASSUME StreamInv, TranslateDocument
  PROVE  StreamInv'
<1> DEFINE read == DecodeResponse(req.from, WholeDocument)
<1>1. /\ handler = "reading" /\ handler' = "done" /\ UNCHANGED <<req, gives>>
      /\ req.stream => out' = Render(req.to, read)
  BY DEF TranslateDocument, End, Return
<1>2. req \in Exchanges /\ req \in Announcing /\ gives = "document"
  BY <1>1 DEF StreamInv, Announcing
<1>3. ASSUME req.stream
      PROVE  WellFormed(req.to, out', TRUE, TRUE)
  <2>1. Contents(read.content)
    BY <1>2, WholeStreamable DEF WholeDocument
  <2>2. req.to \in Protocols
    BY <1>2, ExchangeFacts
  <2> HIDE DEF read
  <2>3. PICK c, types :
          Emitted(req.to, c, Render(req.to, read), TRUE, types, {}, TRUE)
    BY <2>1, <2>2, RenderWritten
  <2>4. Emitted(req.to, c, out', TRUE, types, {}, TRUE)
    BY <1>1, <1>3, <2>3
  <2>5. QED
    BY <2>4, WrittenWell
<1>4. ASSUME IsStream', ~Native'
      PROVE  WellFormed(req'.to, out', gives' = "stream" => dec'.started,
                        outcome' = "answered")
  <2>1. req.stream
    BY <1>1, <1>2, <1>4 DEF IsStream, Relays
  <2>2. WellFormed(req.to, out', TRUE, TRUE)
    BY <1>3, <2>1
  <2>3. QED
    BY <1>1, <2>2 DEF WellFormed
<1>5. StreamIsWellFormed'
  BY <1>4, WellFormedThen
<1>6. QED
  BY <1>1, <1>2, <1>5 DEF StreamInv

\* A rendered stream whose client has gone.
LEMMA StreamInvBroken ==
  ASSUME StreamInv, RenderBroken
  PROVE  StreamInv'
<1> DEFINE w == Render(req.to, DecodeResponse(req.from, WholeDocument))
<1>1. /\ handler = "reading" /\ handler' = "done" /\ UNCHANGED <<req, gives>>
      /\ outcome' = "failed"
      /\ \E n \in 0..(Len(w) - 1) : out' = SubSeq(w, 1, n)
  BY DEF RenderBroken, End, Return
<1>2. req \in Exchanges /\ req \in Announcing /\ gives = "document"
  BY <1>1 DEF StreamInv, Announcing
<1>3. IsSeq(w) /\ WellFormed(req.to, w, TRUE, TRUE)
  <2> DEFINE read == DecodeResponse(req.from, WholeDocument)
  <2>1. Contents(read.content)
    BY <1>2, WholeStreamable DEF WholeDocument
  <2>2. req.to \in Protocols
    BY <1>2, ExchangeFacts
  <2>3. w = Render(req.to, read)
    OBVIOUS
  <2> HIDE DEF read, w
  <2>4. PICK c, types : Emitted(req.to, c, w, TRUE, types, {}, TRUE)
    BY <2>1, <2>2, <2>3, RenderWritten
  <2>5. IsSeq(w)
    BY <2>4 DEF Emitted, Tidy
  <2>6. QED
    BY <2>4, <2>5, WrittenWell
<1> HIDE DEF w
<1>4. WellFormed(req.to, out', TRUE, FALSE)
  BY <1>1, <1>3, PrefixWell
<1>5. WellFormed(req'.to, out', gives' = "stream" => dec'.started, FALSE)
  BY <1>1, <1>4 DEF WellFormed
<1>6. (outcome' = "answered") = FALSE
  BY <1>1
<1>7. StreamIsWellFormed'
  BY <1>5, <1>6, WellFormedThen
<1>8. QED
  BY <1>1, <1>2, <1>7 DEF StreamInv

\* A step of the gateway.
LEMMA StreamInvStep ==
  ASSUME StreamInv, [GatewayNext]_gatewayVars
  PROVE  StreamInv'
<1>1. CASE Refuse
  BY <1>1, StreamInvRefused DEF Refuse, Return
<1>2. CASE RejectRequest
  BY <1>2, StreamInvRefused DEF RejectRequest, End, Return
<1>3. CASE RequestNotBuilt
  BY <1>3, StreamInvRefused DEF RequestNotBuilt, End, Return
<1>4. CASE CallUpstream
  BY <1>4, StreamInvCall
<1>5. CASE CallFails
  BY <1>5, StreamInvRefused DEF CallFails, End, Return
<1>6. CASE UpstreamAnswers
  BY <1>6, StreamInvAnswers
<1>7. ASSUME NEW i \in DOMAIN todo, RelayEvent(i) PROVE StreamInv'
  BY <1>7, StreamInvRelay
<1>8. CASE EndOfStream
  BY <1>8, StreamInvEnds
<1>9. CASE StreamFails
  BY <1>9, StreamInvCut DEF StreamFails, End, Return
<1>10. CASE ClientGone
  BY <1>10, StreamInvCut DEF ClientGone, End, Return
<1>11. CASE DocumentFails
  BY <1>11, StreamInvUnread
<1>12. CASE CopyDocument
  <2>1. /\ handler' = "done" /\ UNCHANGED req /\ req \in Exchanges /\ Native
    BY <1>12 DEF CopyDocument, End, Return, StreamInv
  <2>2. Native'
    BY <2>1 DEF Native
  <2>3. StreamIsWellFormed'
    BY <2>2 DEF StreamIsWellFormed
  <2>4. QED
    BY <2>1, <2>3 DEF StreamInv
<1>13. CASE TranslateDocument
  BY <1>13, StreamInvTranslated
<1>14. CASE RenderBroken
  BY <1>14, StreamInvBroken
<1>15. CASE UNCHANGED gatewayVars
  <2>1. UNCHANGED <<req, handler, gives, todo, dec, col, out, outcome>>
    BY <1>15 DEF gatewayVars
  <2>2. /\ Relays' = Relays /\ Native' = Native /\ IsStream' = IsStream
    BY <2>1 DEF Relays, Native, IsStream
  <2>3. StreamIsWellFormed => StreamIsWellFormed'
    BY <2>1, <2>2, WellFormedNow, WellFormedThen
  <2>4. QED
    BY <2>1, <2>2, <2>3 DEF StreamInv
<1>16. QED
  BY <1>1, <1>2, <1>3, <1>4, <1>5, <1>6, <1>7, <1>8, <1>9, <1>10, <1>11, <1>12,
     <1>13, <1>14, <1>15 DEF GatewayNext

\* Whatever the two protocols, the parts of a provider that announces its content
\* parts and the order of their chunks, and wherever its stream is cut: the one
\* that the proxy makes for a client begins with its opening event, opens every
\* block once and extends or closes only blocks that are open, and says nothing
\* after its end; a complete one has ended with every block closed.
THEOREM StreamWellFormed == GatewaySpec => []StreamIsWellFormed
<1>1. GatewayInit => StreamInv
  BY DEF GatewayInit, StreamInv
<1>2. StreamInv /\ [GatewayNext]_gatewayVars => StreamInv'
  BY StreamInvStep
<1>3. StreamInv => StreamIsWellFormed
  BY StreamInvWell
<1>4. QED
  BY <1>1, <1>2, <1>3, PTL DEF GatewaySpec
=============================================================================

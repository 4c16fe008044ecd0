--------------------------- MODULE AcpClientProofs ---------------------------
(***************************************************************************)
(* Theorems about the ACP client, for every set of calls, agent requests   *)
(* and closers, every number of updates and every channel capacity: type   *)
(* correctness, the inductive invariant, part by part, and the refinement  *)
(* of RpcClient.                                                           *)
(***************************************************************************)
EXTENDS AcpClient, TLAPS

-----------------------------------------------------------------------------
(* Type correctness.                                                       *)

\* What taking the first element of a queue gives and leaves.
LEMMA HeadTail ==
  ASSUME NEW S, NEW s \in Seq(S), s # <<>>
  PROVE  /\ Head(s) \in S
         /\ Tail(s) \in Seq(S)
         /\ Len(Tail(s)) = Len(s) - 1
         /\ \A i \in 1..Len(Tail(s)) : Tail(s)[i] = s[i + 1]
         /\ Head(s) = s[1]
OBVIOUS

\* A frame that is read has the identifier its kind calls for.
LEMMA HeadFrame ==
  ASSUME ReaderTypeOK, wire # <<>>
  PROVE  /\ Tail(wire) \in Seq(Frames)
         /\ Head(wire).kind = "answer" => Head(wire).id \in Calls
         /\ Head(wire).kind = "update" => Head(wire).id \in 1..MaxUpdates
         /\ Head(wire).kind = "ask" => Head(wire).id \in Asks
<1>1. Head(wire) \in Frames /\ Tail(wire) \in Seq(Frames)
  BY DEF ReaderTypeOK
<1>2. QED
  BY <1>1 DEF Frames

\* What leaves a group of variables alone keeps its types.
LEMMA SameTypes ==
  ASSUME TypeOK
  PROVE  /\ UNCHANGED callVars => CallTypeOK'
         /\ UNCHANGED closeVars => CloseTypeOK'
         /\ UNCHANGED <<readerVars, wire>> => ReaderTypeOK'
         /\ UNCHANGED updateVars => UpdateTypeOK'
         /\ UNCHANGED <<askPc, agentVars>> => AgentTypeOK'
<1>1. UNCHANGED callVars => CallTypeOK'
  BY DEF TypeOK, CallTypeOK, callVars
<1>2. UNCHANGED closeVars => CloseTypeOK'
  BY DEF TypeOK, CloseTypeOK, closeVars
<1>3. UNCHANGED <<readerVars, wire>> => ReaderTypeOK'
  BY DEF TypeOK, ReaderTypeOK, readerVars
<1>4. UNCHANGED updateVars => UpdateTypeOK'
  BY DEF TypeOK, UpdateTypeOK, updateVars
<1>5. UNCHANGED <<askPc, agentVars>> => AgentTypeOK'
  BY DEF TypeOK, AgentTypeOK, agentVars
<1>6. QED
  BY <1>1, <1>2, <1>3, <1>4, <1>5

\* The actions of sendRecv (client.go:79-115) keep the types.
LEMMA SendRecvType ==
  ASSUME TypeOK, NEW c \in Calls, Register(c) \/ SendRecvStep(c)
  PROVE  TypeOK'
<1>1. UNCHANGED <<closeVars, readerVars, updateVars, askPc, wire>>
  BY DEF Register, SendRecvStep, SendRequest, SendFails, SelectResponse,
         SelectClosed, Park, RemovePending, agentVars
<1>2. CallTypeOK'
  BY DEF TypeOK, CallTypeOK, CallPcs, Outcomes, Register, SendRecvStep,
         SendRequest, SendFails, SelectResponse, SelectClosed, Park,
         RemovePending
<1>3. AgentTypeOK'
  BY DEF TypeOK, AgentTypeOK, agentVars, Register, SendRecvStep, SendRequest,
         SendFails, SelectResponse, SelectClosed, Park, RemovePending
<1>4. QED
  BY <1>1, <1>2, <1>3, SameTypes DEF TypeOK

\* A send on a call's channel keeps the types.
LEMMA SendToType ==
  ASSUME CallTypeOK, NEW c, NEW v \in {"answer", "closed"}, SendTo(c, v)
  PROVE  /\ callPc' \in [Calls -> CallPcs]
         /\ outcome' \in [Calls -> Outcomes]
         /\ respCh' \in [Calls -> {None, "answer", "closed"}]
BY DEF SendTo, CallTypeOK, CallPcs, Outcomes

\* The actions of readLoop (client.go:117-178) keep the types.
LEMMA ReadLoopType ==
  ASSUME ClientAssumption, TypeOK, ReadLoop
  PROVE  TypeOK'
<1>1. CASE RecvAnswer
  <2>1. ReaderTypeOK'
    BY <1>1, HeadFrame DEF RecvAnswer, TypeOK, ReaderTypeOK, readerVars
  <2>2. QED
    BY <1>1, <2>1, SameTypes DEF RecvAnswer, TypeOK
<1>2. CASE Deliver
  <2>1. CallTypeOK'
    BY <1>2, SendToType DEF Deliver, TypeOK, CallTypeOK
  <2>2. ReaderTypeOK'
    BY <1>2 DEF Deliver, TypeOK, ReaderTypeOK
  <2>3. QED
    BY <1>2, <2>1, <2>2, SameTypes DEF Deliver, TypeOK
<1>3. CASE RecvUpdate
  <2>1. Head(wire).id \in 1..MaxUpdates /\ ReaderTypeOK'
    BY <1>3, HeadFrame DEF RecvUpdate, TypeOK, ReaderTypeOK, readerVars
  <2>2. updates' \in Seq(1..MaxUpdates) /\ Len(updates') <= UpdateCap
    <3>1. CASE updates' = updates
      BY <3>1 DEF TypeOK, UpdateTypeOK
    <3>2. CASE /\ Len(updates) < UpdateCap
               /\ updates' = Append(updates, Head(wire).id)
      BY <2>1, <3>2 DEF TypeOK, UpdateTypeOK, ClientAssumption
    <3>3. QED
      BY <1>3, <3>1, <3>2 DEF RecvUpdate, SessionUpdate
  <2>3. UpdateTypeOK'
    BY <1>3, <2>2 DEF RecvUpdate, SessionUpdate, TypeOK, UpdateTypeOK
  <2>4. QED
    BY <1>3, <2>1, <2>3, SameTypes DEF RecvUpdate, TypeOK
<1>4. CASE RecvAsk
  <2>1. ReaderTypeOK'
    BY <1>4, HeadFrame DEF RecvAsk, TypeOK, ReaderTypeOK, readerVars
  <2>2. AgentTypeOK'
    BY <1>4 DEF RecvAsk, TypeOK, AgentTypeOK, agentVars
  <2>3. QED
    BY <1>4, <2>1, <2>2, SameTypes DEF RecvAsk, TypeOK
<1>5. CASE RecvEof
  <2>1. CloseTypeOK' /\ ReaderTypeOK'
    BY <1>5 DEF RecvEof, TypeOK, CloseTypeOK, ReaderTypeOK, ClosePcs
  <2>2. QED
    BY <1>5, <2>1, SameTypes DEF RecvEof, TypeOK
<1>6. QED
  BY <1>1, <1>2, <1>3, <1>4, <1>5 DEF ReadLoop

\* The actions of Close and closePending (client.go:317-327, 498-503) keep
\* the types.
LEMMA ClosingType ==
  ASSUME TypeOK, NEW k \in Closers, CloseTransport(k) \/ ClosePending(k)
  PROVE  TypeOK'
<1>1. UNCHANGED <<readerVars, updateVars, wire>>
  BY DEF ClosePending, CloseTransport, CloseClosed, CloseAgain, CloseLock,
         CloseNext, CloseSend, CloseUnlock
<1>2. CASE CloseTransport(k)
  <2>1. CloseTypeOK' /\ AgentTypeOK'
    BY <1>2 DEF CloseTransport, TypeOK, CloseTypeOK, AgentTypeOK, ClosePcs
  <2>2. QED
    BY <1>1, <1>2, <2>1, SameTypes DEF CloseTransport, TypeOK
<1>3. CASE CloseClosed(k)
  <2>1. CallTypeOK'
    BY <1>3 DEF CloseClosed, TypeOK, CallTypeOK, CallPcs, Outcomes
  <2>2. CloseTypeOK'
    BY <1>3 DEF CloseClosed, TypeOK, CloseTypeOK, ClosePcs
  <2>3. QED
    BY <1>1, <1>3, <2>1, <2>2, SameTypes DEF CloseClosed, TypeOK
<1>4. CASE CloseSend(k)
  <2>1. CallTypeOK'
    BY <1>4, SendToType DEF CloseSend, TypeOK, CallTypeOK
  <2>2. CloseTypeOK'
    BY <1>4 DEF CloseSend, TypeOK, CloseTypeOK
  <2>3. QED
    BY <1>1, <1>4, <2>1, <2>2, SameTypes DEF CloseSend, TypeOK
<1>5. CASE CloseAgain(k) \/ CloseLock(k) \/ CloseNext(k) \/ CloseUnlock(k)
  <2>1. UNCHANGED <<callVars, askPc, agentVars>>
    BY <1>5 DEF CloseAgain, CloseLock, CloseNext, CloseUnlock
  <2>2. CloseTypeOK'
    BY <1>5 DEF CloseAgain, CloseLock, CloseNext, CloseUnlock, TypeOK,
                CloseTypeOK, CallTypeOK, ClosePcs
  <2>3. QED
    BY <1>1, <2>1, <2>2, SameTypes DEF TypeOK
<1>6. QED
  BY <1>2, <1>3, <1>4, <1>5 DEF ClosePending

\* The capacity and the lengths are numbers.
LEMMA UpdateCapNat == UpdateCap \in Nat /\ MaxUpdates \in Nat
BY ClientAssumption DEF ClientAssumption

\* The subscription to updates (client.go:464-475) keeps the types.
LEMMA SubscriberType ==
  ASSUME TypeOK, Subscribe \/ WatchClosed \/ Consume
  PROVE  TypeOK'
<1>1. UNCHANGED <<callVars, closeVars, readerVars, askPc, agentVars, wire>>
  BY DEF Subscribe, WatchClosed, Consume
<1>2. UpdateTypeOK'
  <2>1. CASE Subscribe \/ WatchClosed
    BY <2>1 DEF Subscribe, WatchClosed, TypeOK, UpdateTypeOK
  <2>2. CASE Consume
    <3>1. updates \in Seq(1..MaxUpdates) /\ updates # <<>>
      BY <2>2 DEF Consume, TypeOK, UpdateTypeOK
    <3>2. /\ Head(updates) \in 1..MaxUpdates
          /\ updates' \in Seq(1..MaxUpdates)
          /\ Len(updates') = Len(updates) - 1
      BY <2>2, <3>1, HeadTail DEF Consume
    <3>3. consumed' \in Seq(1..MaxUpdates)
      BY <2>2, <3>2 DEF Consume, TypeOK, UpdateTypeOK
    <3>4. QED
      BY <2>2, <3>2, <3>3, UpdateCapNat DEF Consume, TypeOK, UpdateTypeOK
  <2>3. QED
    BY <2>1, <2>2
<1>3. QED
  BY <1>1, <1>2, SameTypes DEF TypeOK

\* So do the agent and the handlers of its requests.
LEMMA AgentType ==
  ASSUME ClientAssumption, TypeOK,
         \/ AgentUpdate \/ AgentExit
         \/ \E c \in Calls : AgentAnswer(c)
         \/ \E r \in Asks : AnswerAsk(r) \/ AgentAsk(r)
  PROVE  TypeOK'
<1>1. CASE AgentUpdate
  <2>1. sentUpdates + 1 \in 1..MaxUpdates
    BY <1>1 DEF AgentUpdate, ClientAssumption, TypeOK, AgentTypeOK
  <2>2. Update(sentUpdates + 1) \in Frames
    BY <2>1 DEF Update, Frames
  <2>3. ReaderTypeOK'
    BY <1>1, <2>2 DEF AgentUpdate, TypeOK, ReaderTypeOK, readerVars
  <2>4. AgentTypeOK'
    BY <1>1, <2>1 DEF AgentUpdate, TypeOK, AgentTypeOK, ClientAssumption
  <2>5. QED
    BY <1>1, <2>3, <2>4, SameTypes DEF AgentUpdate, TypeOK
<1>2. CASE AgentExit
  <2>1. AgentTypeOK'
    BY <1>2 DEF AgentExit, TypeOK, AgentTypeOK
  <2>2. QED
    BY <1>2, <2>1, SameTypes DEF AgentExit, TypeOK
<1>3. ASSUME NEW c \in Calls, AgentAnswer(c)
      PROVE  TypeOK'
  <2>1. Answer(c) \in Frames
    BY DEF Answer, Frames
  <2>2. ReaderTypeOK'
    BY <1>3, <2>1 DEF AgentAnswer, TypeOK, ReaderTypeOK, readerVars
  <2>3. AgentTypeOK'
    BY <1>3 DEF AgentAnswer, TypeOK, AgentTypeOK
  <2>4. QED
    BY <1>3, <2>2, <2>3, SameTypes DEF AgentAnswer, TypeOK
<1>4. ASSUME NEW r \in Asks, AnswerAsk(r) \/ AgentAsk(r)
      PROVE  TypeOK'
  <2>1. Ask(r) \in Frames
    BY DEF Ask, Frames
  <2>2. ReaderTypeOK'
    BY <1>4, <2>1 DEF AnswerAsk, AgentAsk, TypeOK, ReaderTypeOK, readerVars
  <2>3. AgentTypeOK'
    BY <1>4 DEF AnswerAsk, AgentAsk, TypeOK, AgentTypeOK, agentVars
  <2>4. QED
    BY <1>4, <2>2, <2>3, SameTypes DEF AnswerAsk, AgentAsk, TypeOK
<1>5. QED
  BY <1>1, <1>2, <1>3, <1>4

\* Every step of the client keeps its types.
LEMMA StepType ==
  ASSUME ClientAssumption, TypeOK, [Next]_vars
  PROVE  TypeOK'
<1>1. CASE UNCHANGED vars
  BY <1>1, SameTypes DEF vars, TypeOK
<1>2. CASE Next
  BY <1>2, SendRecvType, ReadLoopType, ClosingType, SubscriberType, AgentType
     DEF Next, Closers
<1>3. QED
  BY <1>1, <1>2

\* The initial values have their types.
LEMMA InitType == Init => TypeOK
<1> SUFFICES ASSUME Init PROVE TypeOK
  OBVIOUS
<1>1. CallTypeOK /\ CloseTypeOK
  BY DEF Init, CallTypeOK, CloseTypeOK, CallPcs, Outcomes, ClosePcs
<1>2. ReaderTypeOK
  BY DEF Init, ReaderTypeOK
<1>3. UpdateTypeOK
  <2>1. /\ updates = <<>> /\ consumed = <<>> /\ handled = 0
        /\ subscribed = FALSE /\ updatesClosed = FALSE /\ panicked = FALSE
    BY DEF Init
  <2>2. updates \in Seq(1..MaxUpdates) /\ Len(updates) <= UpdateCap
    BY <2>1, UpdateCapNat
  <2>3. consumed \in Seq(1..MaxUpdates)
    BY <2>1
  <2>4. QED
    BY <2>1, <2>2, <2>3 DEF UpdateTypeOK
<1>4. AgentTypeOK
  <2>1. 0 \in 0..MaxUpdates
    BY UpdateCapNat
  <2>2. QED
    BY <2>1 DEF Init, AgentTypeOK
<1>5. QED
  BY <1>1, <1>2, <1>3, <1>4 DEF TypeOK

\* In every state of every behaviour the client's variables have their types
\* and the updates channel holds no more than its capacity (client.go:468).
THEOREM TypeCorrect == Spec => []TypeOK
<1>1. TypeOK /\ [Next]_vars => TypeOK'
  BY ClientAssumption, StepType
<1>2. QED
  BY <1>1, InitType, PTL DEF Spec

-----------------------------------------------------------------------------
(* The inductive invariant, part by part, and the proof that every step    *)
(* keeps it.                                                               *)

\* The connection is broken in one direction at least.
Down == ~(stdinOpen /\ agentUp)

\* A call that has no result yet, and a closer in the body of the Once.
Waiting == {"registered", "selecting", "parked"}
Body == {"lock", "loop"}

\* What a call has to return is fixed when it leaves its select.
CallInv ==
  /\ \A c \in Calls :
       outcome[c] = None <=> callPc[c] \in Waiting \cup {"idle"}
  /\ \A c \in requested :
       callPc[c] \notin {"idle", "registered"} /\ outcome[c] # "writeError"
  /\ answered \subseteq requested

\* One closer runs the body of the Once; it holds the lock in its loop, and the
\* entry it works on stays in the map.
CloserInv ==
  /\ closed <=> closeOnce # "fresh"
  /\ \A k \in Closers : closePc[k] \in Body => closeOnce = "running"
  /\ \A j, k \in Closers :
       closePc[j] \in Body /\ closePc[k] \in Body => j = k
  /\ \A k \in Closers : pendingMu = k <=> closePc[k] = "loop"
  /\ closeTarget # None => closeTarget \in pending /\ pendingMu # None
  /\ readerPc # "closing" => closePc[Reader] = "idle"

\* The client closes only when the connection is down, and errors say so.
LinkInv ==
  /\ \A k \in Closers : closePc[k] # "idle" => Down
  /\ closed => Down
  /\ closed => \A c \in Calls : callPc[c] # "parked"
  /\ \A c \in Calls :
       /\ respCh[c] = "closed" => closed
       /\ outcome[c] = "closed" => closed
       /\ outcome[c] = "writeError" => Down

\* The agent's answer to c is still to be read.
OnWire(c) == \E i \in 1..Len(wire) : wire[i] = Answer(c)

\* There is one answer to a call, at most, on the wire.
OnWireOnce ==
  \A c \in Calls : \A i, j \in 1..Len(wire) :
    wire[i] = Answer(c) /\ wire[j] = Answer(c) => i = j

\* An answer is in one place at a time.
AnswerInv ==
  /\ \A c \in Calls : OnWire(c) => c \in answered
  /\ OnWireOnce
  /\ readerPc = "deliver" <=> readerTarget # None
  /\ \A c \in Calls :
       /\ readerTarget = c => c \in answered /\ ~OnWire(c)
       /\ respCh[c] = "answer" =>
            c \in answered /\ ~OnWire(c) /\ readerTarget # c
       /\ outcome[c] = "answer" =>
            /\ c \in answered /\ ~OnWire(c) /\ readerTarget # c
            /\ respCh[c] # "answer"

\* What the subscriber has received or will.
Seen == consumed \o updates

\* Updates on the wire are those that were not handled yet, in order.
WireUpdates ==
  /\ handled <= sentUpdates
  /\ \A i \in 1..Len(wire) : wire[i].kind = "update" =>
       handled < wire[i].id /\ wire[i].id <= sentUpdates
  /\ \A i, j \in 1..Len(wire) :
       /\ wire[i].kind = "update" /\ wire[j].kind = "update" /\ i < j
       => wire[i].id < wire[j].id
  /\ \A n \in (handled + 1)..sentUpdates :
       \E i \in 1..Len(wire) : wire[i] = Update(n)

\* The subscriber sees what was handled, in order.
SeenInOrder ==
  /\ \A i \in 1..Len(Seen) : Seen[i] <= handled
  /\ \A i, j \in 1..Len(Seen) : i < j => Seen[i] < Seen[j]

\* An answer comes behind the updates that were sent before it.
BeforeInv ==
  /\ \A c \in Calls : sentBefore[c] <= sentUpdates
  /\ \A c \in Calls : \A i, j \in 1..Len(wire) :
       /\ wire[i] = Answer(c) /\ wire[j].kind = "update" /\ i < j
       => sentBefore[c] < wire[j].id
  /\ \A c \in Calls :
       readerTarget = c \/ respCh[c] = "answer" \/ outcome[c] = "answer"
         => sentBefore[c] <= handled

\* The strengthening of the invariants that every step keeps.
IInv ==
  /\ TypeOK /\ CallInv /\ CloserInv /\ LinkInv /\ PendingIsInFlight
  /\ AnswerInv /\ AnswerNotLost /\ WireUpdates /\ SeenInOrder /\ BeforeInv

-----------------------------------------------------------------------------
(* CallInv.                                                                *)

\* A send on a call's channel leaves every call with an outcome only if it is
\* out of its select.
LEMMA SendToCallInv ==
  ASSUME ClientAssumption, CallTypeOK, CallInv, NEW c \in Calls,
         NEW v \in {"answer", "closed"}, SendTo(c, v),
         requested \subseteq Calls, UNCHANGED <<requested, answered>>
  PROVE  CallInv'
<1>1. v # None /\ v # "writeError"
  BY DEF ClientAssumption
<1>2. CASE callPc[c] = "parked"
  BY <1>1, <1>2 DEF SendTo, CallInv, CallTypeOK, Waiting
<1>3. CASE callPc[c] # "parked"
  <2>1. UNCHANGED <<callPc, outcome>>
    BY <1>3 DEF SendTo
  <2>2. QED
    BY <2>1 DEF CallInv
<1>4. QED
  BY <1>2, <1>3

\* Calls return what they have been given (client.go:79-115).
LEMMA CallStep ==
  ASSUME ClientAssumption, TypeOK, CallInv, CloserInv, AnswerInv, Next
  PROVE  CallInv'
<1>1. CallTypeOK /\ AgentTypeOK
  BY DEF TypeOK
<1>2. ASSUME NEW c \in Calls, Register(c) \/ SendRecvStep(c)
      PROVE  CallInv'
  <2>1. CASE Register(c)
    BY <1>1, <2>1 DEF Register, CallInv, CallTypeOK, Waiting, agentVars
  <2>2. CASE SendRequest(c)
    BY <1>1, <2>2 DEF SendRequest, CallInv, CallTypeOK, Waiting,
                      ClientAssumption
  <2>3. CASE SendFails(c)
    BY <1>1, <2>3 DEF SendFails, CallInv, CallTypeOK, Waiting, agentVars,
                      ClientAssumption
  <2>4. CASE SelectResponse(c)
    BY <1>1, <2>4 DEF SelectResponse, CallInv, CallTypeOK, Waiting, agentVars,
                      ClientAssumption
  <2>5. CASE SelectClosed(c)
    BY <1>1, <2>5 DEF SelectClosed, CallInv, CallTypeOK, Waiting, agentVars,
                      ClientAssumption
  <2>6. CASE Park(c)
    BY <1>1, <2>6 DEF Park, CallInv, CallTypeOK, Waiting, agentVars
  <2>7. CASE RemovePending(c)
    BY <1>1, <2>7 DEF RemovePending, CallInv, CallTypeOK, Waiting, agentVars
  <2>8. QED
    BY <1>2, <2>1, <2>2, <2>3, <2>4, <2>5, <2>6, <2>7 DEF SendRecvStep
<1>3. CASE Deliver
  <2>1. readerTarget \in Calls
    BY <1>3 DEF Deliver, TypeOK, ReaderTypeOK, AnswerInv
  <2>2. QED
    BY <1>1, <1>3, <2>1, SendToCallInv DEF Deliver, AgentTypeOK, agentVars
<1>4. ASSUME NEW k \in Closers, CloseClosed(k)
      PROVE  CallInv'
  BY <1>1, <1>4 DEF CloseClosed, CallInv, CallTypeOK, AgentTypeOK, Waiting,
                    agentVars, ClientAssumption
<1>5. ASSUME NEW k \in Closers, CloseSend(k)
      PROVE  CallInv'
  <2>1. closeTarget \in Calls
    BY <1>5 DEF CloseSend, TypeOK, CloseTypeOK
  <2>2. QED
    BY <1>1, <1>5, <2>1, SendToCallInv DEF CloseSend, AgentTypeOK, agentVars
<1>6. ASSUME NEW c \in Calls, AgentAnswer(c)
      PROVE  CallInv'
  BY <1>6 DEF AgentAnswer, CallInv, callVars
<1>7. ASSUME \/ RecvAnswer \/ RecvUpdate \/ RecvAsk \/ RecvEof
             \/ Subscribe \/ WatchClosed \/ Consume
             \/ AgentUpdate \/ AgentExit
             \/ \E r \in Asks : AnswerAsk(r) \/ AgentAsk(r)
             \/ \E k \in Closers : \/ CloseTransport(k) \/ CloseAgain(k)
                                   \/ CloseLock(k) \/ CloseNext(k)
                                   \/ CloseUnlock(k)
      PROVE  CallInv'
  <2>1. UNCHANGED <<callPc, outcome, requested, answered>>
    BY <1>7 DEF RecvAnswer, RecvUpdate, RecvAsk, RecvEof, Subscribe,
         WatchClosed, Consume, AgentUpdate, AgentExit, AnswerAsk, AgentAsk,
         CloseTransport, CloseAgain, CloseLock, CloseNext, CloseUnlock,
         callVars, agentVars
  <2>2. QED
    BY <2>1 DEF CallInv
<1>8. QED
  BY <1>2, <1>3, <1>4, <1>5, <1>6, <1>7
     DEF Next, Closers, ReadLoop, ClosePending

-----------------------------------------------------------------------------
(* CloserInv.                                                              *)

\* closePending runs once, under the lock (client.go:317-327).
LEMMA CloserStep ==
  ASSUME ClientAssumption, TypeOK, CloserInv, Next
  PROVE  CloserInv'
<1>1. /\ pending \subseteq Calls /\ CloseTypeOK
      /\ None \notin Closers /\ Reader \in Closers
  BY DEF TypeOK, CallTypeOK, ClientAssumption, Closers
<1>2. ASSUME NEW c \in Calls, Register(c) \/ RemovePending(c)
      PROVE  CloserInv'
  <2>1. UNCHANGED <<closeVars, readerVars>>
    BY <1>2 DEF Register, RemovePending
  <2>2. closeTarget # None => closeTarget \in pending'
    BY <1>2 DEF Register, RemovePending, CloserInv
  <2>3. QED
    BY <2>1, <2>2 DEF CloserInv, closeVars, readerVars
<1>3. CASE RecvEof
  BY <1>1, <1>3 DEF RecvEof, CloserInv, CloseTypeOK, Body, callVars
<1>4. CASE RecvAnswer \/ Deliver
  <2>1. UNCHANGED <<closeVars, pending>> /\ readerPc # "closing"
    BY <1>4 DEF RecvAnswer, Deliver, callVars
  <2>2. QED
    BY <2>1 DEF CloserInv, closeVars
<1>5. ASSUME NEW k \in CloseCallers, CloseTransport(k)
      PROVE  CloserInv'
  <2>1. k \in Closers /\ k # Reader
    BY DEF Closers, ClientAssumption
  <2>2. QED
    BY <1>1, <1>5, <2>1 DEF CloseTransport, CloserInv, CloseTypeOK, Body,
                            callVars, readerVars
<1>6. ASSUME NEW k \in Closers, ClosePending(k)
      PROVE  CloserInv'
  <2>1. k = Reader => readerPc = "closing"
    BY <1>6 DEF ClosePending, CloserInv, CloseClosed, CloseAgain, CloseLock,
                CloseNext, CloseSend, CloseUnlock
  <2>2. UNCHANGED readerPc
    BY <1>6 DEF ClosePending, CloseClosed, CloseAgain, CloseLock, CloseNext,
                CloseSend, CloseUnlock, readerVars
  <2>3. CASE CloseClosed(k)
    BY <1>1, <2>1, <2>2, <2>3 DEF CloseClosed, CloserInv, CloseTypeOK, Body
  <2>4. CASE CloseAgain(k)
    BY <1>1, <2>1, <2>2, <2>4 DEF CloseAgain, CloserInv, CloseTypeOK, Body,
                                  callVars
  <2>5. CASE CloseLock(k)
    BY <1>1, <2>1, <2>2, <2>5 DEF CloseLock, CloserInv, CloseTypeOK, Body,
                                  callVars
  <2>6. CASE CloseNext(k)
    BY <1>1, <2>2, <2>6 DEF CloseNext, CloserInv, CloseTypeOK, Body, callVars
  <2>7. CASE CloseSend(k)
    BY <1>1, <2>2, <2>7 DEF CloseSend, CloserInv, CloseTypeOK, Body
  <2>8. CASE CloseUnlock(k)
    BY <1>1, <2>1, <2>2, <2>8 DEF CloseUnlock, CloserInv, CloseTypeOK, Body,
                                  callVars
  <2>9. QED
    BY <1>6, <2>3, <2>4, <2>5, <2>6, <2>7, <2>8 DEF ClosePending
<1>7. ASSUME \/ RecvUpdate \/ RecvAsk \/ Subscribe \/ WatchClosed \/ Consume
             \/ AgentUpdate \/ AgentExit
             \/ \E r \in Asks : AnswerAsk(r) \/ AgentAsk(r)
             \/ \E c \in Calls : \/ SendRequest(c) \/ SendFails(c)
                                 \/ SelectResponse(c) \/ SelectClosed(c)
                                 \/ Park(c) \/ AgentAnswer(c)
      PROVE  CloserInv'
  <2>1. UNCHANGED <<closeVars, pending, readerVars>>
    BY <1>7 DEF RecvUpdate, RecvAsk, Subscribe, WatchClosed, Consume,
         AgentUpdate, AgentExit, AnswerAsk, AgentAsk, SendRequest, SendFails,
         SelectResponse, SelectClosed, Park, AgentAnswer, callVars
  <2>2. QED
    BY <2>1 DEF CloserInv, closeVars, readerVars
<1>8. QED
  BY <1>2, <1>3, <1>4, <1>5, <1>6, <1>7 DEF Next, ReadLoop, SendRecvStep

-----------------------------------------------------------------------------
(* PendingIsInFlight.                                                      *)

\* Every way through sendRecv keeps its entry until it removes it
\* (client.go:89-92, 305-327).
LEMMA PendingStep ==
  ASSUME ClientAssumption, TypeOK, CloserInv, AnswerInv, PendingIsInFlight, Next
  PROVE  PendingIsInFlight'
<1>1. CallTypeOK
  BY DEF TypeOK
<1>2. ASSUME NEW c \in Calls, Register(c) \/ SendRecvStep(c)
      PROVE  PendingIsInFlight'
  <2>1. UNCHANGED closed
    BY <1>2 DEF SendRecvStep, Register, SendRequest, SendFails, SelectResponse,
                SelectClosed, Park, RemovePending, closeVars
  <2>2. QED
    BY <1>1, <1>2, <2>1 DEF SendRecvStep, Register, SendRequest, SendFails,
         SelectResponse, SelectClosed, Park, RemovePending, CallTypeOK,
         PendingIsInFlight
<1>3. ASSUME NEW c \in Calls, NEW v, SendTo(c, v), UNCHANGED closed,
             \/ pending' = pending
             \/ closed /\ pending' \subseteq pending
      PROVE  PendingIsInFlight'
  BY <1>1, <1>3 DEF SendTo, CallTypeOK, PendingIsInFlight
<1>4. CASE Deliver
  <2>1. readerTarget \in Calls
    BY <1>4 DEF Deliver, TypeOK, ReaderTypeOK, AnswerInv
  <2>2. QED
    BY <1>3, <1>4, <2>1 DEF Deliver, closeVars
<1>5. ASSUME NEW k \in Closers, CloseSend(k)
      PROVE  PendingIsInFlight'
  <2>1. closeTarget \in Calls /\ closed
    BY <1>5 DEF CloseSend, TypeOK, CloseTypeOK, CloserInv, Body
  <2>2. QED
    BY <1>3, <1>5, <2>1 DEF CloseSend
<1>6. ASSUME NEW k \in Closers, CloseClosed(k)
      PROVE  PendingIsInFlight'
  BY <1>1, <1>6 DEF CloseClosed, CallTypeOK, PendingIsInFlight
<1>7. ASSUME \/ RecvAnswer \/ RecvUpdate \/ RecvAsk \/ RecvEof
             \/ Subscribe \/ WatchClosed \/ Consume
             \/ AgentUpdate \/ AgentExit
             \/ \E r \in Asks : AnswerAsk(r) \/ AgentAsk(r)
             \/ \E c \in Calls : AgentAnswer(c)
             \/ \E k \in Closers : \/ CloseTransport(k) \/ CloseAgain(k)
                                   \/ CloseLock(k) \/ CloseNext(k)
                                   \/ CloseUnlock(k)
      PROVE  PendingIsInFlight'
  <2>1. UNCHANGED <<callPc, pending, closed>>
    BY <1>7 DEF RecvAnswer, RecvUpdate, RecvAsk, RecvEof, Subscribe,
         WatchClosed, Consume, AgentUpdate, AgentExit, AnswerAsk, AgentAsk,
         AgentAnswer, CloseTransport, CloseAgain, CloseLock, CloseNext,
         CloseUnlock, callVars, closeVars
  <2>2. QED
    BY <2>1 DEF PendingIsInFlight
<1>8. QED
  BY <1>2, <1>4, <1>5, <1>6, <1>7 DEF Next, Closers, ReadLoop, ClosePending

-----------------------------------------------------------------------------
(* LinkInv.                                                                *)

\* The connection never comes back, and only a closer, the agent's end or the
\* transport's end changes it.
LEMMA LinkStep ==
  ASSUME ClientAssumption, TypeOK, CloserInv, LinkInv, AnswerInv, Next
  PROVE  LinkInv'
<1>1. CallTypeOK /\ CloseTypeOK
  BY DEF TypeOK
<1>2. ASSUME NEW c \in Calls, Register(c) \/ SendRecvStep(c)
      PROVE  LinkInv'
  <2>1. UNCHANGED <<closeVars, stdinOpen, agentUp>>
    BY <1>2 DEF SendRecvStep, Register, SendRequest, SendFails, SelectResponse,
                SelectClosed, Park, RemovePending, agentVars
  <2>2. /\ \A k \in Closers : closePc'[k] # "idle" => Down'
        /\ closed' => Down'
    BY <2>1 DEF LinkInv, Down, closeVars
  <2>3. closed' => \A d \in Calls : callPc'[d] # "parked"
    BY <1>1, <1>2, <2>1 DEF SendRecvStep, Register, SendRequest, SendFails,
         SelectResponse, SelectClosed, Park, RemovePending, CallTypeOK,
         LinkInv, closeVars
  <2>4. \A d \in Calls : respCh'[d] = "closed" => closed'
    BY <1>1, <1>2, <2>1 DEF SendRecvStep, Register, SendRequest, SendFails,
         SelectResponse, SelectClosed, Park, RemovePending, CallTypeOK,
         LinkInv, closeVars, ClientAssumption
  <2>5. \A d \in Calls : /\ outcome'[d] = "closed" => closed'
                         /\ outcome'[d] = "writeError" => Down'
    BY <1>1, <1>2, <2>1 DEF SendRecvStep, Register, SendRequest, SendFails,
         SelectResponse, SelectClosed, Park, RemovePending, CallTypeOK,
         LinkInv, closeVars, Down
  <2>6. QED
    BY <2>2, <2>3, <2>4, <2>5 DEF LinkInv
<1>3. CASE Deliver
  <2>1. readerTarget \in Calls
    BY <1>3 DEF Deliver, TypeOK, ReaderTypeOK, AnswerInv
  <2>2. UNCHANGED <<closeVars, stdinOpen, agentUp>>
    BY <1>3 DEF Deliver, agentVars
  <2>3. \A c \in Calls :
          /\ callPc'[c] = "parked" => callPc[c] = "parked"
          /\ respCh'[c] = "closed" => respCh[c] = "closed"
          /\ outcome'[c] \in {"closed", "writeError"} =>
               outcome'[c] = outcome[c]
    BY <1>1, <1>3, <2>1 DEF Deliver, SendTo, CallTypeOK
  <2>4. QED
    BY <2>2, <2>3 DEF LinkInv, Down, closeVars
<1>4. ASSUME NEW k \in Closers, CloseSend(k)
      PROVE  LinkInv'
  <2>1. closeTarget \in Calls /\ closed
    BY <1>4 DEF CloseSend, TypeOK, CloseTypeOK, CloserInv, Body
  <2>2. QED
    BY <1>1, <1>4, <2>1 DEF CloseSend, SendTo, CallTypeOK, LinkInv, Down,
                            agentVars
<1>5. ASSUME NEW k \in Closers, CloseClosed(k)
      PROVE  LinkInv'
  BY <1>1, <1>5 DEF CloseClosed, CallTypeOK, CloseTypeOK, LinkInv, Down,
                    agentVars
<1>6. ASSUME \/ RecvEof \/ AgentExit
             \/ \E k \in Closers : \/ CloseTransport(k) \/ CloseAgain(k)
                                   \/ CloseLock(k) \/ CloseNext(k)
                                   \/ CloseUnlock(k)
      PROVE  LinkInv'
  <2>1. UNCHANGED <<callVars, closed>> /\ (Down => Down')
    BY <1>6 DEF RecvEof, AgentExit, CloseTransport, CloseAgain, CloseLock,
                CloseNext, CloseUnlock, closeVars, agentVars, Down
  <2>2. \A k \in Closers : closePc'[k] # "idle" => Down'
    <3>1. CASE RecvEof \/ AgentExit
      BY <1>1, <3>1 DEF RecvEof, AgentExit, Down, CloseTypeOK, LinkInv,
                        closeVars, agentVars
    <3>2. ASSUME NEW k \in Closers, CloseTransport(k)
          PROVE  Down'
      BY <3>2 DEF CloseTransport, Down
    <3>3. ASSUME NEW k \in Closers,
                 CloseAgain(k) \/ CloseLock(k) \/ CloseNext(k) \/ CloseUnlock(k)
          PROVE  closePc[k] # "idle" /\ UNCHANGED <<stdinOpen, agentUp>>
      BY <3>3 DEF CloseAgain, CloseLock, CloseNext, CloseUnlock, agentVars
    <3>4. QED
      BY <1>6, <3>1, <3>2, <3>3 DEF LinkInv, Down
  <2>3. QED
    BY <2>1, <2>2 DEF LinkInv, callVars
<1>7. ASSUME \/ RecvAnswer \/ RecvUpdate \/ RecvAsk
             \/ Subscribe \/ WatchClosed \/ Consume \/ AgentUpdate
             \/ \E r \in Asks : AnswerAsk(r) \/ AgentAsk(r)
             \/ \E c \in Calls : AgentAnswer(c)
      PROVE  LinkInv'
  <2>1. UNCHANGED <<callVars, closeVars, stdinOpen, agentUp>>
    BY <1>7 DEF RecvAnswer, RecvUpdate, RecvAsk, Subscribe, WatchClosed,
         Consume, AgentUpdate, AnswerAsk, AgentAsk, AgentAnswer, agentVars
  <2>2. QED
    BY <2>1 DEF LinkInv, Down, callVars, closeVars
<1>8. QED
  BY <1>2, <1>3, <1>4, <1>5, <1>6, <1>7
     DEF Next, Closers, ReadLoop, ClosePending

-----------------------------------------------------------------------------
(* AnswerInv.                                                              *)

\* What reading a frame does to the wire.
LEMMA TailWire ==
  ASSUME TypeOK, wire # <<>>, wire' = Tail(wire)
  PROVE  /\ Len(wire) \in Nat /\ Len(wire') = Len(wire) - 1
         /\ \A i \in 1..Len(wire') : i + 1 \in 1..Len(wire)
                                    /\ wire'[i] = wire[i + 1]
         /\ 1 \in 1..Len(wire) /\ Head(wire) = wire[1]
         /\ \A i \in 2..Len(wire) : i - 1 \in 1..Len(wire')
                                   /\ wire'[i - 1] = wire[i]
<1>1. wire \in Seq(Frames) /\ Len(wire) \in Nat \ {0}
  BY DEF TypeOK, ReaderTypeOK
<1>2. /\ Len(Tail(wire)) = Len(wire) - 1
      /\ \A i \in 1..Len(Tail(wire)) : Tail(wire)[i] = wire[i + 1]
      /\ Head(wire) = wire[1]
  BY <1>1, HeadTail
<1>3. QED
  BY <1>1, <1>2

\* What sending a frame does to it.
LEMMA AppendWire ==
  ASSUME TypeOK, NEW f, wire' = Append(wire, f)
  PROVE  /\ Len(wire) \in Nat /\ Len(wire') = Len(wire) + 1
         /\ \A i \in 1..Len(wire) : wire'[i] = wire[i]
         /\ wire'[Len(wire) + 1] = f
         /\ \A i \in 1..Len(wire') : i \in 1..Len(wire) \/ i = Len(wire) + 1
<1>1. wire \in Seq(Frames) /\ Len(wire) \in Nat
  BY DEF TypeOK, ReaderTypeOK
<1>2. QED
  BY <1>1

\* Reading a frame takes the answer at the head off the wire and no other.
LEMMA TailOnWire ==
  ASSUME TypeOK, OnWireOnce, wire # <<>>, wire' = Tail(wire)
  PROVE  /\ \A c \in Calls : OnWire(c)' => OnWire(c)
         /\ \A c \in Calls : OnWire(c) => OnWire(c)' \/ Head(wire) = Answer(c)
         /\ \A c \in Calls : Head(wire) = Answer(c) => OnWire(c) /\ ~OnWire(c)'
         /\ OnWireOnce'
<1>1. \A c \in Calls : OnWire(c)' => OnWire(c)
  BY TailWire DEF OnWire, Answer
<1>2. \A c \in Calls : OnWire(c) => OnWire(c)' \/ Head(wire) = Answer(c)
  <2> SUFFICES ASSUME NEW c \in Calls, NEW i \in 1..Len(wire),
                      wire[i] = Answer(c), Head(wire) # Answer(c)
               PROVE  OnWire(c)'
    BY DEF OnWire
  <2>1. i \in 2..Len(wire)
    BY TailWire
  <2>2. QED
    BY <2>1, TailWire DEF OnWire, Answer
<1>3. ASSUME NEW c \in Calls, Head(wire) = Answer(c)
      PROVE  OnWire(c) /\ ~OnWire(c)'
  <2>1. OnWire(c)
    BY <1>3, TailWire DEF OnWire
  <2>2. ASSUME NEW i \in 1..Len(wire'), wire'[i] = Answer(c)
        PROVE  FALSE
    <3>1. i + 1 = 1
      BY <1>3, <2>2, TailWire DEF OnWireOnce
    <3>2. QED
      BY <3>1
  <2>3. QED
    BY <2>1, <2>2 DEF OnWire, Answer
<1>4. OnWireOnce'
  <2> SUFFICES ASSUME NEW c \in Calls,
                      NEW i \in 1..Len(wire'), NEW j \in 1..Len(wire'),
                      wire'[i] = Answer(c), wire'[j] = Answer(c)
               PROVE  i = j
    BY DEF OnWireOnce, Answer
  <2>1. i + 1 = j + 1
    BY TailWire DEF OnWireOnce
  <2>2. QED
    BY <2>1
<1>5. QED
  BY <1>1, <1>2, <1>3, <1>4

\* Sending a frame puts its answer, if it is one, on the wire and no other.
LEMMA AppendOnWire ==
  ASSUME TypeOK, OnWireOnce, NEW f, wire' = Append(wire, f),
         \A c \in Calls : f = Answer(c) => ~OnWire(c)
  PROVE  /\ \A c \in Calls : OnWire(c)' <=> OnWire(c) \/ f = Answer(c)
         /\ OnWireOnce'
<1>1. ASSUME NEW c \in Calls
      PROVE  OnWire(c)' <=> OnWire(c) \/ f = Answer(c)
  BY AppendWire DEF OnWire, Answer
<1>2. OnWireOnce'
  BY AppendWire DEF OnWireOnce, OnWire, Answer
<1>3. QED
  BY <1>1, <1>2

\* When nothing is sent or read, answers only move on.
LEMMA SameWireAnswerInv ==
  ASSUME AnswerInv, UNCHANGED <<readerPc, readerTarget, answered, wire>>,
         \A d \in Calls : respCh'[d] = "answer" =>
           respCh[d] = "answer" /\ outcome'[d] # "answer",
         \A d \in Calls : outcome'[d] = "answer" =>
           outcome[d] = "answer" \/ respCh[d] = "answer"
  PROVE  AnswerInv'
<1>1. \A d \in Calls : OnWire(d)' <=> OnWire(d)
  BY DEF OnWire
<1>2. OnWireOnce'
  BY DEF AnswerInv, OnWireOnce
<1>3. QED
  BY <1>1, <1>2 DEF AnswerInv

\* An answer goes from the wire to handleFrame, from there to its call's
\* channel, and from there to its call (client.go:108-114, 172-177).
LEMMA AnswerStep ==
  ASSUME ClientAssumption, TypeOK, AnswerInv, Next
  PROVE  AnswerInv'
<1>1. CallTypeOK /\ ReaderTypeOK /\ OnWireOnce
  BY DEF TypeOK, AnswerInv
<1>2. ASSUME NEW c \in Calls, Register(c) \/ SendRecvStep(c)
      PROVE  AnswerInv'
  <2>1. UNCHANGED <<readerPc, readerTarget, answered, wire>>
    BY <1>2 DEF SendRecvStep, Register, SendRequest, SendFails, SelectResponse,
                SelectClosed, Park, RemovePending, readerVars, agentVars
  <2>2. \A d \in Calls : respCh'[d] = "answer" =>
          respCh[d] = "answer" /\ outcome'[d] # "answer"
    BY <1>1, <1>2 DEF SendRecvStep, Register, SendRequest, SendFails,
         SelectResponse, SelectClosed, Park, RemovePending, CallTypeOK,
         AnswerInv, ClientAssumption
  <2>3. \A d \in Calls : outcome'[d] = "answer" =>
          outcome[d] = "answer" \/ respCh[d] = "answer"
    BY <1>1, <1>2 DEF SendRecvStep, Register, SendRequest, SendFails,
         SelectResponse, SelectClosed, Park, RemovePending, CallTypeOK
  <2>4. QED
    BY <2>1, <2>2, <2>3, SameWireAnswerInv
<1>3. ASSUME NEW k \in Closers, ClosePending(k)
      PROVE  AnswerInv'
  <2>1. UNCHANGED <<readerPc, readerTarget, answered, wire>>
    BY <1>3 DEF ClosePending, CloseClosed, CloseAgain, CloseLock, CloseNext,
                CloseSend, CloseUnlock, readerVars, agentVars
  <2>2. CASE CloseClosed(k)
    <3>1. \A d \in Calls : /\ respCh'[d] = respCh[d]
                           /\ outcome'[d] = "answer" => outcome[d] = "answer"
      BY <1>1, <2>2 DEF CloseClosed, CallTypeOK
    <3>2. QED
      BY <2>1, <3>1, SameWireAnswerInv DEF AnswerInv
  <2>3. CASE CloseSend(k)
    <3>1. closeTarget \in Calls
      BY <2>3 DEF CloseSend, TypeOK, CloseTypeOK
    <3>2. \A d \in Calls : /\ respCh'[d] = "answer" => respCh[d] = "answer"
                           /\ outcome'[d] = "answer" => outcome[d] = "answer"
      BY <1>1, <2>3, <3>1 DEF CloseSend, SendTo, CallTypeOK
    <3>3. QED
      BY <2>1, <3>2, SameWireAnswerInv DEF AnswerInv
  <2>4. CASE CloseAgain(k) \/ CloseLock(k) \/ CloseNext(k) \/ CloseUnlock(k)
    <3>1. UNCHANGED <<respCh, outcome>>
      BY <2>4 DEF CloseAgain, CloseLock, CloseNext, CloseUnlock, callVars
    <3>2. QED
      BY <2>1, <3>1, SameWireAnswerInv DEF AnswerInv
  <2>5. QED
    BY <1>3, <2>2, <2>3, <2>4 DEF ClosePending
<1>4. CASE RecvAnswer
  <2>1. PICK c \in Calls : Head(wire) = Answer(c)
    <3>1. Head(wire) \in Frames
      BY <1>1, <1>4 DEF RecvAnswer, ReaderTypeOK
    <3>2. QED
      BY <1>4, <3>1 DEF RecvAnswer, Frames, Answer
  <2>2. Head(wire).id = c /\ OnWire(c) /\ ~OnWire(c)'
    BY <1>1, <1>4, <2>1, TailOnWire DEF RecvAnswer, Answer
  <2>3. /\ \A d \in Calls : OnWire(d)' => OnWire(d)
        /\ OnWireOnce'
    BY <1>1, <1>4, TailOnWire DEF RecvAnswer
  <2>4. /\ UNCHANGED <<outcome, respCh, answered>>
        /\ \/ UNCHANGED <<readerPc, readerTarget>>
           \/ readerPc' = "deliver" /\ readerTarget' = c
    BY <1>4, <2>2 DEF RecvAnswer, callVars, agentVars, readerVars
  <2>5. c # None
    BY DEF ClientAssumption
  <2>6. QED
    BY <2>2, <2>3, <2>4, <2>5 DEF AnswerInv
<1>5. CASE Deliver
  <2>1. readerTarget \in Calls
    BY <1>5 DEF Deliver, TypeOK, ReaderTypeOK, AnswerInv
  <2>2. /\ UNCHANGED <<answered, wire>>
        /\ \A d \in Calls : OnWire(d)' <=> OnWire(d)
    BY <1>5 DEF Deliver, OnWire, agentVars
  <2>3. OnWireOnce'
    BY <1>1, <2>2 DEF OnWireOnce
  <2>4. \A d \in Calls \ {readerTarget} :
          respCh'[d] = respCh[d] /\ outcome'[d] = outcome[d]
    BY <1>1, <1>5, <2>1 DEF Deliver, SendTo, CallTypeOK
  <2>5. LET t == readerTarget
        IN  ~(respCh'[t] = "answer" /\ outcome'[t] = "answer")
    BY <1>1, <1>5, <2>1 DEF Deliver, SendTo, CallTypeOK, AnswerInv
  <2>6. readerPc' = "recv" /\ readerTarget' = None
    BY <1>5 DEF Deliver
  <2>7. \A d \in Calls : d # None
    BY DEF ClientAssumption
  <2>8. QED
    BY <2>1, <2>2, <2>3, <2>4, <2>5, <2>6, <2>7 DEF AnswerInv
<1>6. CASE RecvUpdate \/ RecvAsk
  <2>1. /\ wire # <<>> /\ wire' = Tail(wire)
        /\ UNCHANGED <<outcome, respCh, answered, readerPc, readerTarget>>
    BY <1>6 DEF RecvUpdate, RecvAsk, callVars, readerVars, agentVars
  <2>2. (\A d \in Calls : OnWire(d)' => OnWire(d)) /\ OnWireOnce'
    BY <1>1, <2>1, TailOnWire
  <2>3. QED
    BY <2>1, <2>2 DEF AnswerInv
<1>7. ASSUME NEW c \in Calls, AgentAnswer(c)
      PROVE  AnswerInv'
  <2>1. /\ wire' = Append(wire, Answer(c)) /\ answered' = answered \cup {c}
        /\ UNCHANGED <<outcome, respCh, readerPc, readerTarget>>
        /\ c \notin answered
    BY <1>7 DEF AgentAnswer, callVars, readerVars
  <2>2. \A d \in Calls : Answer(c) = Answer(d) => d = c
    BY DEF Answer
  <2>3. /\ \A d \in Calls : OnWire(d)' <=> OnWire(d) \/ d = c
        /\ OnWireOnce'
    BY <1>1, <2>1, <2>2, AppendOnWire DEF AnswerInv
  <2>4. QED
    BY <2>1, <2>3 DEF AnswerInv
<1>8. ASSUME NEW f, wire' = Append(wire, f), \A c \in Calls : f # Answer(c),
             UNCHANGED <<outcome, respCh, answered, readerPc, readerTarget>>
      PROVE  AnswerInv'
  <2>1. (\A d \in Calls : OnWire(d)' <=> OnWire(d)) /\ OnWireOnce'
    BY <1>1, <1>8, AppendOnWire
  <2>2. QED
    BY <1>8, <2>1 DEF AnswerInv
<1>9. CASE AgentUpdate
  <2>1. \A c \in Calls : Update(sentUpdates + 1) # Answer(c)
    BY DEF Update, Answer
  <2>2. QED
    BY <1>8, <1>9, <2>1 DEF AgentUpdate, callVars, readerVars
<1>10. ASSUME NEW r \in Asks, AgentAsk(r)
       PROVE  AnswerInv'
  <2>1. \A c \in Calls : Ask(r) # Answer(c)
    BY DEF Ask, Answer
  <2>2. QED
    BY <1>8, <1>10, <2>1 DEF AgentAsk, callVars, readerVars, agentVars
<1>11. CASE RecvEof
  <2>1. \A d \in Calls : OnWire(d)' <=> OnWire(d)
    BY <1>11 DEF RecvEof, OnWire
  <2>2. OnWireOnce'
    BY <1>1, <1>11 DEF RecvEof, OnWireOnce
  <2>3. QED
    BY <1>11, <2>1, <2>2 DEF RecvEof, AnswerInv, callVars, agentVars
<1>12. ASSUME \/ Subscribe \/ WatchClosed \/ Consume \/ AgentExit
              \/ \E r \in Asks : AnswerAsk(r)
              \/ \E k \in CloseCallers : CloseTransport(k)
       PROVE  AnswerInv'
  <2>1. UNCHANGED <<outcome, respCh, answered, readerPc, readerTarget, wire>>
    BY <1>12 DEF Subscribe, WatchClosed, Consume, AgentExit, AnswerAsk,
                 CloseTransport, callVars, readerVars, agentVars
  <2>2. QED
    BY <2>1, SameWireAnswerInv DEF AnswerInv
<1>13. QED
  BY <1>2, <1>3, <1>4, <1>5, <1>6, <1>7, <1>9, <1>10, <1>11, <1>12
     DEF Next, ReadLoop

-----------------------------------------------------------------------------
(* AnswerNotLost.                                                          *)

\* An open client has an entry for every answer that it reads
\* (client.go:172-177): its call is in flight, since nothing else could have
\* ended it.
LEMMA AnsweredIsPending ==
  ASSUME ClientAssumption, TypeOK, CallInv, LinkInv, PendingIsInFlight,
         AnswerInv, ~closed, NEW c \in Calls, OnWire(c)
  PROVE  c \in pending
<1>1. c \in answered /\ outcome[c] # "answer"
  BY DEF AnswerInv
<1>2. /\ callPc[c] # "idle" /\ outcome[c] # "writeError"
      /\ outcome[c] = None <=> callPc[c] \in Waiting \cup {"idle"}
  BY <1>1 DEF CallInv
<1>3. outcome[c] = None
  BY <1>1, <1>2 DEF TypeOK, CallTypeOK, Outcomes, LinkInv
<1>4. QED
  BY <1>2, <1>3 DEF PendingIsInFlight, Waiting

\* While the client is open, whoever takes an answer puts it in the next place
\* (client.go:110-115, 172-177).
LEMMA NotLostStep ==
  ASSUME ClientAssumption, TypeOK, CallInv, CloserInv, LinkInv,
         PendingIsInFlight, AnswerInv, AnswerNotLost, Next
  PROVE  AnswerNotLost'
<1> SUFFICES ASSUME NEW d \in answered', ~closed'
             PROVE  \/ OnWire(d)'
                    \/ (readerPc = "deliver" /\ readerTarget = d)'
                    \/ (respCh[d] = "answer")'
                    \/ (outcome[d] = "answer")'
  BY DEF AnswerNotLost, OnWire, Answer
<1>1. CallTypeOK /\ ReaderTypeOK /\ OnWireOnce /\ answered \subseteq Calls
  BY DEF TypeOK, AnswerInv, AgentTypeOK
<1>2. ASSUME d \in answered, ~closed
      PROVE  \/ OnWire(d)
             \/ readerPc = "deliver" /\ readerTarget = d
             \/ respCh[d] = "answer"
             \/ outcome[d] = "answer"
  BY <1>2 DEF AnswerNotLost, OnWire
<1>3. ASSUME NEW c \in Calls, Register(c) \/ SendRecvStep(c)
      PROVE  \/ OnWire(d)'
             \/ readerPc' = "deliver" /\ readerTarget' = d
             \/ respCh'[d] = "answer"
             \/ outcome'[d] = "answer"
  <2>1. UNCHANGED <<readerPc, readerTarget, answered, wire, closed>>
    BY <1>3 DEF SendRecvStep, Register, SendRequest, SendFails, SelectResponse,
                SelectClosed, Park, RemovePending, readerVars, agentVars,
                closeVars
  <2>2. OnWire(d)' <=> OnWire(d)
    BY <2>1 DEF OnWire
  <2>3. respCh[d] = "answer" =>
          respCh'[d] = "answer" \/ outcome'[d] = "answer"
    BY <1>1, <1>3, <2>1 DEF SendRecvStep, Register, SendRequest, SendFails,
         SelectResponse, SelectClosed, Park, RemovePending, CallTypeOK
  <2>4. outcome[d] = "answer" => outcome'[d] = "answer"
    BY <1>1, <1>3, <2>1 DEF SendRecvStep, Register, SendRequest, SendFails,
         SelectResponse, SelectClosed, Park, RemovePending, CallTypeOK,
         CallInv, Waiting, ClientAssumption
  <2>5. QED
    BY <1>2, <2>1, <2>2, <2>3, <2>4
<1>4. CASE RecvAnswer
  <2>1. PICK c \in Calls : Head(wire) = Answer(c)
    <3>1. Head(wire) \in Frames
      BY <1>1, <1>4 DEF RecvAnswer, ReaderTypeOK
    <3>2. QED
      BY <1>4, <3>1 DEF RecvAnswer, Frames, Answer
  <2>2. /\ Head(wire).id = c /\ OnWire(c)
        /\ OnWire(d) => OnWire(d)' \/ d = c
    BY <1>1, <1>4, <2>1, TailOnWire DEF RecvAnswer, Answer, agentVars
  <2>3. ~closed /\ readerPc = "recv"
        /\ UNCHANGED <<outcome, respCh, answered>>
    BY <1>4 DEF RecvAnswer, callVars, closeVars, agentVars
  <2>4. c \in pending
    BY <2>2, <2>3, AnsweredIsPending
  <2>5. readerPc' = "deliver" /\ readerTarget' = c
    BY <1>4, <2>2, <2>4 DEF RecvAnswer
  <2>6. QED
    BY <1>2, <2>2, <2>3, <2>5
<1>5. CASE Deliver
  <2>1. /\ UNCHANGED <<answered, wire, closed>>
        /\ OnWire(d)' <=> OnWire(d)
    BY <1>5 DEF Deliver, OnWire, agentVars, closeVars
  <2>2. readerTarget = d => respCh'[d] = "answer" \/ outcome'[d] = "answer"
    BY <1>1, <1>5, <2>1 DEF Deliver, SendTo, CallTypeOK
  <2>3. (respCh[d] = "answer" => respCh'[d] = "answer")
        /\ (outcome[d] = "answer" => outcome'[d] = "answer")
    BY <1>1, <1>5, <2>1 DEF Deliver, SendTo, CallTypeOK
  <2>4. QED
    BY <1>2, <2>1, <2>2, <2>3
<1>6. CASE RecvUpdate \/ RecvAsk
  <2>1. /\ wire # <<>> /\ wire' = Tail(wire)
        /\ Head(wire) # Answer(d)
        /\ UNCHANGED <<outcome, respCh, answered, readerVars, closed>>
    BY <1>6 DEF RecvUpdate, RecvAsk, Answer, callVars, agentVars, closeVars
  <2>2. OnWire(d) => OnWire(d)'
    BY <1>1, <2>1, TailOnWire
  <2>3. QED
    BY <1>2, <2>1, <2>2 DEF readerVars
<1>7. ASSUME NEW f, wire' = Append(wire, f),
             d \in answered \/ f = Answer(d),
             UNCHANGED <<outcome, respCh, readerVars, closed>>
      PROVE  \/ OnWire(d)'
             \/ readerPc' = "deliver" /\ readerTarget' = d
             \/ respCh'[d] = "answer"
             \/ outcome'[d] = "answer"
  <2>1. OnWire(d) \/ f = Answer(d) => OnWire(d)'
    BY <1>7, AppendWire DEF OnWire, Answer
  <2>2. QED
    BY <1>2, <1>7, <2>1 DEF readerVars
<1>8. ASSUME NEW c \in Calls, AgentAnswer(c)
      PROVE  \/ OnWire(d)'
             \/ readerPc' = "deliver" /\ readerTarget' = d
             \/ respCh'[d] = "answer"
             \/ outcome'[d] = "answer"
  BY <1>7, <1>8 DEF AgentAnswer, callVars, closeVars
<1>9. ASSUME AgentUpdate \/ \E r \in Asks : AgentAsk(r)
      PROVE  \/ OnWire(d)'
             \/ readerPc' = "deliver" /\ readerTarget' = d
             \/ respCh'[d] = "answer"
             \/ outcome'[d] = "answer"
  BY <1>7, <1>9 DEF AgentUpdate, AgentAsk, callVars, closeVars, agentVars
<1>10. ASSUME NEW k \in Closers, CloseClosed(k) \/ CloseSend(k)
       PROVE  FALSE
  BY <1>10 DEF CloseClosed, CloseSend, CloserInv, Body
<1>11. ASSUME \/ RecvEof \/ Subscribe \/ WatchClosed \/ Consume \/ AgentExit
              \/ \E r \in Asks : AnswerAsk(r)
              \/ \E k \in Closers :
                   \/ CloseTransport(k) \/ CloseAgain(k) \/ CloseLock(k)
                   \/ CloseNext(k) \/ CloseUnlock(k)
       PROVE  \/ OnWire(d)'
              \/ readerPc' = "deliver" /\ readerTarget' = d
              \/ respCh'[d] = "answer"
              \/ outcome'[d] = "answer"
  <2>1. /\ UNCHANGED <<outcome, respCh, answered, wire, closed, readerTarget>>
        /\ readerPc = "deliver" => readerPc' = "deliver"
    BY <1>11 DEF RecvEof, Subscribe, WatchClosed, Consume, AgentExit, AnswerAsk,
         CloseTransport, CloseAgain, CloseLock, CloseNext, CloseUnlock,
         callVars, readerVars, agentVars, closeVars
  <2>2. OnWire(d)' <=> OnWire(d)
    BY <2>1 DEF OnWire
  <2>3. QED
    BY <1>2, <2>1, <2>2
<1>12. QED
  BY <1>3, <1>4, <1>5, <1>6, <1>8, <1>9, <1>10, <1>11
     DEF Next, Closers, ReadLoop, ClosePending

-----------------------------------------------------------------------------
(* UpdateInv.                                                              *)

\* Moving the first of one queue to the end of another keeps both in line.
LEMMA MoveHead ==
  ASSUME NEW S, NEW s \in Seq(S), NEW t \in Seq(S), t # <<>>
  PROVE  Append(s, Head(t)) \o Tail(t) = s \o t
OBVIOUS

\* What is appended to the buffer is appended to all that is seen.
LEMMA AppendBehind ==
  ASSUME NEW S, NEW s \in Seq(S), NEW t \in Seq(S), NEW e \in S
  PROVE  s \o Append(t, e) = Append(s \o t, e)
OBVIOUS

\* The next update to be read is the one after the last that was handled.
LEMMA HeadIsNext ==
  ASSUME ClientAssumption, TypeOK, WireUpdates, wire # <<>>,
         Head(wire).kind = "update"
  PROVE  Head(wire).id = handled + 1 /\ handled + 1 <= sentUpdates
<1>1. /\ handled \in Nat /\ sentUpdates \in Nat /\ Head(wire).id \in Nat
      /\ wire \in Seq(Frames) /\ Len(wire) \in Nat /\ 1 \in 1..Len(wire)
      /\ Head(wire) = wire[1]
  BY HeadFrame, UpdateCapNat DEF TypeOK, ReaderTypeOK, UpdateTypeOK, AgentTypeOK
<1>2. handled < wire[1].id /\ wire[1].id <= sentUpdates
  BY <1>1 DEF WireUpdates
<1>3. PICK i \in 1..Len(wire) : wire[i] = Update(handled + 1)
  <2>1. handled + 1 \in (handled + 1)..sentUpdates
    BY <1>1, <1>2
  <2>2. QED
    BY <2>1 DEF WireUpdates
<1>4. wire[i].kind = "update" /\ wire[i].id = handled + 1
  BY <1>3 DEF Update
<1>5. 1 < i => wire[1].id < wire[i].id
  BY <1>1, <1>4 DEF WireUpdates
<1>6. QED
  BY <1>1, <1>2, <1>4, <1>5

\* The reader handles every update the agent sent, in the order it sent them
\* (client.go:154-159).
LEMMA UpdateStep ==
  ASSUME ClientAssumption, TypeOK, WireUpdates, Next
  PROVE  WireUpdates'
<1>1. /\ handled \in Nat /\ sentUpdates \in Nat /\ wire \in Seq(Frames)
      /\ Len(wire) \in Nat
  BY UpdateCapNat DEF TypeOK, ReaderTypeOK, UpdateTypeOK, AgentTypeOK
<1>2. ASSUME wire # <<>>, wire' = Tail(wire), UNCHANGED sentUpdates,
             \/ Head(wire).kind = "update" /\ handled' = handled + 1
             \/ Head(wire).kind # "update" /\ handled' = handled
      PROVE  WireUpdates'
  <2>1. handled' <= sentUpdates'
    BY <1>1, <1>2, HeadIsNext DEF WireUpdates
  <2>2. ASSUME NEW i \in 1..Len(wire'), wire'[i].kind = "update"
        PROVE  handled' < wire'[i].id /\ wire'[i].id <= sentUpdates'
    <3>1. /\ i + 1 \in 1..Len(wire) /\ wire'[i] = wire[i + 1]
          /\ 1 \in 1..Len(wire) /\ Head(wire) = wire[1] /\ 1 < i + 1
      BY <1>2, TailWire
    <3>2. /\ handled < wire[i + 1].id /\ wire[i + 1].id <= sentUpdates
          /\ wire[1].kind = "update" => wire[1].id < wire[i + 1].id
      BY <2>2, <3>1 DEF WireUpdates
    <3>3. wire[i + 1].id \in Nat
      <4>1. wire[i + 1] \in Frames /\ wire[i + 1].kind = "update"
        BY <1>1, <2>2, <3>1
      <4>2. QED
        BY <4>1, UpdateCapNat DEF Frames
    <3>4. QED
      BY <1>1, <1>2, <3>1, <3>2, <3>3, HeadIsNext
  <2>3. ASSUME NEW i \in 1..Len(wire'), NEW j \in 1..Len(wire'),
               wire'[i].kind = "update", wire'[j].kind = "update", i < j
        PROVE  wire'[i].id < wire'[j].id
    <3>1. /\ i + 1 \in 1..Len(wire) /\ wire'[i] = wire[i + 1]
          /\ j + 1 \in 1..Len(wire) /\ wire'[j] = wire[j + 1]
      BY <1>2, TailWire
    <3>2. i + 1 < j + 1
      BY <2>3
    <3>3. QED
      BY <2>3, <3>1, <3>2 DEF WireUpdates
  <2>4. ASSUME NEW n \in (handled' + 1)..sentUpdates'
        PROVE  \E i \in 1..Len(wire') : wire'[i] = Update(n)
    <3>1. n \in (handled + 1)..sentUpdates
      BY <1>1, <1>2
    <3>2. PICK i \in 1..Len(wire) : wire[i] = Update(n)
      BY <3>1 DEF WireUpdates
    <3>3. wire[i].kind = "update" /\ wire[i].id = n
      BY <3>2 DEF Update
    <3>4. i # 1
      <4>1. Head(wire) = wire[1]
        BY <1>2, TailWire
      <4>2. CASE Head(wire).kind = "update"
        <5>1. wire[1].id = handled + 1 /\ n # handled + 1
          BY <1>1, <1>2, <4>1, <4>2, HeadIsNext
        <5>2. QED
          BY <3>3, <5>1
      <4>3. CASE Head(wire).kind # "update"
        BY <3>3, <4>1, <4>3
      <4>4. QED
        BY <4>2, <4>3
    <3>5. i \in 2..Len(wire)
      BY <3>4
    <3>6. i - 1 \in 1..Len(wire') /\ wire'[i - 1] = Update(n)
      BY <1>2, <3>2, <3>5, TailWire
    <3>7. QED
      BY <3>6
  <2>5. QED
    BY <2>1, <2>2, <2>3, <2>4 DEF WireUpdates, Update
<1>3. ASSUME NEW f, wire' = Append(wire, f), UNCHANGED handled,
             \/ f = Update(sentUpdates + 1) /\ sentUpdates' = sentUpdates + 1
             \/ f.kind # "update" /\ sentUpdates' = sentUpdates
      PROVE  WireUpdates'
  <2>1. /\ Len(wire') = Len(wire) + 1 /\ wire'[Len(wire) + 1] = f
        /\ \A i \in 1..Len(wire) : wire'[i] = wire[i]
        /\ \A i \in 1..Len(wire') : i \in 1..Len(wire) \/ i = Len(wire) + 1
    BY <1>3, AppendWire
  <2>2. f.kind = "update" =>
          f.id = sentUpdates' /\ sentUpdates' = sentUpdates + 1
    BY <1>3 DEF Update
  <2>3. sentUpdates' \in Nat /\ sentUpdates <= sentUpdates'
    BY <1>1, <1>3
  <2>4. \A i \in 1..Len(wire) : wire[i].kind = "update" =>
          /\ wire[i].id \in Nat
          /\ handled < wire[i].id /\ wire[i].id <= sentUpdates
    <3>1. ASSUME NEW i \in 1..Len(wire), wire[i].kind = "update"
          PROVE  wire[i].id \in Nat
      <4>1. wire[i] \in Frames
        BY <1>1
      <4>2. QED
        BY <3>1, <4>1, UpdateCapNat DEF Frames
    <3>2. QED
      BY <3>1 DEF WireUpdates
  <2>5. handled' <= sentUpdates'
    BY <1>1, <1>3, <2>3 DEF WireUpdates
  <2>6. ASSUME NEW i \in 1..Len(wire'), wire'[i].kind = "update"
        PROVE  handled' < wire'[i].id /\ wire'[i].id <= sentUpdates'
    <3>1. CASE i \in 1..Len(wire)
      BY <1>1, <1>3, <2>1, <2>3, <2>4, <2>6, <3>1
    <3>2. CASE i = Len(wire) + 1
      BY <1>1, <1>3, <2>1, <2>2, <2>3, <2>6, <3>2 DEF WireUpdates
    <3>3. QED
      BY <2>1, <3>1, <3>2
  <2>7. ASSUME NEW i \in 1..Len(wire'), NEW j \in 1..Len(wire'),
               wire'[i].kind = "update", wire'[j].kind = "update", i < j
        PROVE  wire'[i].id < wire'[j].id
    <3>1. i \in 1..Len(wire) /\ wire'[i] = wire[i]
      BY <1>1, <2>1, <2>7
    <3>2. CASE j \in 1..Len(wire)
      BY <2>1, <2>7, <3>1, <3>2 DEF WireUpdates
    <3>3. CASE j = Len(wire) + 1
      BY <1>1, <2>1, <2>2, <2>3, <2>4, <2>7, <3>1, <3>3
    <3>4. QED
      BY <2>1, <3>2, <3>3
  <2>8. ASSUME NEW n \in (handled' + 1)..sentUpdates'
        PROVE  \E i \in 1..Len(wire') : wire'[i] = Update(n)
    <3>1. CASE n \in (handled + 1)..sentUpdates
      <4>1. PICK i \in 1..Len(wire) : wire[i] = Update(n)
        BY <3>1 DEF WireUpdates
      <4>2. i \in 1..Len(wire') /\ wire'[i] = Update(n)
        BY <1>1, <2>1, <4>1
      <4>3. QED
        BY <4>2
    <3>2. CASE n \notin (handled + 1)..sentUpdates
      <4>1. f = Update(n)
        BY <1>1, <1>3, <3>2
      <4>2. Len(wire) + 1 \in 1..Len(wire')
        BY <1>1, <2>1
      <4>3. QED
        BY <2>1, <4>1, <4>2
    <3>3. QED
      BY <3>1, <3>2
  <2>9. QED
    BY <2>5, <2>6, <2>7, <2>8 DEF WireUpdates, Update
<1>4. ASSUME UNCHANGED <<handled, sentUpdates, wire>>
      PROVE  WireUpdates'
  BY <1>4 DEF WireUpdates, Update
<1>5. CASE RecvUpdate
  BY <1>2, <1>5 DEF RecvUpdate, agentVars
<1>6. CASE RecvAnswer \/ RecvAsk
  BY <1>2, <1>6 DEF RecvAnswer, RecvAsk, agentVars, updateVars
<1>7. CASE AgentUpdate
  BY <1>3, <1>7 DEF AgentUpdate, updateVars
<1>8. ASSUME NEW c \in Calls, AgentAnswer(c)
      PROVE  WireUpdates'
  <2>1. Answer(c).kind # "update"
    BY DEF Answer
  <2>2. QED
    BY <1>3, <1>8, <2>1 DEF AgentAnswer, updateVars
<1>9. ASSUME NEW r \in Asks, AgentAsk(r)
      PROVE  WireUpdates'
  <2>1. Ask(r).kind # "update"
    BY DEF Ask
  <2>2. QED
    BY <1>3, <1>9, <2>1 DEF AgentAsk, updateVars, agentVars
<1>10. ASSUME NEW c \in Calls, Register(c) \/ SendRecvStep(c)
       PROVE  WireUpdates'
  <2>1. UNCHANGED <<handled, sentUpdates, wire>>
    BY <1>10 DEF SendRecvStep, Register, SendRequest, SendFails, SelectResponse,
                 SelectClosed, Park, RemovePending, updateVars, agentVars
  <2>2. QED
    BY <1>4, <2>1
<1>11. ASSUME \/ Deliver \/ RecvEof \/ Subscribe \/ WatchClosed \/ Consume
              \/ AgentExit
              \/ \E r \in Asks : AnswerAsk(r)
              \/ \E k \in Closers : CloseTransport(k) \/ ClosePending(k)
       PROVE  WireUpdates'
  <2>1. UNCHANGED <<handled, sentUpdates, wire>>
    BY <1>11 DEF Deliver, RecvEof, Subscribe, WatchClosed, Consume, AgentExit,
         AnswerAsk, CloseTransport, ClosePending, CloseClosed, CloseAgain,
         CloseLock, CloseNext, CloseSend, CloseUnlock, updateVars, agentVars
  <2>2. QED
    BY <1>4, <2>1
<1>12. QED
  BY <1>5, <1>6, <1>7, <1>8, <1>9, <1>10, <1>11 DEF Next, Closers, ReadLoop

-----------------------------------------------------------------------------
(* SeenInOrder.                                                            *)

\* What the handler drops leaves a gap; what it keeps stays in order
\* (client.go:482-487).
LEMMA SeenStep ==
  ASSUME ClientAssumption, TypeOK, WireUpdates, SeenInOrder, Next
  PROVE  SeenInOrder'
<1>1. /\ handled \in Nat
      /\ consumed \in Seq(1..MaxUpdates) /\ updates \in Seq(1..MaxUpdates)
  BY DEF TypeOK, UpdateTypeOK
<1>2. Seen \in Seq(1..MaxUpdates) /\ Len(Seen) \in Nat
  BY <1>1 DEF Seen
<1>3. \A i \in 1..Len(Seen) : Seen[i] \in Nat
  BY <1>2, UpdateCapNat
<1>4. ASSUME Seen' = Seen, handled' \in Nat, handled <= handled'
      PROVE  SeenInOrder'
  BY <1>1, <1>3, <1>4 DEF SeenInOrder
<1>5. CASE RecvUpdate
  <2>1. Head(wire).id = handled + 1 /\ Head(wire).id \in 1..MaxUpdates
    BY <1>5, HeadIsNext, HeadFrame DEF RecvUpdate, TypeOK
  <2>2. handled' = handled + 1 /\ consumed' = consumed
    BY <1>5 DEF RecvUpdate
  <2>3. CASE updates' = updates
    BY <1>1, <1>4, <2>2, <2>3 DEF Seen
  <2>4. CASE updates' = Append(updates, Head(wire).id)
    <3>1. Seen' = Append(Seen, handled + 1)
      BY <1>1, <2>1, <2>2, <2>4, AppendBehind DEF Seen
    <3>2. /\ Len(Seen') = Len(Seen) + 1 /\ Seen'[Len(Seen) + 1] = handled + 1
          /\ \A i \in 1..Len(Seen) : Seen'[i] = Seen[i]
      BY <1>2, <3>1
    <3>3. ASSUME NEW i \in 1..Len(Seen')
          PROVE  Seen'[i] <= handled'
      <4>1. CASE i \in 1..Len(Seen)
        <5>1. Seen'[i] = Seen[i] /\ Seen[i] \in Nat /\ Seen[i] <= handled
          BY <1>3, <3>2, <4>1 DEF SeenInOrder
        <5>2. QED
          BY <1>1, <2>2, <5>1
      <4>2. CASE i = Len(Seen) + 1
        BY <1>1, <2>2, <3>2, <4>2
      <4>3. QED
        BY <1>2, <3>2, <4>1, <4>2
    <3>4. ASSUME NEW i \in 1..Len(Seen'), NEW j \in 1..Len(Seen'), i < j
          PROVE  Seen'[i] < Seen'[j]
      <4>1. i \in 1..Len(Seen) /\ Seen'[i] = Seen[i] /\ Seen[i] <= handled
        BY <1>2, <3>2, <3>4 DEF SeenInOrder
      <4>2. CASE j \in 1..Len(Seen)
        BY <3>2, <3>4, <4>1, <4>2 DEF SeenInOrder
      <4>3. CASE j = Len(Seen) + 1
        BY <1>1, <1>3, <3>2, <4>1, <4>3
      <4>4. QED
        BY <1>2, <3>2, <4>2, <4>3
    <3>5. QED
      BY <3>3, <3>4 DEF SeenInOrder
  <2>5. QED
    BY <1>5, <2>3, <2>4 DEF RecvUpdate, SessionUpdate
<1>6. CASE Consume
  <2>1. Seen' = Seen
    BY <1>1, <1>6, MoveHead DEF Consume, Seen
  <2>2. QED
    BY <1>1, <1>4, <1>6, <2>1 DEF Consume
<1>7. ASSUME NEW c \in Calls,
             Register(c) \/ SendRecvStep(c) \/ AgentAnswer(c)
      PROVE  SeenInOrder'
  <2>1. UNCHANGED <<consumed, updates, handled>>
    BY <1>7 DEF SendRecvStep, Register, SendRequest, SendFails, SelectResponse,
                SelectClosed, Park, RemovePending, AgentAnswer, updateVars
  <2>2. QED
    BY <1>1, <1>4, <2>1 DEF Seen
<1>8. ASSUME \/ RecvAnswer \/ RecvAsk \/ Deliver \/ RecvEof
             \/ Subscribe \/ WatchClosed \/ AgentExit \/ AgentUpdate
             \/ \E r \in Asks : AnswerAsk(r) \/ AgentAsk(r)
             \/ \E k \in Closers : CloseTransport(k) \/ ClosePending(k)
      PROVE  SeenInOrder'
  <2>1. UNCHANGED <<consumed, updates, handled>>
    BY <1>8 DEF RecvAnswer, RecvAsk, Deliver, RecvEof, Subscribe, WatchClosed,
         AgentExit, AgentUpdate, AnswerAsk, AgentAsk, CloseTransport,
         ClosePending, CloseClosed, CloseAgain, CloseLock, CloseNext, CloseSend,
         CloseUnlock, updateVars
  <2>2. QED
    BY <1>1, <1>4, <2>1 DEF Seen
<1>9. QED
  BY <1>5, <1>6, <1>7, <1>8 DEF Next, Closers, ReadLoop

-----------------------------------------------------------------------------
(* BeforeInv.                                                              *)

\* An answer that is read has every update that was sent before it behind it.
LEMMA HeadAnswerLast ==
  ASSUME ClientAssumption, TypeOK, WireUpdates, BeforeInv, wire # <<>>,
         NEW c \in Calls, Head(wire) = Answer(c)
  PROVE  sentBefore[c] <= handled
<1>1. /\ handled \in Nat /\ sentUpdates \in Nat /\ sentBefore[c] \in Nat
      /\ wire \in Seq(Frames) /\ Len(wire) \in Nat /\ 1 \in 1..Len(wire)
      /\ Head(wire) = wire[1]
  BY UpdateCapNat DEF TypeOK, ReaderTypeOK, UpdateTypeOK, AgentTypeOK
<1>2. SUFFICES ASSUME handled < sentBefore[c]
               PROVE  FALSE
  BY <1>1
<1>3. sentBefore[c] \in (handled + 1)..sentUpdates
  BY <1>1, <1>2 DEF BeforeInv
<1>4. PICK i \in 1..Len(wire) : wire[i] = Update(sentBefore[c])
  BY <1>3 DEF WireUpdates
<1>5. wire[i].kind = "update" /\ wire[i].id = sentBefore[c] /\ i # 1
  BY <1>1, <1>4 DEF Update, Answer
<1>6. sentBefore[c] < wire[i].id
  BY <1>1, <1>5 DEF BeforeInv
<1>7. QED
  BY <1>1, <1>5, <1>6

\* The reader comes to an answer after the updates sent before it
\* (client.go:139-178).
LEMMA BeforeStep ==
  ASSUME ClientAssumption, TypeOK, WireUpdates, AnswerInv, BeforeInv, Next
  PROVE  BeforeInv'
<1> DEFINE Sent ==
             /\ \A c \in Calls : sentBefore[c] <= sentUpdates
             /\ \A c \in Calls : \A i, j \in 1..Len(wire) :
                  /\ wire[i] = Answer(c) /\ wire[j].kind = "update" /\ i < j
                  => sentBefore[c] < wire[j].id
           Got ==
             \A c \in Calls :
               readerTarget = c \/ respCh[c] = "answer" \/ outcome[c] = "answer"
                 => sentBefore[c] <= handled
<1>1. /\ handled \in Nat /\ sentUpdates \in Nat
      /\ \A c \in Calls : sentBefore[c] \in Nat
      /\ wire \in Seq(Frames) /\ Len(wire) \in Nat /\ CallTypeOK
  BY UpdateCapNat DEF TypeOK, ReaderTypeOK, UpdateTypeOK, AgentTypeOK
<1>2. BeforeInv <=> Sent /\ Got
  BY DEF BeforeInv
<1>3. BeforeInv' <=> Sent' /\ Got'
  BY DEF BeforeInv
<1> HIDE DEF Sent, Got
<1>4. ASSUME UNCHANGED <<sentBefore, sentUpdates, wire>>
      PROVE  Sent'
  BY <1>2, <1>4 DEF Sent, Answer
<1>5. ASSUME wire # <<>>, wire' = Tail(wire),
             UNCHANGED <<sentBefore, sentUpdates>>
      PROVE  Sent'
  <2>1. ASSUME NEW c \in Calls,
               NEW i \in 1..Len(wire'), NEW j \in 1..Len(wire'),
               wire'[i] = Answer(c), wire'[j].kind = "update", i < j
        PROVE  sentBefore'[c] < wire'[j].id
    <3>1. /\ i + 1 \in 1..Len(wire) /\ wire'[i] = wire[i + 1]
          /\ j + 1 \in 1..Len(wire) /\ wire'[j] = wire[j + 1]
      BY <1>5, TailWire
    <3>2. i + 1 < j + 1
      BY <2>1
    <3>3. QED
      BY <1>2, <1>5, <2>1, <3>1, <3>2 DEF Sent
  <2>2. QED
    BY <1>2, <1>5, <2>1 DEF Sent, Answer
<1>6. ASSUME \A c \in Calls :
               \/ readerTarget' = c \/ respCh'[c] = "answer"
               \/ outcome'[c] = "answer"
               => \/ readerTarget = c \/ respCh[c] = "answer"
                  \/ outcome[c] = "answer" \/ sentBefore[c] <= handled',
             UNCHANGED sentBefore, handled' \in Nat, handled <= handled'
      PROVE  Got'
  BY <1>1, <1>2, <1>6 DEF Got
<1>7. ASSUME NEW f, wire' = Append(wire, f),
             UNCHANGED <<handled, readerVars, respCh, outcome>>,
             \/ f = Update(sentUpdates + 1) /\ sentUpdates' = sentUpdates + 1
                /\ UNCHANGED sentBefore
             \/ f.kind # "update" /\ UNCHANGED sentUpdates
                /\ \E c \in Calls :
                     /\ f = Answer(c) /\ c \notin answered
                     /\ sentBefore' = [sentBefore EXCEPT ![c] = sentUpdates]
             \/ f.kind \notin {"update", "answer"}
                /\ UNCHANGED <<sentBefore, sentUpdates>>
      PROVE  BeforeInv'
  <2>1. /\ Len(wire') = Len(wire) + 1 /\ wire'[Len(wire) + 1] = f
        /\ \A i \in 1..Len(wire) : wire'[i] = wire[i]
        /\ \A i \in 1..Len(wire') : i \in 1..Len(wire) \/ i = Len(wire) + 1
    BY <1>7, AppendWire
  <2>2. \A c \in Calls : c \in answered => sentBefore'[c] = sentBefore[c]
    BY <1>7 DEF TypeOK, AgentTypeOK
  <2>3. ASSUME NEW d \in Calls
        PROVE  sentBefore'[d] <= sentUpdates'
    <3>1. sentBefore[d] <= sentUpdates /\ sentUpdates <= sentUpdates'
      BY <1>1, <1>2, <1>7 DEF Sent
    <3>2. sentBefore'[d] \in {sentBefore[d], sentUpdates}
      BY <1>7 DEF TypeOK, AgentTypeOK
    <3>3. sentUpdates' \in Nat
      BY <1>1, <1>7
    <3>4. QED
      BY <1>1, <3>1, <3>2, <3>3
  <2>4. ASSUME NEW c \in Calls,
               NEW i \in 1..Len(wire'), NEW j \in 1..Len(wire'),
               wire'[i] = Answer(c), wire'[j].kind = "update", i < j
        PROVE  sentBefore'[c] < wire'[j].id
    <3>1. i \in 1..Len(wire) /\ wire[i] = Answer(c)
      BY <1>1, <2>1, <2>4
    <3>2. sentBefore'[c] = sentBefore[c]
      BY <2>2, <3>1 DEF AnswerInv, OnWire
    <3>3. CASE j \in 1..Len(wire)
      BY <1>2, <2>1, <2>4, <3>1, <3>2, <3>3 DEF Sent
    <3>4. CASE j = Len(wire) + 1
      <4>1. f = Update(sentUpdates + 1)
        BY <1>7, <2>1, <2>4, <3>4
      <4>2. f.id = sentUpdates + 1
        BY <4>1 DEF Update
      <4>3. sentBefore[c] <= sentUpdates
        BY <1>2 DEF Sent
      <4>4. QED
        BY <1>1, <2>1, <3>2, <3>4, <4>2, <4>3
    <3>5. QED
      BY <2>1, <3>3, <3>4
  <2>5. Sent'
    BY <2>3, <2>4 DEF Sent, Answer
  <2>6. Got'
    BY <1>2, <1>7, <2>2 DEF Got, AnswerInv, readerVars
  <2>7. QED
    BY <1>3, <2>5, <2>6
<1>8. ASSUME NEW c \in Calls, Register(c) \/ SendRecvStep(c)
      PROVE  BeforeInv'
  <2>1. UNCHANGED <<sentBefore, sentUpdates, wire, handled, readerTarget>>
    BY <1>8 DEF SendRecvStep, Register, SendRequest, SendFails, SelectResponse,
                SelectClosed, Park, RemovePending, readerVars, agentVars,
                updateVars
  <2>2. \A d \in Calls : respCh'[d] = "answer" \/ outcome'[d] = "answer" =>
          respCh[d] = "answer" \/ outcome[d] = "answer"
    BY <1>1, <1>8 DEF SendRecvStep, Register, SendRequest, SendFails,
         SelectResponse, SelectClosed, Park, RemovePending, CallTypeOK,
         ClientAssumption
  <2>3. QED
    BY <1>1, <1>3, <1>4, <1>6, <2>1, <2>2
<1>9. CASE RecvAnswer
  <2>1. PICK c \in Calls : Head(wire) = Answer(c)
    <3>1. Head(wire) \in Frames
      BY <1>1, <1>9 DEF RecvAnswer
    <3>2. QED
      BY <1>9, <3>1 DEF RecvAnswer, Frames, Answer
  <2>2. sentBefore[c] <= handled
    BY <1>9, <2>1, HeadAnswerLast DEF RecvAnswer
  <2>3. /\ UNCHANGED <<sentBefore, sentUpdates, handled, respCh, outcome>>
        /\ wire # <<>> /\ wire' = Tail(wire)
        /\ readerTarget' \in {readerTarget, c}
    BY <1>9, <2>1 DEF RecvAnswer, Answer, callVars, agentVars, updateVars,
                      readerVars
  <2>4. QED
    BY <1>1, <1>3, <1>5, <1>6, <2>2, <2>3
<1>10. CASE RecvUpdate \/ RecvAsk
  <2>1. /\ UNCHANGED <<sentBefore, sentUpdates, respCh, outcome, readerTarget>>
        /\ wire # <<>> /\ wire' = Tail(wire)
        /\ handled' \in {handled, handled + 1}
    BY <1>10 DEF RecvUpdate, RecvAsk, callVars, agentVars, updateVars,
                 readerVars
  <2>2. QED
    BY <1>1, <1>3, <1>5, <1>6, <2>1
<1>11. CASE Deliver
  <2>1. /\ UNCHANGED <<sentBefore, sentUpdates, wire, handled>>
        /\ readerTarget \in Calls /\ readerTarget' = None
    BY <1>11 DEF Deliver, TypeOK, ReaderTypeOK, AnswerInv, agentVars,
                 updateVars
  <2>2. \A d \in Calls : respCh'[d] = "answer" \/ outcome'[d] = "answer" =>
          readerTarget = d \/ respCh[d] = "answer" \/ outcome[d] = "answer"
    BY <1>1, <1>11, <2>1 DEF Deliver, SendTo, CallTypeOK
  <2>3. \A d \in Calls : d # None
    BY DEF ClientAssumption
  <2>4. QED
    BY <1>1, <1>3, <1>4, <1>6, <2>1, <2>2, <2>3
<1>12. ASSUME NEW k \in Closers, ClosePending(k)
       PROVE  BeforeInv'
  <2>1. UNCHANGED <<sentBefore, sentUpdates, wire, handled, readerTarget>>
    BY <1>12 DEF ClosePending, CloseClosed, CloseAgain, CloseLock, CloseNext,
         CloseSend, CloseUnlock, readerVars, agentVars, updateVars
  <2>2. \A d \in Calls : respCh'[d] = "answer" \/ outcome'[d] = "answer" =>
          respCh[d] = "answer" \/ outcome[d] = "answer"
    <3>1. CASE CloseSend(k)
      <4>1. closeTarget \in Calls
        BY <3>1 DEF CloseSend, TypeOK, CloseTypeOK
      <4>2. QED
        BY <1>1, <3>1, <4>1 DEF CloseSend, SendTo, CallTypeOK
    <3>2. CASE CloseClosed(k)
      BY <1>1, <3>2 DEF CloseClosed, CallTypeOK
    <3>3. CASE CloseAgain(k) \/ CloseLock(k) \/ CloseNext(k) \/ CloseUnlock(k)
      BY <3>3 DEF CloseAgain, CloseLock, CloseNext, CloseUnlock, callVars
    <3>4. QED
      BY <1>12, <3>1, <3>2, <3>3 DEF ClosePending
  <2>3. QED
    BY <1>1, <1>3, <1>4, <1>6, <2>1, <2>2
<1>13. CASE AgentUpdate
  BY <1>7, <1>13 DEF AgentUpdate, callVars, updateVars
<1>14. ASSUME NEW c \in Calls, AgentAnswer(c)
       PROVE  BeforeInv'
  <2>1. Answer(c).kind # "update"
    BY DEF Answer
  <2>2. QED
    BY <1>7, <1>14, <2>1 DEF AgentAnswer, callVars, updateVars
<1>15. ASSUME NEW r \in Asks, AgentAsk(r)
       PROVE  BeforeInv'
  <2>1. Ask(r).kind \notin {"update", "answer"}
    BY DEF Ask
  <2>2. QED
    BY <1>7, <1>15, <2>1 DEF AgentAsk, callVars, updateVars, agentVars
<1>16. ASSUME \/ RecvEof \/ Subscribe \/ WatchClosed \/ Consume \/ AgentExit
              \/ \E r \in Asks : AnswerAsk(r)
              \/ \E k \in CloseCallers : CloseTransport(k)
       PROVE  BeforeInv'
  <2>1. UNCHANGED <<sentBefore, sentUpdates, wire, handled, readerTarget,
                    respCh, outcome>>
    BY <1>16 DEF RecvEof, Subscribe, WatchClosed, Consume, AgentExit, AnswerAsk,
         CloseTransport, callVars, readerVars, agentVars, updateVars
  <2>2. QED
    BY <1>1, <1>3, <1>4, <1>6, <2>1
<1>17. QED
  BY <1>8, <1>9, <1>10, <1>11, <1>12, <1>13, <1>14, <1>15, <1>16
     DEF Next, Closers, ReadLoop

-----------------------------------------------------------------------------
(* The invariant, and what follows from it.                                *)

\* The invariant holds before anything has happened.
LEMMA InitIInv == Init => IInv
<1> SUFFICES ASSUME Init PROVE IInv
  OBVIOUS
<1>1. wire = <<>> /\ Len(wire) = 0 /\ \A c \in Calls : ~OnWire(c)
  BY DEF Init, OnWire
<1>2. Seen = <<>> /\ Len(Seen) = 0
  BY DEF Init, Seen
<1>3. TypeOK
  BY InitType
<1>4. CallInv /\ CloserInv /\ LinkInv /\ PendingIsInFlight /\ AnswerNotLost
  BY ClientAssumption
     DEF Init, CallInv, CloserInv, LinkInv, PendingIsInFlight, AnswerNotLost,
         Waiting, Body, Down, ClientAssumption, Closers
<1>5. OnWireOnce /\ AnswerInv
  BY <1>1, ClientAssumption
     DEF Init, OnWireOnce, AnswerInv, ClientAssumption
<1>6. WireUpdates
  BY <1>1 DEF Init, WireUpdates
<1>7. SeenInOrder
  BY <1>2 DEF SeenInOrder
<1>8. BeforeInv
  BY <1>1, ClientAssumption DEF Init, BeforeInv, ClientAssumption
<1>9. QED
  BY <1>3, <1>4, <1>5, <1>6, <1>7, <1>8 DEF IInv

\* Every step keeps it.
LEMMA StepIInv == IInv /\ [Next]_vars => IInv'
<1> SUFFICES ASSUME IInv, [Next]_vars PROVE IInv'
  OBVIOUS
<1>1. CASE Next
  BY <1>1, ClientAssumption, StepType, CallStep, CloserStep, LinkStep,
     PendingStep, AnswerStep, NotLostStep, UpdateStep, SeenStep, BeforeStep
     DEF IInv
<1>2. CASE UNCHANGED vars
  <2>1. TypeOK'
    BY ClientAssumption, StepType DEF IInv
  <2>2. CallInv' /\ CloserInv' /\ LinkInv' /\ PendingIsInFlight'
    BY <1>2 DEF IInv, CallInv, CloserInv, LinkInv, PendingIsInFlight, Down,
         vars, callVars, closeVars, readerVars, agentVars
  <2>3. AnswerInv' /\ AnswerNotLost'
    BY <1>2 DEF IInv, AnswerInv, AnswerNotLost, OnWire, OnWireOnce, Answer,
         vars, callVars, closeVars, readerVars, agentVars
  <2>4. WireUpdates' /\ SeenInOrder' /\ BeforeInv'
    BY <1>2 DEF IInv, WireUpdates, SeenInOrder, Seen, BeforeInv, Update, Answer,
         vars, callVars, readerVars, updateVars, agentVars
  <2>5. QED
    BY <2>1, <2>2, <2>3, <2>4 DEF IInv
<1>3. QED
  BY <1>1, <1>2

\* The strengthening that the safety of the client rests on.
THEOREM Inductive == Spec => []IInv
BY InitIInv, StepIInv, PTL DEF Spec

\* The map holds the calls inside sendRecv and no other (client.go:89-92,
\* 305-327): no way out leaks an entry.
THEOREM PendingCorrect == Spec => []PendingIsInFlight
<1>1. IInv => PendingIsInFlight
  BY DEF IInv
<1>2. QED
  BY <1>1, Inductive, PTL

\* An open client loses no answer, however early it comes (client.go:172-177).
THEOREM NoAnswerLost == Spec => []AnswerNotLost
<1>1. IInv => AnswerNotLost
  BY DEF IInv
<1>2. QED
  BY <1>1, Inductive, PTL

\* The reader's send finds room or a receiver while the client is open
\* (client.go:176): the channel's only answer is the one it is about to send.
THEOREM ReaderRuns == Spec => []ReaderNotBlocked
<1>1. IInv => ReaderNotBlocked
  <2> SUFFICES ASSUME IInv, ~closed, readerPc = "deliver"
               PROVE  CanSend(readerTarget)
    BY DEF ReaderNotBlocked
  <2>1. readerTarget \in Calls
    BY DEF IInv, AnswerInv, TypeOK, ReaderTypeOK
  <2>2. respCh[readerTarget] # "answer" /\ respCh[readerTarget] # "closed"
    BY <2>1 DEF IInv, AnswerInv, LinkInv
  <2>3. QED
    BY <2>1, <2>2 DEF IInv, TypeOK, CallTypeOK, CanSend
<1>2. QED
  BY <1>1, Inductive, PTL

\* The subscriber sees updates in order and at most once, and a call returns its
\* answer after the updates that were sent before it (client.go:154-159,
\* 482-487).
THEOREM UpdatesOrdered == Spec => []UpdatesInOrder
<1>1. IInv => UpdatesInOrder
  <2> SUFFICES ASSUME IInv PROVE UpdatesInOrder
    OBVIOUS
  <2>1. \A i, j \in 1..Len(Seen) : i < j => Seen[i] < Seen[j]
    BY DEF IInv, SeenInOrder
  <2>2. ASSUME NEW c \in Calls, outcome[c] = "answer"
        PROVE  handled >= sentBefore[c]
    <3>1. handled \in Nat /\ sentBefore[c] \in Nat
      BY UpdateCapNat DEF IInv, TypeOK, UpdateTypeOK, AgentTypeOK
    <3>2. sentBefore[c] <= handled
      BY <2>2 DEF IInv, BeforeInv
    <3>3. QED
      BY <3>1, <3>2
  <2>3. QED
    BY <2>1, <2>2 DEF UpdatesInOrder, Seen
<1>2. QED
  BY <1>1, Inductive, PTL

\* closePending leaves no call parked, not even one that registered behind its
\* back (client.go:112-113, 317-327).
THEOREM NobodyStranded == Spec => []NoStrandedCall
<1>1. IInv => NoStrandedCall
  BY DEF IInv, CloserInv, LinkInv, NoStrandedCall
<1>2. QED
  BY <1>1, Inductive, PTL

-----------------------------------------------------------------------------
(* The client of acp/client.go implements RpcClient: every step of a       *)
(* goroutine is a step of a call that starts, is answered or returns, the  *)
(* connection going down, or nothing its callers can see.                  *)

\* What the refinement mapping makes of a call.
Phase == [c \in Calls |-> CASE callPc[c] = "idle" -> "idle"
                            [] callPc[c] = "done" -> "returned"
                            [] OTHER -> "waiting"]
Result == [c \in Calls |-> IF callPc[c] = "done" THEN outcome[c] ELSE None]

\* A call that neither starts nor returns is unchanged to its caller.
LEMMA SameCalls ==
  ASSUME \A c \in Calls : \/ callPc'[c] = callPc[c] /\ outcome'[c] = outcome[c]
                          \/ /\ callPc[c] \notin {"idle", "done"}
                             /\ callPc'[c] \notin {"idle", "done"}
  PROVE  Phase' = Phase /\ Result' = Result
<1>1. \A c \in Calls : Phase'[c] = Phase[c] /\ Result'[c] = Result[c]
  BY DEF Phase, Result
<1>2. QED
  BY <1>1 DEF Phase, Result

\* A step that no caller sees and that changes neither the link nor the
\* answers stutters.
LEMMA Stutters ==
  ASSUME Phase' = Phase, Result' = Result,
         UNCHANGED <<answered, stdinOpen, agentUp>>
  PROVE  [Rpc!Next]_(Rpc!rpcVars)
BY DEF Rpc!rpcVars, Phase, Result

\* The client begins where RpcClient does.
LEMMA InitRpc == Init => Rpc!Init
<1> SUFFICES ASSUME Init PROVE Rpc!Init
  OBVIOUS
<1>1. /\ Phase = [c \in Calls |-> "idle"]
      /\ Result = [c \in Calls |-> None]
  BY DEF Init, Phase, Result
<1>2. answered = {} /\ (stdinOpen /\ agentUp) = TRUE
  BY DEF Init
<1>3. QED
  BY <1>1, <1>2 DEF Rpc!Init, Phase, Result

\* A call starts when it registers its channel (client.go:79-92).
LEMMA RegisterStarts ==
  ASSUME IInv, NEW c \in Calls, Register(c)
  PROVE  Rpc!Start(c)
<1>1. /\ callPc \in [Calls -> CallPcs] /\ callPc[c] = "idle"
      /\ callPc' = [callPc EXCEPT ![c] = "registered"]
      /\ outcome' = outcome
  BY DEF IInv, TypeOK, CallTypeOK, Register
<1>2. Phase[c] = "idle" /\ Phase' = [Phase EXCEPT ![c] = "waiting"]
  BY <1>1 DEF Phase
<1>3. Result' = Result
  <2>1. \A d \in Calls : Result'[d] = Result[d]
    BY <1>1 DEF Result
  <2>2. QED
    BY <2>1 DEF Result
<1>4. UNCHANGED <<answered, stdinOpen, agentUp>>
  BY DEF Register, agentVars
<1>5. QED
  BY <1>2, <1>3, <1>4 DEF Rpc!Start, Phase, Result

\* It returns with its deferred removePending: an answer if the agent gave
\* one, an error if the connection is down.
LEMMA RemoveReturns ==
  ASSUME ClientAssumption, IInv, NEW c \in Calls, RemovePending(c)
  PROVE  Rpc!Return(c)
<1>1. /\ callPc \in [Calls -> CallPcs] /\ callPc[c] = "leaving"
      /\ callPc' = [callPc EXCEPT ![c] = "done"]
      /\ outcome' = outcome /\ outcome \in [Calls -> Outcomes]
  BY DEF IInv, TypeOK, CallTypeOK, RemovePending
<1>2. outcome[c] \in {"answer", "closed", "writeError"}
  <2>1. outcome[c] # None
    BY <1>1 DEF IInv, CallInv, Waiting
  <2>2. QED
    BY <1>1, <2>1 DEF Outcomes
<1>3. /\ outcome[c] = "answer" => c \in answered
      /\ outcome[c] # "answer" => ~(stdinOpen /\ agentUp)
  BY <1>2 DEF IInv, AnswerInv, LinkInv, Down
<1>4. /\ Phase[c] = "waiting"
      /\ Phase' = [Phase EXCEPT ![c] = "returned"]
  BY <1>1 DEF Phase
<1>5. Result' = [Result EXCEPT ![c] = outcome[c]]
  BY <1>1 DEF Result
<1>6. UNCHANGED <<answered, stdinOpen, agentUp>>
  BY DEF RemovePending, agentVars
<1>7. QED
  BY <1>2, <1>3, <1>4, <1>5, <1>6 DEF Rpc!Return, Phase, Result

\* The other steps of sendRecv are its caller's wait.
LEMMA SendRecvWaits ==
  ASSUME IInv, NEW c \in Calls,
         \/ SendRequest(c) \/ SendFails(c) \/ SelectResponse(c)
         \/ SelectClosed(c) \/ Park(c)
  PROVE  [Rpc!Next]_(Rpc!rpcVars)
<1>1. CallTypeOK
  BY DEF IInv, TypeOK
<1>2. \A d \in Calls : \/ callPc'[d] = callPc[d] /\ outcome'[d] = outcome[d]
                       \/ /\ callPc[d] \notin {"idle", "done"}
                          /\ callPc'[d] \notin {"idle", "done"}
  BY <1>1 DEF SendRequest, SendFails, SelectResponse, SelectClosed, Park,
              CallTypeOK
<1>3. UNCHANGED <<answered, stdinOpen, agentUp>>
  BY DEF SendRequest, SendFails, SelectResponse, SelectClosed, Park, agentVars
<1>4. QED
  BY <1>2, <1>3, SameCalls, Stutters

\* So are the steps that hand a call its result.
LEMMA HandingOver ==
  ASSUME IInv, Deliver \/ \E k \in Closers : CloseSend(k) \/ CloseClosed(k)
  PROVE  [Rpc!Next]_(Rpc!rpcVars)
<1>1. CallTypeOK
  BY DEF IInv, TypeOK
<1>2. \A c \in Calls : \/ callPc'[c] = callPc[c] /\ outcome'[c] = outcome[c]
                       \/ /\ callPc[c] \notin {"idle", "done"}
                          /\ callPc'[c] \notin {"idle", "done"}
  BY <1>1 DEF Deliver, CloseSend, CloseClosed, SendTo, CallTypeOK
<1>3. UNCHANGED <<answered, stdinOpen, agentUp>>
  BY DEF Deliver, CloseSend, CloseClosed, agentVars
<1>4. QED
  BY <1>2, <1>3, SameCalls, Stutters

\* The first end of the connection to go takes it down.
LEMMA LinkGoesDown ==
  ASSUME AgentExit \/ \E k \in CloseCallers : CloseTransport(k)
  PROVE  [Rpc!Next]_(Rpc!rpcVars)
<1>1. UNCHANGED <<callVars, answered>>
  BY DEF AgentExit, CloseTransport
<1>2. Phase' = Phase /\ Result' = Result
  BY <1>1 DEF Phase, Result, callVars
<1>3. (stdinOpen' /\ agentUp') = FALSE
  BY DEF AgentExit, CloseTransport
<1>4. CASE stdinOpen /\ agentUp
  BY <1>1, <1>2, <1>3, <1>4 DEF Rpc!Next, Rpc!LinkDown, Phase, Result
<1>5. CASE ~(stdinOpen /\ agentUp)
  BY <1>1, <1>2, <1>3, <1>5 DEF Rpc!rpcVars, Phase, Result
<1>6. QED
  BY <1>4, <1>5

\* The agent answers a call that has started, once.
LEMMA AgentReplies ==
  ASSUME IInv, NEW c \in Calls, AgentAnswer(c)
  PROVE  Rpc!Reply(c)
<1>1. /\ c \in requested /\ c \notin answered
      /\ answered' = answered \cup {c}
      /\ UNCHANGED <<callVars, stdinOpen, agentUp>>
  BY DEF AgentAnswer
<1>2. Phase[c] # "idle"
  BY <1>1 DEF IInv, CallInv, Phase
<1>3. Phase' = Phase /\ Result' = Result
  BY <1>1 DEF Phase, Result, callVars
<1>4. QED
  BY <1>1, <1>2, <1>3 DEF Rpc!Reply, Phase, Result

\* Every step of the client is one of RpcClient, or a stutter.
LEMMA StepRpc ==
  ASSUME ClientAssumption, IInv, [Next]_vars
  PROVE  [Rpc!Next]_(Rpc!rpcVars)
<1>1. ASSUME \/ UNCHANGED vars
             \/ RecvAnswer \/ RecvUpdate \/ RecvAsk \/ RecvEof
             \/ Subscribe \/ WatchClosed \/ Consume \/ AgentUpdate
             \/ \E r \in Asks : AnswerAsk(r) \/ AgentAsk(r)
             \/ \E k \in Closers : \/ CloseAgain(k) \/ CloseLock(k)
                                   \/ CloseNext(k) \/ CloseUnlock(k)
      PROVE  [Rpc!Next]_(Rpc!rpcVars)
  <2>1. UNCHANGED <<callVars, answered, stdinOpen, agentUp>>
    BY <1>1 DEF RecvAnswer, RecvUpdate, RecvAsk, RecvEof, Subscribe,
         WatchClosed, Consume, AgentUpdate, AnswerAsk, AgentAsk, CloseAgain,
         CloseLock, CloseNext, CloseUnlock, vars, agentVars
  <2>2. Phase' = Phase /\ Result' = Result
    BY <2>1 DEF Phase, Result, callVars
  <2>3. QED
    BY <2>1, <2>2, Stutters
<1>2. ASSUME NEW c \in Calls,
             Register(c) \/ RemovePending(c) \/ AgentAnswer(c)
      PROVE  Rpc!Next
  BY <1>2, RegisterStarts, RemoveReturns, AgentReplies DEF Rpc!Next
<1>3. QED
  BY <1>1, <1>2, SendRecvWaits, HandingOver, LinkGoesDown
     DEF Next, ReadLoop, SendRecvStep, ClosePending

\* acp.Client keeps its promise to its callers: a call returns at most once,
\* an answer only if the agent gave one, and an error of the connection only
\* if the connection is down (client.go:79-115).
THEOREM Implements == Spec => RpcSpec
<1>1. IInv /\ [Next]_vars => [Rpc!Next]_(Rpc!rpcVars)
  BY ClientAssumption, StepRpc
<1>2. QED
  BY <1>1, InitRpc, Inductive, PTL DEF Spec, RpcSpec, Rpc!Spec
-----------------------------------------------------------------------------
(* A client that stands still has returned every call it can return.       *)

\* What the client still has to do is under way somewhere: the reader that saw
\* the end of its input closes, so does whoever shut stdin, and the body of the
\* Once is through when a closer is; a call that waits for an agent that is up
\* reached it; a parked call has an empty channel; and a request of the agent
\* that was not handled is on the wire.
UnderWay ==
  /\ \A k \in Closers : closePc[k] = "done" => closeOnce = "finished"
  /\ readerPc = "closing" => closePc[Reader] # "idle"
  /\ ~stdinOpen => \E k \in Closers : closePc[k] # "idle"
  /\ \A c \in Calls :
       agentUp /\ callPc[c] \in {"selecting", "parked"} => c \in requested
  /\ \A c \in Calls : callPc[c] = "parked" => respCh[c] = None
  /\ \A r \in Asks : askPc[r] = "wired" =>
       \E i \in 1..Len(wire) : wire[i] = Ask(r)

\* The steps of sendRecv keep it.
LEMMA SendRecvUnderWay ==
  ASSUME ClientAssumption, TypeOK, UnderWay, NEW c \in Calls,
         Register(c) \/ SendRecvStep(c)
  PROVE  UnderWay'
<1>1. UNCHANGED <<closeVars, readerVars, stdinOpen, agentUp, askPc, wire>>
  BY DEF Register, SendRecvStep, SendRequest, SendFails, SelectResponse,
         SelectClosed, Park, RemovePending, agentVars
<1>2. \A d \in Calls : agentUp /\ callPc'[d] \in {"selecting", "parked"} =>
        d \in requested'
  BY DEF UnderWay, TypeOK, CallTypeOK, Register, SendRecvStep, SendRequest,
         SendFails, SelectResponse, SelectClosed, Park, RemovePending,
         agentVars
<1>3. \A d \in Calls : callPc'[d] = "parked" => respCh'[d] = None
  BY DEF UnderWay, TypeOK, CallTypeOK, Register, SendRecvStep, SendRequest,
         SendFails, SelectResponse, SelectClosed, Park, RemovePending
<1>4. QED
  BY <1>1, <1>2, <1>3 DEF UnderWay, closeVars, readerVars

\* A send on a call's channel fills it only when the call is not parked.
LEMMA SendToUnderWay ==
  ASSUME CallTypeOK, UnderWay, NEW c \in Calls, NEW v, SendTo(c, v)
  PROVE  \A d \in Calls :
           /\ callPc'[d] \in {"selecting", "parked"} => callPc'[d] = callPc[d]
           /\ callPc'[d] = "parked" => respCh'[d] = None
BY DEF SendTo, CallTypeOK, UnderWay

\* A frame behind the first is still there when the first is read.
LEMMA AskStays ==
  ASSUME ReaderTypeOK, wire # <<>>, NEW r \in Asks, Head(wire) # Ask(r),
         NEW i \in 1..Len(wire), wire[i] = Ask(r)
  PROVE  \E j \in 1..Len(Tail(wire)) : Tail(wire)[j] = Ask(r)
<1>1. /\ wire \in Seq(Frames) /\ Len(Tail(wire)) = Len(wire) - 1
      /\ \A j \in 1..Len(Tail(wire)) : Tail(wire)[j] = wire[j + 1]
      /\ Head(wire) = wire[1]
  BY HeadTail DEF ReaderTypeOK
<1>2. i # 1
  BY <1>1
<1>3. i - 1 \in 1..Len(Tail(wire)) /\ (i - 1) + 1 = i
  BY <1>1, <1>2
<1>4. Tail(wire)[i - 1] = Ask(r)
  BY <1>1, <1>3
<1>5. QED
  BY <1>3, <1>4

\* The steps of the reader keep it.
LEMMA ReadLoopUnderWay ==
  ASSUME ClientAssumption, TypeOK, UnderWay, ReadLoop
  PROVE  UnderWay'
<1>1. UNCHANGED agentVars
  BY DEF ReadLoop, RecvAnswer, Deliver, RecvUpdate, RecvAsk, RecvEof
<1>2. /\ \A k \in Closers : closePc'[k] = "done" => closeOnce' = "finished"
      /\ readerPc' = "closing" => closePc'[Reader] # "idle"
      /\ ~stdinOpen => \E k \in Closers : closePc'[k] # "idle"
  <2>1. CASE RecvEof
    <3>1. Reader \in Closers /\ closePc \in [Closers -> ClosePcs]
      BY DEF Closers, TypeOK, CloseTypeOK
    <3>2. closePc' = [closePc EXCEPT ![Reader] = "once"]
          /\ closeOnce' = closeOnce
      BY <2>1 DEF RecvEof
    <3>3. QED
      BY <3>1, <3>2 DEF UnderWay
  <2>2. CASE ~RecvEof
    <3>1. UNCHANGED closeVars /\ readerPc' # "closing"
      BY <2>2 DEF ReadLoop, RecvAnswer, Deliver, RecvUpdate, RecvAsk,
                  readerVars
    <3>2. QED
      BY <3>1 DEF UnderWay, closeVars
  <2>3. QED
    BY <2>1, <2>2
<1>3. \A c \in Calls :
        /\ callPc'[c] \in {"selecting", "parked"} => callPc'[c] = callPc[c]
        /\ callPc'[c] = "parked" => respCh'[c] = None
  <2>1. CASE Deliver
    <3>1. CanSend(readerTarget) /\ SendTo(readerTarget, "answer")
      BY <2>1 DEF Deliver
    <3>2. readerTarget \in Calls => CallTypeOK
      BY DEF TypeOK
    <3>3. CASE readerTarget \in Calls
      BY <3>1, <3>2, <3>3, SendToUnderWay
    <3>4. CASE readerTarget \notin Calls
      BY <3>1, <3>4 DEF SendTo, TypeOK, CallTypeOK, UnderWay
    <3>5. QED
      BY <3>3, <3>4
  <2>2. CASE ~Deliver
    <3>1. UNCHANGED callVars
      BY <2>2 DEF ReadLoop, RecvAnswer, RecvUpdate, RecvAsk, RecvEof
    <3>2. QED
      BY <3>1 DEF UnderWay, callVars
  <2>3. QED
    BY <2>1, <2>2
<1>4. ASSUME NEW r \in Asks, askPc'[r] = "wired"
      PROVE  \E i \in 1..Len(wire') : wire'[i] = Ask(r)
  <2>1. CASE UNCHANGED <<askPc, wire>>
    BY <1>4, <2>1 DEF UnderWay
  <2>2. ASSUME wire # <<>>, wire' = Tail(wire), Head(wire).kind # "ask",
               askPc' = askPc
        PROVE  \E i \in 1..Len(wire') : wire'[i] = Ask(r)
    <3>1. Head(wire) # Ask(r)
      BY <2>2 DEF Ask
    <3>2. PICK i \in 1..Len(wire) : wire[i] = Ask(r)
      BY <1>4, <2>2 DEF UnderWay
    <3>3. QED
      BY <2>2, <3>1, <3>2, AskStays DEF TypeOK
  <2>3. CASE RecvAsk
    <3>1. /\ wire # <<>> /\ wire' = Tail(wire) /\ Head(wire).kind = "ask"
          /\ askPc' = [askPc EXCEPT ![Head(wire).id] = "handled"]
          /\ askPc \in [Asks -> {"unsent", "wired", "handled", "answered"}]
      BY <2>3 DEF RecvAsk, TypeOK, AgentTypeOK
    <3>2. Head(wire).id # r /\ askPc[r] = "wired"
      BY <1>4, <3>1
    <3>3. Head(wire) # Ask(r)
      BY <3>2 DEF Ask
    <3>4. PICK i \in 1..Len(wire) : wire[i] = Ask(r)
      BY <3>2 DEF UnderWay
    <3>5. QED
      BY <3>1, <3>3, <3>4, AskStays DEF TypeOK
  <2>4. CASE RecvAnswer \/ RecvUpdate
    <3>1. wire # <<>> /\ wire' = Tail(wire) /\ askPc' = askPc
      BY <2>4 DEF RecvAnswer, RecvUpdate
    <3>2. Head(wire).kind # "ask"
      BY <2>4 DEF RecvAnswer, RecvUpdate
    <3>3. QED
      BY <3>1, <3>2, <2>2
  <2>5. CASE Deliver \/ RecvEof
    BY <2>1, <2>5 DEF Deliver, RecvEof
  <2>6. QED
    BY <2>3, <2>4, <2>5 DEF ReadLoop
<1>5. QED
  BY <1>1, <1>2, <1>3, <1>4 DEF UnderWay, agentVars

\* The steps of Close and closePending keep it.
LEMMA ClosingUnderWay ==
  ASSUME ClientAssumption, TypeOK, CloserInv, UnderWay, NEW k \in Closers,
         (k \in CloseCallers /\ CloseTransport(k)) \/ ClosePending(k)
  PROVE  UnderWay'
<1>1. /\ UNCHANGED <<readerVars, askPc, wire, agentUp, requested>>
      /\ Reader \in Closers /\ closePc \in [Closers -> ClosePcs]
  BY DEF CloseTransport, ClosePending, CloseClosed, CloseAgain, CloseLock,
         CloseNext, CloseSend, CloseUnlock, agentVars, Closers, TypeOK,
         CloseTypeOK
<1>2. \A j \in Closers : closePc[j] # "idle" => closePc'[j] # "idle"
  BY <1>1 DEF CloseTransport, ClosePending, CloseClosed, CloseAgain, CloseLock,
         CloseNext, CloseSend, CloseUnlock
<1>3. readerPc' = "closing" => closePc'[Reader] # "idle"
  BY <1>1, <1>2 DEF UnderWay, readerVars
<1>4. ~stdinOpen' => \E j \in Closers : closePc'[j] # "idle"
  <2>1. CASE CloseTransport(k)
    BY <1>1, <2>1 DEF CloseTransport
  <2>2. CASE ClosePending(k)
    <3>1. stdinOpen' = stdinOpen
      BY <2>2 DEF ClosePending, CloseClosed, CloseAgain, CloseLock, CloseNext,
                  CloseSend, CloseUnlock, agentVars
    <3>2. QED
      BY <1>2, <3>1 DEF UnderWay
  <2>3. QED
    BY <2>1, <2>2
<1>5. \A j \in Closers : closePc'[j] = "done" => closeOnce' = "finished"
  <2>1. CASE CloseTransport(k) \/ CloseNext(k) \/ CloseSend(k) \/ CloseLock(k)
    BY <1>1, <2>1 DEF CloseTransport, CloseNext, CloseSend, CloseLock, UnderWay
  <2>2. CASE CloseClosed(k)
    BY <1>1, <2>2 DEF CloseClosed, UnderWay
  <2>3. CASE CloseAgain(k) \/ CloseUnlock(k)
    BY <1>1, <2>3 DEF CloseAgain, CloseUnlock, UnderWay
  <2>4. QED
    BY <2>1, <2>2, <2>3 DEF ClosePending
<1>6. \A c \in Calls :
        /\ callPc'[c] \in {"selecting", "parked"} => callPc'[c] = callPc[c]
        /\ callPc'[c] = "parked" => respCh'[c] = None
  <2>1. CASE CloseSend(k)
    <3>1. /\ SendTo(closeTarget, "closed") /\ closeTarget \in Calls
          /\ CallTypeOK
      BY <2>1 DEF CloseSend, TypeOK, CloseTypeOK
    <3>2. QED
      BY <3>1, SendToUnderWay
  <2>2. CASE CloseClosed(k)
    BY <2>2 DEF CloseClosed, TypeOK, CallTypeOK
  <2>3. CASE ~CloseSend(k) /\ ~CloseClosed(k)
    <3>1. UNCHANGED <<callPc, respCh>>
      BY <2>3 DEF CloseTransport, ClosePending, CloseAgain, CloseLock,
                  CloseNext, CloseUnlock, callVars
    <3>2. QED
      BY <3>1 DEF UnderWay
  <2>4. QED
    BY <2>1, <2>2, <2>3
<1>7. QED
  BY <1>1, <1>3, <1>4, <1>5, <1>6 DEF UnderWay

\* The steps of the agent, of its requests and of the subscriber keep it.
LEMMA AgentUnderWay ==
  ASSUME ClientAssumption, TypeOK, UnderWay,
         \/ \E c \in Calls : AgentAnswer(c)
         \/ \E r \in Asks : AnswerAsk(r) \/ AgentAsk(r)
         \/ Subscribe \/ WatchClosed \/ Consume \/ AgentUpdate \/ AgentExit
  PROVE  UnderWay'
<1>1. /\ UNCHANGED <<callVars, closeVars, readerVars, stdinOpen, requested>>
      /\ agentUp' => agentUp
  BY DEF AgentAnswer, AnswerAsk, AgentAsk, Subscribe, WatchClosed, Consume,
         AgentUpdate, AgentExit, agentVars
<1>2. ASSUME NEW r \in Asks, askPc'[r] = "wired"
      PROVE  \E i \in 1..Len(wire') : wire'[i] = Ask(r)
  <2>1. wire \in Seq(Frames)
    BY DEF TypeOK, ReaderTypeOK
  <2>2. ASSUME NEW f, wire' = Append(wire, f), askPc[r] = "wired" \/ f = Ask(r)
        PROVE  \E i \in 1..Len(wire') : wire'[i] = Ask(r)
    <3>1. /\ Len(wire') = Len(wire) + 1 /\ wire'[Len(wire) + 1] = f
          /\ \A i \in 1..Len(wire) : wire'[i] = wire[i]
          /\ Len(wire) \in Nat
      BY <2>1, <2>2
    <3>2. CASE f = Ask(r)
      BY <3>1, <3>2
    <3>3. CASE askPc[r] = "wired"
      BY <3>1, <3>3 DEF UnderWay
    <3>4. QED
      BY <2>2, <3>2, <3>3
  <2>3. ASSUME NEW q \in Asks, AgentAsk(q)
        PROVE  \E i \in 1..Len(wire') : wire'[i] = Ask(r)
    <3>1. /\ wire' = Append(wire, Ask(q))
          /\ askPc' = [askPc EXCEPT ![q] = "wired"]
          /\ askPc \in [Asks -> {"unsent", "wired", "handled", "answered"}]
      BY <2>3 DEF AgentAsk, TypeOK, AgentTypeOK
    <3>2. askPc[r] = "wired" \/ q = r
      BY <1>2, <3>1
    <3>3. QED
      BY <2>2, <3>1, <3>2
  <2>4. ASSUME NEW q \in Asks, AnswerAsk(q)
        PROVE  \E i \in 1..Len(wire') : wire'[i] = Ask(r)
    <3>1. /\ wire' = wire /\ askPc' = [askPc EXCEPT ![q] = "answered"]
          /\ askPc \in [Asks -> {"unsent", "wired", "handled", "answered"}]
      BY <2>4 DEF AnswerAsk, TypeOK, AgentTypeOK
    <3>2. askPc[r] = "wired"
      BY <1>2, <3>1
    <3>3. QED
      BY <3>1, <3>2 DEF UnderWay
  <2>5. ASSUME NEW c \in Calls, AgentAnswer(c)
        PROVE  \E i \in 1..Len(wire') : wire'[i] = Ask(r)
    BY <1>2, <2>2, <2>5 DEF AgentAnswer
  <2>6. CASE AgentUpdate
    BY <1>2, <2>2, <2>6 DEF AgentUpdate
  <2>7. CASE Subscribe \/ WatchClosed \/ Consume \/ AgentExit
    <3>1. UNCHANGED <<askPc, wire>>
      BY <2>7 DEF Subscribe, WatchClosed, Consume, AgentExit
    <3>2. QED
      BY <1>2, <3>1 DEF UnderWay
  <2>8. QED
    BY <2>3, <2>4, <2>5, <2>6, <2>7
<1>3. QED
  BY <1>1, <1>2 DEF UnderWay, callVars, closeVars, readerVars

\* Every step keeps it.
LEMMA StepUnderWay ==
  ASSUME ClientAssumption, TypeOK, CloserInv, UnderWay, [Next]_vars
  PROVE  UnderWay'
<1>1. CASE Next
  <2>1. ASSUME NEW c \in Calls, Register(c) \/ SendRecvStep(c)
        PROVE  UnderWay'
    BY <2>1, SendRecvUnderWay
  <2>2. CASE ReadLoop
    BY <2>2, ReadLoopUnderWay
  <2>3. ASSUME NEW k \in Closers,
               (k \in CloseCallers /\ CloseTransport(k)) \/ ClosePending(k)
        PROVE  UnderWay'
    BY <2>3, ClosingUnderWay
  <2>4. ASSUME NEW k \in CloseCallers, CloseTransport(k)
        PROVE  UnderWay'
    BY <2>3, <2>4 DEF Closers
  <2>5. CASE \/ \E c \in Calls : AgentAnswer(c)
             \/ \E r \in Asks : AnswerAsk(r) \/ AgentAsk(r)
             \/ Subscribe \/ WatchClosed \/ Consume \/ AgentUpdate \/ AgentExit
    BY <2>5, AgentUnderWay
  <2>6. QED
    BY <1>1, <2>1, <2>2, <2>3, <2>4, <2>5 DEF Next
<1>2. CASE UNCHANGED vars
  BY <1>2 DEF UnderWay, vars, callVars, closeVars, readerVars, agentVars
<1>3. QED
  BY <1>1, <1>2

\* The client begins with nothing under way.
LEMMA InitUnderWay ==
  ASSUME ClientAssumption, Init
  PROVE  UnderWay
BY DEF Init, UnderWay, Closers

\* The conditions under which a goroutine of the client can take a step, or the
\* agent an answering one: the guards of the disjuncts of GoesOn.
CallGoesOn(c) ==
  \/ callPc[c] \in {"registered", "selecting"}
  \/ callPc[c] = "leaving" /\ pendingMu = None

ReaderGoesOn ==
  \/ /\ readerPc = "recv" /\ wire # <<>>
     /\ Head(wire).kind = "answer" => pendingMu = None
  \/ readerPc = "recv" /\ wire = <<>> /\ ~agentUp
  \/ readerPc = "deliver" /\ CanSend(readerTarget)

CloserGoesOn(k) ==
  \/ closePc[k] = "once" /\ closeOnce # "running"
  \/ closePc[k] = "lock" /\ pendingMu = None
  \/ closePc[k] = "loop" /\ (closeTarget # None => CanSend(closeTarget))

AgentGoesOn(c) ==
  /\ agentUp /\ c \in (requested \cap Served) \ answered
  /\ \A r \in Asks : askPc[r] \in {"unsent", "answered"}

Idle ==
  /\ \A c \in Calls : ~CallGoesOn(c) /\ ~AgentGoesOn(c)
  /\ ~ReaderGoesOn
  /\ \A r \in Asks : askPc[r] # "handled"
  /\ \A k \in Closers : ~CloserGoesOn(k)

\* An idle client whose closePending does not hang holds no lock: its owner
\* would have an entry to send to, a call that waits for the lock, or none.
LEMMA IdleIsUnlocked ==
  ASSUME ClientAssumption, IInv, UnderWay, Idle, ~ClosingHangs
  PROVE  pendingMu = None
<1> SUFFICES ASSUME pendingMu # None PROVE FALSE
  OBVIOUS
<1>1. pendingMu \in Closers /\ closePc[pendingMu] = "loop"
  BY DEF IInv, TypeOK, CloseTypeOK, CloserInv
<1>2. closeTarget # None /\ ~CanSend(closeTarget)
  BY <1>1 DEF Idle, CloserGoesOn
<1>3. closeTarget \in pending /\ closeTarget \in Calls
  BY <1>2 DEF IInv, TypeOK, CallTypeOK, CloserInv
<1>4. callPc[closeTarget] \notin {"idle", "done"}
  BY <1>3 DEF IInv, PendingIsInFlight
<1>5. callPc[closeTarget] \notin {"registered", "selecting", "parked"}
  BY <1>2, <1>3 DEF Idle, CallGoesOn, CanSend
<1>6. callPc[closeTarget] = "leaving"
  BY <1>3, <1>4, <1>5 DEF IInv, TypeOK, CallTypeOK, CallPcs
<1>7. QED
  BY <1>2, <1>3, <1>6 DEF CanSend, ClosingHangs

\* An idle client that holds a call is open, with the agent up and nothing of
\* the agent's left to read.
LEMMA IdleIsOpen ==
  ASSUME ClientAssumption, IInv, UnderWay, Idle, pendingMu = None,
         NEW c \in Calls, callPc[c] = "parked"
  PROVE  /\ ~closed /\ readerPc = "recv" /\ wire = <<>>
         /\ agentUp /\ stdinOpen
<1>1. ~closed /\ closeOnce = "fresh"
  BY DEF IInv, LinkInv, CloserInv
<1>2. \A k \in Closers : closePc[k] = "idle"
  <2> TAKE k \in Closers
  <2>1. closePc[k] # "once"
    BY <1>1 DEF Idle, CloserGoesOn
  <2>2. closePc[k] \notin {"lock", "loop"}
    BY <1>1 DEF IInv, CloserInv, Body
  <2>3. closePc[k] # "done"
    BY <1>1 DEF UnderWay
  <2>4. QED
    BY <2>1, <2>2, <2>3 DEF IInv, TypeOK, CloseTypeOK, ClosePcs
<1>3. stdinOpen
  BY <1>2 DEF UnderWay
<1>4. readerPc # "closing"
  BY <1>2 DEF UnderWay, Closers
<1>5. readerPc # "deliver"
  <2> SUFFICES ASSUME readerPc = "deliver" PROVE FALSE
    OBVIOUS
  <2>1. readerTarget \in Calls
    BY DEF IInv, AnswerInv, TypeOK, ReaderTypeOK
  <2>2. respCh[readerTarget] # "answer" /\ respCh[readerTarget] # "closed"
    BY <1>1, <2>1 DEF IInv, AnswerInv, LinkInv
  <2>3. CanSend(readerTarget)
    BY <2>1, <2>2 DEF IInv, TypeOK, CallTypeOK, CanSend
  <2>4. QED
    BY <2>3 DEF Idle, ReaderGoesOn
<1>6. readerPc = "recv"
  BY <1>4, <1>5 DEF IInv, TypeOK, ReaderTypeOK
<1>7. wire = <<>> /\ agentUp
  BY <1>6 DEF Idle, ReaderGoesOn
<1>8. QED
  BY <1>1, <1>3, <1>6, <1>7

\* IdleMeansReturned with the guards of the steps in the place of ENABLED: when
\* no goroutine of the client can go on and the agent owes nothing, every call
\* has returned, unless it waits for an agent that is up and does not serve it,
\* or closePending hangs (client.go:79-127, 305-327).
THEOREM IdleReturned ==
  Spec => [](~ClosingHangs /\ Idle => EveryCallReturned)
<1>1. Init => UnderWay
  BY ClientAssumption, InitUnderWay
<1>2. IInv /\ UnderWay /\ [Next]_vars => UnderWay'
  BY ClientAssumption, StepUnderWay DEF IInv
<1>3. ASSUME IInv, UnderWay, ~ClosingHangs, Idle, NEW c \in Calls,
             callPc[c] \notin {"idle", "done"}
      PROVE  callPc[c] = "parked" /\ c \notin Served /\ agentUp /\ stdinOpen
  <2>1. pendingMu = None
    BY <1>3, ClientAssumption, IdleIsUnlocked
  <2>2. callPc[c] = "parked"
    BY <1>3, <2>1 DEF Idle, CallGoesOn, IInv, TypeOK, CallTypeOK, CallPcs
  <2>3. /\ ~closed /\ readerPc = "recv" /\ wire = <<>>
        /\ agentUp /\ stdinOpen
    BY <1>3, <2>1, <2>2, ClientAssumption, IdleIsOpen
  <2>4. c \in requested
    BY <1>3, <2>2, <2>3 DEF UnderWay
  <2>5. c \notin answered
    <3>1. ~(\E i \in 1..Len(wire) : wire[i] = Answer(c))
      BY <2>3
    <3>2. respCh[c] # "answer"
      BY <1>3, <2>2, ClientAssumption DEF UnderWay
    <3>3. outcome[c] # "answer"
      BY <1>3, <2>2, ClientAssumption DEF IInv, CallInv, Waiting
    <3>4. QED
      BY <1>3, <2>3, <3>1, <3>2, <3>3 DEF IInv, AnswerNotLost
  <2>6. \A r \in Asks : askPc[r] \in {"unsent", "answered"}
    <3> TAKE r \in Asks
    <3>1. askPc[r] # "handled"
      BY <1>3 DEF Idle
    <3>2. askPc[r] # "wired"
      BY <1>3, <2>3 DEF UnderWay
    <3>3. QED
      BY <1>3, <3>1, <3>2 DEF IInv, TypeOK, AgentTypeOK
  <2>7. c \notin Served
    BY <1>3, <2>3, <2>4, <2>5, <2>6 DEF Idle, AgentGoesOn
  <2>8. QED
    BY <2>2, <2>3, <2>7
<1>4. IInv /\ UnderWay => (~ClosingHangs /\ Idle => EveryCallReturned)
  BY <1>3 DEF EveryCallReturned
<1>5. QED
  BY <1>1, <1>2, <1>4, Inductive, PTL DEF Spec

=============================================================================

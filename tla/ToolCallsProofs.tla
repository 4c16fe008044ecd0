--------------------------- MODULE ToolCallsProofs ---------------------------
(***************************************************************************)
(* Theorems about the tools of a prompt, for every set of servers and      *)
(* agents, every depth of delegation and every number of calls.            *)
(***************************************************************************)
EXTENDS ToolCalls, TLAPS

Frames ==
  [profile : Profiles, depth : Nat,
   client : [Servers -> {"none", "open", "closed"}], serving : SUBSET Servers,
   todo : Seq(CallsOf(Tools))]

\* A call stack: an agent's depth is its place, the servers whose tools it has
\* are among those it connects, and all but the innermost wait for a call.
StackOK(s) ==
  /\ s \in Seq(Frames) /\ s # <<>>
  /\ Len(s) <= MaxDelegateDepth + 1
  /\ \A i \in 1..Len(s) :
       /\ s[i].depth = i - 1
       /\ s[i].serving \subseteq ToConnect(s[i].profile)
  /\ \A i \in 1..(Len(s) - 1) : s[i].todo # <<>>

StackInv ==
  /\ StackOK(stack)
  /\ pc \in {"mcp", "exec"} => Top.todo # <<>>

\* While an agent's servers are connected, each is in one place.
ConnectInv ==
  /\ pc \notin {"connecting", "initialize", "listing"} => left = {}
  /\ pc \in {"connecting", "initialize", "listing"} =>
       /\ left \subseteq ToConnect(Top.profile)
       /\ left \cap Top.serving = {}
  /\ pc \in {"initialize", "listing"} =>
       at \in ToConnect(Top.profile) \ (left \cup Top.serving)
  /\ at \in Servers \cup {None}

\* The variables that are no part of the stack.
PlainTypeOK ==
  /\ pc \in Pcs
  /\ made \in 0..MaxCalls
  /\ ctxDone \in BOOLEAN
  /\ left \subseteq Servers
  /\ shell \in {"none", "running", "exited", "failed", "killed"}
  /\ reaped \in BOOLEAN /\ stopped \in BOOLEAN /\ helper \in BOOLEAN
  /\ execErr \in {"none", "deadline", "canceled"}
  /\ report \in {"none", "ok", "failed", "timeout"}

\* A frame's open connections are those whose tools it has, and that to v.
Exact(frame, v) ==
  \A s \in Servers : frame.client[s] = "open" <=> s \in frame.serving \/ s = v

ExactBelow(s) == \A i \in 1..(Len(s) - 1) : Exact(s[i], None)

\* The server that the innermost agent is connecting.
Connecting == IF pc \in {"initialize", "listing"} THEN at ELSE None

UsableInv == ExactBelow(stack) /\ Exact(Top, Connecting)

IInv == PlainTypeOK /\ StackInv /\ ConnectInv /\ UsableInv

-----------------------------------------------------------------------------
(* The call stack.                                                         *)

\* The innermost frame and those under it.
LEMMA TopFrame ==
  ASSUME NEW s \in Seq(Frames), s # <<>>
  PROVE  /\ Len(s) \in Nat \ {0}
         /\ Last(s) = s[Len(s)] /\ Last(s) \in Frames
         /\ Front(s) \in Seq(Frames) /\ Len(Front(s)) = Len(s) - 1
         /\ \A i \in 1..(Len(s) - 1) : Front(s)[i] = s[i]
<1>1. Len(s) \in Nat \ {0} /\ s = [i \in 1..Len(s) |-> s[i]]
  OBVIOUS
<1>2. Last(s) = s[Len(s)] /\ Last(s) \in Frames
  BY <1>1 DEF Last
<1>3. /\ Front(s) \in Seq(Frames) /\ Len(Front(s)) = Len(s) - 1
      /\ \A i \in 1..(Len(s) - 1) : Front(s)[i] = s[i]
  BY <1>1 DEF Front
<1>4. QED
  BY <1>1, <1>2, <1>3

\* The stack with another innermost frame.
LEMMA NewTop ==
  ASSUME NEW s \in Seq(Frames), s # <<>>, NEW f \in Frames
  PROVE  LET t == Append(Front(s), f) IN
         /\ t \in Seq(Frames) /\ t # <<>> /\ Len(t) = Len(s)
         /\ \A i \in 1..(Len(s) - 1) : t[i] = s[i]
         /\ t[Len(s)] = f /\ Last(t) = f
<1> DEFINE u == Front(s)
<1>1. u \in Seq(Frames) /\ Len(u) = Len(s) - 1 /\ Len(s) \in Nat \ {0}
      /\ \A i \in 1..(Len(s) - 1) : u[i] = s[i]
  BY TopFrame
<1> HIDE DEF u
<1>2. /\ Append(u, f) \in Seq(Frames) /\ Len(Append(u, f)) = Len(u) + 1
      /\ \A i \in 1..Len(u) : Append(u, f)[i] = u[i]
      /\ Append(u, f)[Len(u) + 1] = f
  BY <1>1
<1>3. Append(u, f) # <<>> /\ Last(Append(u, f)) = f
  <2>1. Len(Append(u, f)) = Len(u) + 1 /\ Len(u) \in Nat
    BY <1>1, <1>2
  <2>2. Append(u, f) # <<>>
    BY <1>1
  <2>3. QED
    BY <1>2, <2>1, <2>2 DEF Last
<1>4. QED
  BY <1>1, <1>2, <1>3 DEF u

\* The stack with one frame more.
LEMMA Pushed ==
  ASSUME NEW s \in Seq(Frames), NEW f \in Frames
  PROVE  LET t == Append(s, f) IN
         /\ t \in Seq(Frames) /\ t # <<>> /\ Len(t) = Len(s) + 1
         /\ \A i \in 1..Len(s) : t[i] = s[i]
         /\ t[Len(s) + 1] = f /\ Last(t) = f
BY DEF Last

\* The innermost frame replaced by one of the same agent.
LEMMA SetTopOK ==
  ASSUME NEW s, StackOK(s), NEW f \in Frames, f.profile = Last(s).profile,
         f.depth = Last(s).depth, f.serving \subseteq ToConnect(f.profile)
  PROVE  LET t == Append(Front(s), f) IN
         /\ StackOK(t) /\ Last(t) = f
         /\ ExactBelow(s) => ExactBelow(t)
<1> DEFINE t == Append(Front(s), f)
<1>1. /\ t \in Seq(Frames) /\ t # <<>> /\ Len(t) = Len(s)
      /\ \A i \in 1..(Len(s) - 1) : t[i] = s[i]
      /\ t[Len(s)] = f /\ Last(t) = f
  BY NewTop DEF StackOK
<1>2. Len(s) \in Nat \ {0} /\ Last(s) = s[Len(s)]
  BY TopFrame DEF StackOK
<1> HIDE DEF t
<1>3. ASSUME NEW i \in 1..Len(t)
      PROVE  /\ t[i].depth = i - 1
             /\ t[i].serving \subseteq ToConnect(t[i].profile)
  <2>1. CASE i = Len(s)
    BY <1>1, <1>2, <2>1 DEF StackOK
  <2>2. CASE i \in 1..(Len(s) - 1)
    BY <1>1, <1>2, <2>2 DEF StackOK
  <2>3. QED
    BY <1>1, <1>2, <2>1, <2>2
<1>4. \A i \in 1..(Len(t) - 1) : t[i] = s[i]
  BY <1>1
<1>5. StackOK(t)
  BY <1>1, <1>3, <1>4 DEF StackOK
<1>6. ExactBelow(s) => ExactBelow(t)
  BY <1>1, <1>4 DEF ExactBelow
<1>7. QED
  BY <1>1, <1>5, <1>6 DEF t

\* A further agent on the stack.
LEMMA PushedOK ==
  ASSUME NEW s, StackOK(s), Last(s).todo # <<>>, NEW f \in Frames,
         f.depth = Last(s).depth + 1, Last(s).depth < MaxDelegateDepth,
         f.serving = {}, MaxDelegateDepth \in Nat
  PROVE  LET t == Append(s, f) IN
         /\ StackOK(t) /\ Last(t) = f
         /\ ExactBelow(s) /\ Exact(Last(s), None) => ExactBelow(t)
<1> DEFINE t == Append(s, f)
<1>1. /\ t \in Seq(Frames) /\ t # <<>> /\ Len(t) = Len(s) + 1
      /\ \A i \in 1..Len(s) : t[i] = s[i]
      /\ t[Len(s) + 1] = f /\ Last(t) = f
  BY Pushed DEF StackOK
<1>2. Len(s) \in Nat \ {0} /\ Last(s) = s[Len(s)]
  BY TopFrame DEF StackOK
<1> HIDE DEF t
<1>3. Last(s).depth = Len(s) - 1
  BY <1>2 DEF StackOK
<1>4. ASSUME NEW i \in 1..Len(t)
      PROVE  /\ t[i].depth = i - 1
             /\ t[i].serving \subseteq ToConnect(t[i].profile)
  <2>1. CASE i = Len(s) + 1
    BY <1>1, <1>2, <1>3, <2>1
  <2>2. CASE i \in 1..Len(s)
    BY <1>1, <1>2, <2>2 DEF StackOK
  <2>3. QED
    BY <1>1, <1>2, <2>1, <2>2
<1>5. ASSUME NEW i \in 1..(Len(t) - 1)
      PROVE  /\ t[i] = s[i] /\ (i \in 1..(Len(s) - 1) \/ i = Len(s))
  BY <1>1, <1>2
<1>6. StackOK(t)
  <2>1. Len(t) <= MaxDelegateDepth + 1
    BY <1>1, <1>2, <1>3
  <2>2. \A i \in 1..(Len(t) - 1) : t[i].todo # <<>>
    BY <1>2, <1>5 DEF StackOK
  <2>3. QED
    BY <1>1, <1>4, <2>1, <2>2 DEF StackOK
<1>7. ExactBelow(s) /\ Exact(Last(s), None) => ExactBelow(t)
  BY <1>2, <1>5 DEF ExactBelow
<1>8. QED
  BY <1>1, <1>6, <1>7 DEF t

\* The innermost agent has the result of its call.
LEMMA ResumedOK ==
  ASSUME NEW s, StackOK(s), Last(s).todo # <<>>
  PROVE  LET t == [s EXCEPT ![Len(s)].todo = Tail(@)] IN
         /\ StackOK(t)
         /\ Last(t) = [Last(s) EXCEPT !.todo = Tail(@)]
         /\ ExactBelow(s) => ExactBelow(t)
<1> DEFINE t == [s EXCEPT ![Len(s)].todo = Tail(@)]
<1> DEFINE f == [Last(s) EXCEPT !.todo = Tail(@)]
<1>1. /\ Len(s) \in Nat \ {0} /\ Last(s) = s[Len(s)] /\ Last(s) \in Frames
      /\ s \in Seq(Frames)
  BY TopFrame DEF StackOK
<1>2. f \in Frames
  <2>1. Last(s).todo \in Seq(CallsOf(Tools))
    BY <1>1 DEF Frames
  <2>2. Tail(Last(s).todo) \in Seq(CallsOf(Tools))
    BY <2>1
  <2>3. QED
    BY <1>1, <2>2 DEF Frames
<1>3. t = [s EXCEPT ![Len(s)] = f]
  BY <1>1
<1> HIDE DEF t, f
<1>4. /\ t \in Seq(Frames) /\ Len(t) = Len(s) /\ t[Len(s)] = f
      /\ \A i \in 1..(Len(s) - 1) : t[i] = s[i]
  BY <1>1, <1>2, <1>3
<1>5. t # <<>> /\ Last(t) = f
  BY <1>1, <1>4 DEF Last
<1>6. /\ f.profile = Last(s).profile /\ f.depth = Last(s).depth
      /\ f.serving = Last(s).serving
  BY <1>1 DEF f, Frames
<1>7. ASSUME NEW i \in 1..Len(t)
      PROVE  /\ t[i].depth = i - 1
             /\ t[i].serving \subseteq ToConnect(t[i].profile)
  <2>1. CASE i = Len(s)
    BY <1>1, <1>4, <1>6, <2>1 DEF StackOK
  <2>2. CASE i \in 1..(Len(s) - 1)
    BY <1>1, <1>4, <2>2 DEF StackOK
  <2>3. QED
    BY <1>1, <1>4, <2>1, <2>2
<1>8. StackOK(t)
  BY <1>4, <1>5, <1>7 DEF StackOK
<1>9. ExactBelow(s) => ExactBelow(t)
  BY <1>4 DEF ExactBelow
<1>10. QED
  BY <1>5, <1>8, <1>9 DEF t, f

\* The stack without its innermost agent, which another waits for.
LEMMA PoppedOK ==
  ASSUME NEW s, StackOK(s), Len(s) # 1
  PROVE  /\ StackOK(Front(s)) /\ Last(Front(s)).todo # <<>>
         /\ ExactBelow(s) =>
              ExactBelow(Front(s)) /\ Exact(Last(Front(s)), None)
<1> DEFINE t == Front(s)
<1>1. /\ Len(s) \in Nat \ {0} /\ t \in Seq(Frames) /\ Len(t) = Len(s) - 1
      /\ \A i \in 1..(Len(s) - 1) : t[i] = s[i]
  BY TopFrame DEF StackOK
<1> HIDE DEF t
<1>2. t # <<>> /\ Len(t) \in 1..(Len(s) - 1)
  BY <1>1 DEF StackOK
<1>3. Last(t) = s[Len(t)]
  BY <1>1, <1>2 DEF Last
<1>4. Len(t) <= MaxDelegateDepth + 1
  BY <1>1, ToolAssumption DEF StackOK, ToolAssumption
<1>5. \A i \in 1..Len(t) :
        /\ t[i].depth = i - 1
        /\ t[i].serving \subseteq ToConnect(t[i].profile)
  BY <1>1 DEF StackOK
<1>6. ASSUME NEW i \in 1..(Len(t) - 1)
      PROVE  t[i].todo # <<>>
  <2>1. i \in 1..(Len(s) - 1)
    BY <1>1
  <2>2. QED
    BY <1>1, <2>1 DEF StackOK
<1>7. StackOK(t)
  BY <1>1, <1>2, <1>4, <1>5, <1>6 DEF StackOK
<1>8. Last(t).todo # <<>>
  BY <1>2, <1>3 DEF StackOK
<1>9. ExactBelow(s) => ExactBelow(t) /\ Exact(Last(t), None)
  BY <1>1, <1>2, <1>3 DEF ExactBelow
<1>10. QED
  BY <1>7, <1>8, <1>9 DEF t

-----------------------------------------------------------------------------
(* The calls of an agent.                                                  *)

\* A call is of a tool, and a delegation names an agent.
LEMMA CallTypes ==
  /\ \A c \in CallsOf(Tools) : c.tool = "delegate" => c.profile \in Profiles
  /\ \A calls \in Responses :
       calls \in Seq(CallsOf(Tools)) /\ Len(calls) \in Nat
<1>1. \A c \in CallsOf(Tools) : c.tool = "delegate" => c.profile \in Profiles
  BY DEF CallsOf
<1>2. CallsOf(BuiltIn) \subseteq CallsOf(Tools)
  BY DEF CallsOf, Tools
<1>3. ASSUME NEW calls \in Responses
      PROVE  calls \in Seq(CallsOf(Tools)) /\ Len(calls) \in Nat
  <2>1. CASE \E c \in CallsOf(Tools) : calls = <<c>>
    BY <2>1
  <2>2. CASE \E c \in CallsOf(BuiltIn), d \in CallsOf(Tools) : calls = <<c, d>>
    BY <1>2, <2>2
  <2>3. QED
    BY <2>1, <2>2 DEF Responses
<1>4. QED
  BY <1>1, <1>3

\* An agent that begins has no connection.
LEMMA NewFrame ==
  ASSUME NEW p \in Profiles, NEW d \in Nat
  PROVE  /\ Frame(p, d) \in Frames /\ Frame(p, d).profile = p
         /\ Frame(p, d).depth = d /\ Frame(p, d).serving = {}
         /\ Exact(Frame(p, d), None)
<1>1. Frame(p, d) \in Frames
  BY DEF Frame, Frames
<1>2. QED
  BY <1>1, ToolAssumption DEF Frame, Exact, ToolAssumption

\* The innermost agent and its calls have their types.
LEMMA TopType ==
  ASSUME StackInv
  PROVE  /\ Top \in Frames /\ Top.depth \in Nat /\ Top.profile \in Profiles
         /\ Top.serving \subseteq ToConnect(Top.profile)
         /\ Top.todo \in Seq(CallsOf(Tools))
         /\ Top = stack[Len(stack)] /\ Len(stack) \in Nat \ {0}
<1>1. Top \in Frames /\ Top = stack[Len(stack)] /\ Len(stack) \in Nat \ {0}
  BY TopFrame DEF StackInv, StackOK, Top
<1>2. /\ Top.depth \in Nat /\ Top.profile \in Profiles
      /\ Top.todo \in Seq(CallsOf(Tools))
  BY <1>1 DEF Frames
<1>3. Top.serving \subseteq ToConnect(Top.profile)
  BY <1>1 DEF StackInv, StackOK
<1>4. QED
  BY <1>1, <1>2, <1>3

-----------------------------------------------------------------------------
(* What a step does to the call stack.                                     *)

\* All agents are connected to what they use, and to nothing else.
Settled(s) == StackOK(s) /\ ExactBelow(s) /\ Exact(Last(s), None)

\* A call that has its result leaves the stack so.
LEMMA ResumeStep ==
  ASSUME NEW s, Settled(s), Last(s).todo # <<>>
  PROVE  Settled([s EXCEPT ![Len(s)].todo = Tail(@)])
<1> DEFINE t == [s EXCEPT ![Len(s)].todo = Tail(@)]
<1>1. /\ StackOK(t) /\ Last(t) = [Last(s) EXCEPT !.todo = Tail(@)]
      /\ ExactBelow(t)
  BY ResumedOK DEF Settled
<1>2. Last(s) \in Frames
  BY TopFrame DEF Settled, StackOK
<1> HIDE DEF t
<1>3. Last(t).client = Last(s).client /\ Last(t).serving = Last(s).serving
  BY <1>1, <1>2 DEF Frames
<1>4. Exact(Last(t), None)
  BY <1>3 DEF Settled, Exact
<1>5. QED
  BY <1>1, <1>4 DEF Settled, t

\* So does an agent that returns.
LEMMA LeaveStep ==
  ASSUME Settled(stack), Leave
  PROVE  Settled(stack') /\ pc' \in {"tools", "done"}
<1>1. CASE Len(stack) = 1
  BY <1>1 DEF Leave
<1>2. CASE Len(stack) # 1
  <2>1. StackOK(Front(stack)) /\ Last(Front(stack)).todo # <<>>
        /\ Settled(Front(stack))
    BY <1>2, PoppedOK DEF Settled
  <2>2. /\ pc' = "tools"
        /\ stack' = [Front(stack) EXCEPT ![Len(Front(stack))].todo = Tail(@)]
    BY <1>2 DEF Leave, Resume
  <2>3. QED
    BY <2>1, <2>2, ResumeStep
<1>3. QED
  BY <1>1, <1>2

\* Steps beside the innermost agent, and those in which it goes on.
Aside ==
  \/ \E s \in Servers : StartFails(s) \/ McpCall(s)
  \/ Initialized \/ NextRound \/ ExecStarts
  \/ ShellForks \/ ShellExits \/ HelperEnds
  \/ Deadline \/ Kill \/ Reap
  \/ Cancel

\* Steps that connect its servers.
Connects == (\E s \in Servers : Start(s)) \/ ConnectFails \/ ToolsListed

\* Steps in which an agent begins, goes on or ends.
Works ==
  \/ SelectTools \/ Request \/ StreamFails \/ Finishes
  \/ \E calls \in Responses : Responds(calls)
  \/ CallFails \/ Delegate \/ McpReturns \/ ExecFails \/ ExecReturns

\* These are all.
LEMMA NextKinds ==
  ASSUME Next PROVE Aside \/ Connects \/ Works
BY DEF Next, Goes, Aside, Connects, Works

\* A step beside the innermost agent leaves the stack alone.
LEMMA AsideStack ==
  ASSUME IInv, Aside
  PROVE  StackInv' /\ UsableInv'
<1>1. /\ stack' = stack /\ (pc' \in {"mcp", "exec"} => Top.todo # <<>>)
      /\ Connecting' = Connecting
  BY DEF Aside, StartFails, McpCall, Initialized, NextRound, ExecStarts,
         ShellForks, ShellExits, HelperEnds, Deadline, Kill, Reap, Cancel,
         agentVars, mcpVars, execVars, Connecting, Calls, IInv, StackInv
<1>2. Top' = Top
  BY <1>1 DEF Top
<1>3. QED
  BY <1>1, <1>2 DEF IInv, StackInv, UsableInv

\* While an agent's servers are connected, one connection is open at a time
\* beside those that it uses.
LEMMA ConnectsStack ==
  ASSUME ToolAssumption, IInv, Connects
  PROVE  StackInv' /\ UsableInv'
<1>1. Top \in Frames /\ Top.serving \subseteq ToConnect(Top.profile)
  BY TopType DEF IInv
<1>2. ASSUME NEW f \in Frames, SetTop(f), f.profile = Top.profile,
             f.depth = Top.depth, f.serving \subseteq ToConnect(f.profile),
             Exact(f, Connecting'), pc' \notin {"mcp", "exec"}
      PROVE  StackInv' /\ UsableInv'
  <2>1. StackOK(stack') /\ Last(stack') = f /\ ExactBelow(stack')
    BY <1>2, SetTopOK DEF SetTop, Top, IInv, StackInv, UsableInv
  <2>2. QED
    BY <1>2, <2>1 DEF StackInv, UsableInv, Top
<1>3. ASSUME NEW s \in Servers, Start(s) PROVE StackInv' /\ UsableInv'
  <2> DEFINE f == [Top EXCEPT !.client[s] = "open"]
  <2>1. /\ SetTop(f) /\ pc = "connecting" /\ s \in left
        /\ pc' = "initialize" /\ at' = s
    BY <1>3 DEF Start
  <2>2. /\ f \in Frames /\ f.profile = Top.profile /\ f.depth = Top.depth
        /\ f.serving = Top.serving /\ f.client[s] = "open"
        /\ \A v \in Servers \ {s} : f.client[v] = Top.client[v]
    BY <1>1 DEF Frames
  <2> HIDE DEF f
  <2>3. Exact(Top, None) /\ Connecting' = s
    BY <2>1 DEF IInv, UsableInv, Connecting
  <2>4. Exact(f, s)
    BY <2>2, <2>3, ToolAssumption DEF Exact, ToolAssumption
  <2>5. QED
    BY <1>1, <1>2, <2>1, <2>2, <2>3, <2>4
<1>4. ASSUME ConnectFails \/ ToolsListed
      PROVE  /\ pc \in {"initialize", "listing"} /\ pc' = "connecting"
             /\ at \in ToConnect(Top.profile) /\ at \in Servers
             /\ at \notin Top.serving
             /\ Exact(Top, at) /\ Connecting' = None
  BY <1>4 DEF ConnectFails, ToolsListed, IInv, UsableInv, ConnectInv,
              Connecting, ToConnect
<1>5. CASE ConnectFails
  <2> DEFINE f == [Top EXCEPT !.client[at] = "closed"]
  <2>1. SetTop(f)
    BY <1>5 DEF ConnectFails
  <2>2. /\ f \in Frames /\ f.profile = Top.profile /\ f.depth = Top.depth
        /\ f.serving = Top.serving /\ f.client[at] = "closed"
        /\ \A v \in Servers \ {at} : f.client[v] = Top.client[v]
    BY <1>1, <1>4, <1>5 DEF Frames
  <2> HIDE DEF f
  <2>3. Exact(f, None)
    BY <1>4, <1>5, <2>2, ToolAssumption DEF Exact, ToolAssumption
  <2>4. QED
    BY <1>1, <1>2, <1>4, <1>5, <2>1, <2>2, <2>3
<1>6. CASE ToolsListed
  <2> DEFINE f == [Top EXCEPT !.serving = @ \cup {at}]
  <2>1. SetTop(f)
    BY <1>6 DEF ToolsListed
  <2>2. /\ f \in Frames /\ f.profile = Top.profile /\ f.depth = Top.depth
        /\ f.serving = Top.serving \cup {at} /\ f.client = Top.client
    BY <1>1, <1>4, <1>6 DEF Frames
  <2> HIDE DEF f
  <2>3. Exact(f, None)
    BY <1>4, <1>6, <2>2, ToolAssumption DEF Exact, ToolAssumption
  <2>4. QED
    BY <1>1, <1>2, <1>4, <1>6, <2>1, <2>2, <2>3
<1>7. QED
  BY <1>3, <1>5, <1>6 DEF Connects

\* An agent that begins has the place that its depth says; the others find
\* their connections as they left them.
LEMMA WorksStack ==
  ASSUME ToolAssumption, IInv, Works
  PROVE  Settled(stack') /\ pc' \notin {"mcp", "exec", "initialize", "listing"}
<1>1. Settled(stack)
  <2>1. pc \notin {"initialize", "listing"}
    BY DEF Works, SelectTools, Request, StreamFails, Finishes, Responds,
           CallFails, Delegate, McpReturns, ExecFails, ExecReturns, Calls
  <2>2. QED
    BY <2>1 DEF IInv, StackInv, UsableInv, Connecting, Settled, Top
<1>2. ASSUME Leave
      PROVE  Settled(stack') /\ pc' \notin {"mcp", "exec", "initialize",
                                             "listing"}
  BY <1>1, <1>2, LeaveStep
<1>3. CASE SelectTools \/ Request \/ StreamFails \/ Finishes
  BY <1>1, <1>2, <1>3 DEF SelectTools, Request, StreamFails, Finishes
<1>4. ASSUME NEW calls \in Responses, Responds(calls)
      PROVE  Settled(stack') /\ pc' = "tools"
  <2> DEFINE f == [Top EXCEPT !.todo = calls]
  <2>1. SetTop(f) /\ pc' = "tools"
    BY <1>4 DEF Responds
  <2>2. /\ Top \in Frames /\ calls \in Seq(CallsOf(Tools))
        /\ Top.serving \subseteq ToConnect(Top.profile)
    BY <1>4, TopType, CallTypes DEF IInv
  <2>3. /\ f \in Frames /\ f.profile = Top.profile /\ f.depth = Top.depth
        /\ f.serving = Top.serving /\ f.client = Top.client
    BY <2>2 DEF Frames
  <2> HIDE DEF f
  <2>4. StackOK(stack') /\ Last(stack') = f /\ ExactBelow(stack')
    BY <1>1, <2>1, <2>2, <2>3, SetTopOK DEF SetTop, Top, Settled
  <2>5. Exact(f, None)
    BY <1>1, <2>3 DEF Settled, Exact, Top
  <2>6. QED
    BY <2>1, <2>4, <2>5 DEF Settled
<1>5. CASE CallFails \/ McpReturns \/ ExecFails \/ ExecReturns
  <2>1. Last(stack).todo # <<>> /\ Resume(stack)
    BY <1>5 DEF CallFails, McpReturns, ExecFails, ExecReturns, Calls, IInv,
                StackInv, Top
  <2>2. QED
    BY <1>1, <2>1, ResumeStep DEF Resume
<1>6. CASE Delegate
  <2> DEFINE p == Head(Top.todo).profile
  <2> DEFINE f == Frame(p, Top.depth + 1)
  <2>1. /\ Top.todo # <<>> /\ Head(Top.todo).tool = "delegate"
        /\ Top.depth < MaxDelegateDepth
        /\ stack' = Append(stack, f) /\ pc' = "connecting"
    BY <1>6 DEF Delegate, Calls
  <2>2. Top.depth \in Nat /\ Top.todo \in Seq(CallsOf(Tools))
    BY TopType DEF IInv
  <2>3. p \in Profiles
    <3>1. Head(Top.todo) \in CallsOf(Tools)
      BY <2>1, <2>2
    <3>2. QED
      BY <2>1, <3>1, CallTypes
  <2> HIDE DEF p
  <2>4. /\ f \in Frames /\ f.depth = Top.depth + 1 /\ f.serving = {}
        /\ Exact(f, None)
    BY <2>2, <2>3, NewFrame
  <2> HIDE DEF f
  <2>5. StackOK(stack') /\ Last(stack') = f /\ ExactBelow(stack')
    BY <1>1, <2>1, <2>4, PushedOK, ToolAssumption
       DEF Settled, Top, ToolAssumption
  <2>6. QED
    BY <2>1, <2>4, <2>5 DEF Settled
<1>7. QED
  BY <1>3, <1>4, <1>5, <1>6 DEF Works

-----------------------------------------------------------------------------
(* The other parts.                                                        *)

\* A server is to be connected, being connected, connected or given up.
LEMMA ConnectStep ==
  ASSUME ToolAssumption, IInv, Next
  PROVE  ConnectInv'
<1>1. /\ Top \in Frames /\ Top.profile \in Profiles
      /\ Top.serving \subseteq ToConnect(Top.profile)
      /\ Top.todo \in Seq(CallsOf(Tools)) /\ Top.depth \in Nat
  BY TopType DEF IInv
<1>2. None \notin Servers /\ \A p : ToConnect(p) \subseteq Servers
  BY ToolAssumption DEF ToolAssumption, ToConnect
<1>3. CASE Aside
  <2>1. stack' = stack /\ Top' = Top
    BY <1>3 DEF Aside, StartFails, McpCall, Initialized, NextRound,
         ExecStarts, ShellForks, ShellExits, HelperEnds, Deadline, Kill, Reap,
         Cancel, agentVars, Top
  <2>2. \/ pc' = pc /\ left' = left /\ at' = at
        \/ pc' = pc /\ pc = "connecting" /\ left' \subseteq left /\ at' = at
        \/ pc = "initialize" /\ pc' = "listing" /\ left' = left /\ at' = at
        \/ /\ pc = "tools" /\ pc' \in {"request", "mcp", "exec"}
           /\ left' = left /\ at' \in Servers \cup {at}
    BY <1>3 DEF Aside, StartFails, McpCall, Initialized, NextRound,
         ExecStarts, ShellForks, ShellExits, HelperEnds, Deadline, Kill, Reap,
         Cancel, mcpVars, Calls
  <2>3. QED
    BY <2>1, <2>2 DEF IInv, ConnectInv
<1>4. ASSUME NEW f \in Frames, SetTop(f) PROVE Top' = f
  BY <1>4, NewTop DEF SetTop, Top, IInv, StackInv, StackOK
<1>5. CASE Connects
  <2>1. ASSUME NEW s \in Servers, Start(s) PROVE ConnectInv'
    <3> DEFINE f == [Top EXCEPT !.client[s] = "open"]
    <3>1. f \in Frames /\ f.profile = Top.profile /\ f.serving = Top.serving
      BY <1>1 DEF Frames
    <3>2. Top' = f
      BY <1>4, <2>1, <3>1 DEF Start
    <3>3. QED
      BY <2>1, <3>1, <3>2 DEF Start, IInv, ConnectInv
  <2>2. CASE ConnectFails
    <3> DEFINE f == [Top EXCEPT !.client[at] = "closed"]
    <3>1. f \in Frames /\ f.profile = Top.profile /\ f.serving = Top.serving
      BY <1>1 DEF Frames
    <3>2. Top' = f
      BY <1>4, <2>2, <3>1 DEF ConnectFails
    <3>3. QED
      BY <2>2, <3>1, <3>2 DEF ConnectFails, IInv, ConnectInv
  <2>3. CASE ToolsListed
    <3> DEFINE f == [Top EXCEPT !.serving = @ \cup {at}]
    <3>1. at \in Servers /\ at \notin left
      BY <1>2, <2>3 DEF ToolsListed, IInv, ConnectInv
    <3>2. /\ f \in Frames /\ f.profile = Top.profile
          /\ f.serving = Top.serving \cup {at}
      BY <1>1, <3>1 DEF Frames
    <3>3. Top' = f
      BY <1>4, <2>3, <3>2 DEF ToolsListed
    <3>4. QED
      BY <2>3, <3>1, <3>2, <3>3 DEF ToolsListed, IInv, ConnectInv
  <2>4. QED
    BY <1>5, <2>1, <2>2, <2>3 DEF Connects
<1>6. CASE Delegate
  <2> DEFINE p == Head(Top.todo).profile
  <2> DEFINE f == Frame(p, Top.depth + 1)
  <2>1. /\ Top.todo # <<>> /\ Head(Top.todo).tool = "delegate"
        /\ stack' = Append(stack, f) /\ left' = ToConnect(p)
        /\ pc' = "connecting" /\ at' = at
    BY <1>6 DEF Delegate, Calls
  <2>2. p \in Profiles
    <3>1. Head(Top.todo) \in CallsOf(Tools)
      BY <1>1, <2>1
    <3>2. QED
      BY <2>1, <3>1, CallTypes
  <2> HIDE DEF p
  <2>3. f \in Frames /\ f.profile = p /\ f.serving = {}
    BY <1>1, <2>2, NewFrame
  <2> HIDE DEF f
  <2>4. Top' = f
    BY <2>1, <2>3, Pushed DEF Top, IInv, StackInv, StackOK
  <2>5. QED
    BY <2>1, <2>3, <2>4 DEF IInv, ConnectInv
<1>7. CASE Works /\ ~Delegate
  <2>1. pc' \notin {"connecting", "initialize", "listing"}
    BY <1>7, WorksStack
       DEF Works, SelectTools, Request, StreamFails, Finishes, Responds,
           CallFails, McpReturns, ExecFails, ExecReturns, Leave, Resume
  <2>2. left' = left /\ left = {} /\ at' \in {at, None}
    BY <1>7 DEF Works, SelectTools, Request, StreamFails, Finishes, Responds,
         CallFails, McpReturns, ExecFails, ExecReturns, Calls, mcpVars, IInv,
         ConnectInv
  <2>3. QED
    BY <2>1, <2>2 DEF IInv, ConnectInv
<1>8. QED
  BY <1>3, <1>5, <1>6, <1>7, NextKinds

\* The variables beside the stack keep their types.
LEMMA PlainStep ==
  ASSUME ToolAssumption, IInv, Next
  PROVE  PlainTypeOK'
<1> USE DEF IInv, PlainTypeOK, Pcs
<1>1. CASE Aside
  <2>1. left' \subseteq left /\ made' = made
    BY <1>1 DEF Aside, StartFails, McpCall, Initialized, NextRound, ExecStarts,
         ShellForks, ShellExits, HelperEnds, Deadline, Kill, Reap, Cancel,
         agentVars, mcpVars
  <2>2. \/ UNCHANGED execVars
        \/ ExecStarts \/ ShellForks \/ ShellExits \/ HelperEnds
        \/ Deadline \/ Kill \/ Reap \/ Cancel
    BY <1>1 DEF Aside, StartFails, McpCall, Initialized, NextRound
  <2>3. pc' \in Pcs /\ ctxDone' \in BOOLEAN
    BY <1>1 DEF Aside, StartFails, McpCall, Initialized, NextRound, ExecStarts,
         ShellForks, ShellExits, HelperEnds, Deadline, Kill, Reap, Cancel
  <2>4. /\ shell' \in {"none", "running", "exited", "failed", "killed"}
        /\ reaped' \in BOOLEAN /\ stopped' \in BOOLEAN /\ helper' \in BOOLEAN
        /\ execErr' \in {"none", "deadline", "canceled"}
        /\ report' \in {"none", "ok", "failed", "timeout"}
    BY <2>2 DEF execVars, ExecStarts, ShellForks, ShellExits, HelperEnds,
         Deadline, Kill, Reap, Cancel
  <2>5. QED
    BY <2>1, <2>3, <2>4
<1>2. CASE Connects
  <2>1. /\ UNCHANGED <<made, ctxDone, execVars>> /\ left' \subseteq left
        /\ pc' \in {"initialize", "connecting"}
    BY <1>2 DEF Connects, Start, ConnectFails, ToolsListed
  <2>2. QED
    BY <2>1 DEF execVars
<1>3. CASE Works
  <2>1. made' \in 0..MaxCalls
    <3>1. ASSUME NEW calls \in Responses, Responds(calls)
          PROVE  made' \in 0..MaxCalls
      BY <3>1, CallTypes, ToolAssumption DEF Responds, ToolAssumption
    <3>2. QED
      BY <1>3, <3>1 DEF Works, SelectTools, Request, StreamFails, Finishes,
           CallFails, Delegate, McpReturns, ExecFails, ExecReturns, agentVars
  <2>2. left' \subseteq Servers
    BY <1>3 DEF Works, SelectTools, Request, StreamFails, Finishes, Responds,
         CallFails, Delegate, McpReturns, ExecFails, ExecReturns, mcpVars,
         ToConnect
  <2>3. pc' \in Pcs /\ ctxDone' \in BOOLEAN
    BY <1>3 DEF Works, SelectTools, Request, StreamFails, Finishes, Responds,
         CallFails, Delegate, McpReturns, ExecFails, ExecReturns, Leave, Resume
  <2>4. UNCHANGED execVars \/ ExecFails \/ ExecReturns
    BY <1>3 DEF Works, SelectTools, Request, StreamFails, Finishes, Responds,
         CallFails, Delegate, McpReturns
  <2>5. /\ shell' \in {"none", "running", "exited", "failed", "killed"}
        /\ reaped' \in BOOLEAN /\ stopped' \in BOOLEAN /\ helper' \in BOOLEAN
        /\ execErr' \in {"none", "deadline", "canceled"}
        /\ report' \in {"none", "ok", "failed", "timeout"}
    BY <2>4 DEF execVars, ExecFails, ExecReturns, NoCommand
  <2>6. QED
    BY <2>1, <2>2, <2>3, <2>5
<1>4. QED
  BY <1>1, <1>2, <1>3, NextKinds

-----------------------------------------------------------------------------
(* The theorems.                                                           *)

\* The invariant holds at the start and after every step.
THEOREM Inductive == Spec => []IInv
<1>1. Init => IInv
  <2>1. SUFFICES ASSUME Init PROVE IInv
    OBVIOUS
  <2>2. PICK p \in Profiles : stack = <<Frame(p, 0)>> /\ left = ToConnect(p)
    BY <2>1 DEF Init
  <2> DEFINE f == Frame(p, 0)
  <2>3. /\ f \in Frames /\ f.profile = p /\ f.depth = 0 /\ f.serving = {}
        /\ Exact(f, None)
    BY NewFrame
  <2> HIDE DEF f
  <2>4. stack = <<f>>
    BY <2>2 DEF f
  <2>5. /\ stack \in Seq(Frames) /\ stack # <<>> /\ Len(stack) = 1
        /\ stack[1] = f
    BY <2>3, <2>4
  <2>6. Top = f
    BY <2>5 DEF Top, Last
  <2>7. StackInv /\ UsableInv
    BY <2>1, <2>3, <2>5, <2>6, ToolAssumption
       DEF Init, StackInv, StackOK, UsableInv, ExactBelow, Connecting,
           ToolAssumption
  <2>8. left \subseteq Servers
    BY <2>2 DEF ToConnect
  <2>9. ConnectInv
    BY <2>1, <2>2, <2>3, <2>6 DEF Init, ConnectInv
  <2>10. PlainTypeOK
    <3>1. made \in 0..MaxCalls
      BY <2>1, ToolAssumption DEF Init, ToolAssumption
    <3>2. QED
      BY <2>1, <2>8, <3>1 DEF Init, PlainTypeOK, Pcs
  <2>11. QED
    BY <2>7, <2>9, <2>10 DEF IInv
<1>2. ASSUME IInv, [Next]_vars PROVE IInv'
  <2>1. CASE Next
    <3>1. PlainTypeOK' /\ ConnectInv'
      BY <1>2, <2>1, ToolAssumption, PlainStep, ConnectStep
    <3>2. StackInv' /\ UsableInv'
      <4>1. CASE Works
        BY <1>2, <4>1, ToolAssumption, WorksStack
           DEF Settled, StackInv, UsableInv, Connecting, Top
      <4>2. QED
        BY <1>2, <2>1, <4>1, ToolAssumption, NextKinds, AsideStack,
           ConnectsStack
    <3>3. QED
      BY <3>1, <3>2 DEF IInv
  <2>2. CASE UNCHANGED vars
    BY <1>2, <2>2
       DEF vars, agentVars, mcpVars, execVars, IInv, PlainTypeOK, StackInv,
           ConnectInv, UsableInv, Connecting, Top
  <2>3. QED
    BY <1>2, <2>1, <2>2
<1>3. QED
  BY <1>1, <1>2, PTL DEF Spec

\* Every variable has its type, and a call stack never grows beyond the depth at
\* which Delegate refuses (manager.go:189).
THEOREM TypeCorrect == Spec => []TypeOK
<1>1. IInv => TypeOK
  <2>1. SUFFICES ASSUME IInv PROVE TypeOK
    OBVIOUS
  <2>2. Len(stack) \in 1..(MaxDelegateDepth + 1)
    BY <2>1, TopType, ToolAssumption
       DEF IInv, StackInv, StackOK, ToolAssumption
  <2>3. ASSUME NEW i \in DOMAIN stack
        PROVE  /\ stack[i].client \in [Servers -> {"none", "open", "closed"}]
               /\ stack[i].serving \subseteq ToConnect(stack[i].profile)
    <3>1. i \in 1..Len(stack) /\ stack[i] \in Frames
      BY <2>1, <2>3 DEF IInv, StackInv, StackOK
    <3>2. QED
      BY <2>1, <3>1 DEF IInv, StackInv, StackOK, Frames
  <2>4. QED
    BY <2>1, <2>2, <2>3 DEF IInv, PlainTypeOK, ConnectInv, TypeOK
<1>2. QED
  BY <1>1, Inductive, PTL

\* An agent has the tools of exactly the servers it is connected to, however
\* many agents it delegates to and whatever fails in them (tools/mcp.go:27-37).
THEOREM OnlyUsable == Spec => []OnlyUsableServersRun
<1>1. IInv => OnlyUsableServersRun
  <2>1. SUFFICES ASSUME IInv, NEW i \in DOMAIN stack, NEW s \in Servers
                 PROVE  stack[i].client[s] = "open" <=>
                          \/ s \in stack[i].serving
                          \/ /\ i = Len(stack) /\ at = s
                             /\ pc \in {"initialize", "listing"}
    BY DEF OnlyUsableServersRun
  <2>2. i \in 1..Len(stack) /\ Top = stack[Len(stack)] /\ s # None
    BY <2>1, TopType, ToolAssumption
       DEF IInv, StackInv, StackOK, ToolAssumption
  <2>3. CASE i = Len(stack)
    BY <2>1, <2>2, <2>3 DEF IInv, UsableInv, Exact, Connecting
  <2>4. CASE i \in 1..(Len(stack) - 1)
    <3>1. Exact(stack[i], None) /\ i # Len(stack)
      BY <2>1, <2>4, TopType DEF IInv, UsableInv, ExactBelow
    <3>2. QED
      BY <2>1, <2>2, <3>1 DEF Exact
  <2>5. QED
    BY <2>1, <2>2, <2>3, <2>4, TopType DEF IInv
<1>2. QED
  BY <1>1, Inductive, PTL

\* os/exec kills only when the command's context is done.
StoppedInv == stopped => execErr # "none"

\* Only the kill sets stopped, and exec's return resets it with the context.
LEMMA StoppedStep ==
  ASSUME StoppedInv, [Next]_vars
  PROVE  StoppedInv'
<1>1. CASE Goes
  BY <1>1 DEF StoppedInv, Goes, StartFails, Start, McpCall, SelectTools,
       Request, NextRound, CallFails, Delegate, ExecFails, ExecStarts,
       ExecReturns, NoCommand, StreamFails, execVars
<1>2. CASE \/ Initialized \/ ConnectFails \/ ToolsListed \/ McpReturns
           \/ StreamFails \/ Finishes
           \/ \E calls \in Responses : Responds(calls)
  BY <1>2 DEF StoppedInv, Initialized, ConnectFails, ToolsListed, McpReturns,
       StreamFails, Finishes, Responds, execVars
<1>3. CASE ShellForks \/ ShellExits \/ HelperEnds \/ Deadline \/ Kill \/ Reap
           \/ Cancel
  BY <1>3 DEF StoppedInv, ShellForks, ShellExits, HelperEnds, Deadline, Kill,
       Reap, Cancel
<1>4. CASE UNCHANGED vars
  BY <1>4 DEF StoppedInv, vars, execVars
<1>5. QED
  BY <1>1, <1>2, <1>3, <1>4 DEF Next

\* What exec answers is true of the command, however its end, its deadline, a
\* cancel, the kill and the end of its output fall (tools/exec.go:98-107).
THEOREM ExecTruth == Spec => ExecTellsTheTruth
<1> DEFINE Truth == pc = "exec" /\ pc' # "exec" =>
             /\ reaped
             /\ report' = "ok" => shell = "exited" /\ ~stopped /\ ~helper
             /\ report' = "timeout" => execErr = "deadline"
             /\ report' = "failed" => shell # "exited" \/ execErr = "canceled"
<1>1. Init => StoppedInv
  BY DEF Init, StoppedInv
<1>2. ASSUME IInv, StoppedInv, [Next]_vars PROVE Truth
  <2>1. SUFFICES ASSUME pc = "exec", pc' # "exec" PROVE Truth
    OBVIOUS
  <2>2. ExecReturns
    BY <1>2, <2>1
       DEF Next, Goes, StartFails, Start, McpCall, SelectTools, Request,
           NextRound, CallFails, Delegate, ExecFails, ExecStarts, StreamFails,
           Initialized, ConnectFails, ToolsListed, McpReturns, Finishes,
           Responds, ShellForks, ShellExits, HelperEnds, Deadline, Kill, Reap,
           Cancel, Calls, vars, agentVars
  <2>3. execErr \in {"none", "deadline", "canceled"}
    BY <1>2 DEF IInv, PlainTypeOK
  <2>4. QED
    BY <1>2, <2>2, <2>3 DEF ExecReturns, StoppedInv
<1>3. QED
  BY <1>1, <1>2, StoppedStep, Inductive, PTL DEF Spec, ExecTellsTheTruth
=============================================================================

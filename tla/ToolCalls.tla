------------------------------ MODULE ToolCalls ------------------------------
(***************************************************************************)
(* The tools of one prompt: the calls that Agent.Run makes one after the   *)
(* other, delegation to further agents (Manager.Delegate), the servers an  *)
(* agent's MCP tools need (tools/mcp.go, mcp/client.go), and the shell     *)
(* command of the exec tool (tools/exec.go).                               *)
(*                                                                         *)
(* One goroutine runs the prompt and every agent it delegates to: stack is *)
(* its call stack, a frame per agent.  Beside it run the goroutine with    *)
(* which os/exec kills a command whose context is done, the shell, the     *)
(* processes that it leaves behind, the MCP servers and the model.  All    *)
(* agents share the prompt's context; a call to an MCP server does not     *)
(* look at it.  What fails inside a delegated agent is, for the one that   *)
(* asked for it, the result of a call.                                     *)
(*                                                                         *)
(* Tools that only read and write files return at once and are left out;   *)
(* a server offers one tool, which has its name.                           *)
(***************************************************************************)
EXTENDS Naturals, Sequences, FiniteSets, SequencesExt

CONSTANTS Servers,           \* the configured MCP servers
          Profiles,          \* the agents a prompt may run
          Listed,            \* per profile: the tools it names, {} for all
          MaxDelegateDepth,  \* depth at which delegation is refused: 4
          MaxCalls,          \* bound: tool calls of the prompt
          None               \* no server, no profile

BuiltIn == {"exec", "delegate"}
Tools == BuiltIn \cup Servers

ASSUME ToolAssumption ==
  /\ Servers \cap BuiltIn = {}
  /\ Listed \in [Profiles -> SUBSET Tools]
  /\ MaxDelegateDepth \in Nat
  /\ MaxCalls \in Nat
  /\ None \notin Servers

VARIABLES
  pc,       \* where the prompt's goroutine stands, in its innermost agent
  stack,    \* the agents at work, the prompt's own first
  made,     \* how many tool calls the model has made
  ctxDone,  \* the prompt's context is cancelled
  left,     \* the servers that NewMcpManager has still to connect
  at,       \* the server it is connecting
  shell,    \* the command: none, running, exited, failed, killed
  reaped,   \* os/exec has collected its status
  stopped,  \* os/exec has killed it and will report that
  helper,   \* a process it left behind has its output open
  execErr,  \* the error of the command's context
  report    \* what exec has returned: ok, failed, timeout

agentVars == <<stack, made>>
mcpVars == <<left, at>>
execVars == <<shell, reaped, stopped, helper, execErr, report>>
vars == <<pc, agentVars, ctxDone, mcpVars, execVars>>

\* An agent: the depth that Delegate has put in its context, its connections to
\* servers, those whose tools it has, and the calls it has still to make. Nobody
\* closes the connections of an agent that has returned.
Frame(profile, depth) ==
  [profile |-> profile, depth |-> depth,
   client |-> [s \in Servers |-> "none"], serving |-> {}, todo |-> <<>>]

\* toolsFor connects every server when the profile names none, or one of theirs.
NeedsMcp(profile) ==
  Listed[profile] = {} \/ Listed[profile] \cap Servers # {}
ToConnect(profile) == IF NeedsMcp(profile) THEN Servers ELSE {}

Top == Last(stack)
SetTop(frame) == stack' = Append(Front(stack), frame)

Available == BuiltIn \cup Top.serving
Has(tool) ==
  /\ tool \in Available
  /\ Listed[Top.profile] = {} \/ tool \in Listed[Top.profile]

Init ==
  /\ pc = "connecting"
  /\ \E p \in Profiles : stack = <<Frame(p, 0)>> /\ left = ToConnect(p)
  /\ made = 0
  /\ ctxDone = FALSE
  /\ at = None
  /\ shell = "none"
  /\ reaped = FALSE
  /\ stopped = FALSE
  /\ helper = FALSE
  /\ execErr = "none"
  /\ report = "none"

\* The innermost agent's current call has its result.
Resume(frames) ==
  /\ pc' = "tools"
  /\ stack' = [frames EXCEPT ![Len(frames)].todo = Tail(@)]

\* The innermost agent returns, with a result or an error: for a delegated one
\* that is a result of its caller, the prompt itself is answered.
Leave ==
  IF Len(stack) = 1 THEN pc' = "done" /\ UNCHANGED stack
  ELSE Resume(Front(stack))

-----------------------------------------------------------------------------
(* UseAgent: the servers are connected one after the other, in any order.  *)

StartFails(s) ==
  /\ pc = "connecting"
  /\ s \in left
  /\ left' = left \ {s}
  /\ UNCHANGED <<pc, agentVars, ctxDone, at, execVars>>

Start(s) ==
  /\ pc = "connecting"
  /\ s \in left
  /\ left' = left \ {s}
  /\ at' = s
  /\ SetTop([Top EXCEPT !.client[s] = "open"])
  /\ pc' = "initialize"
  /\ UNCHANGED <<made, ctxDone, execVars>>

Initialized ==
  /\ pc = "initialize"
  /\ pc' = "listing"
  /\ UNCHANGED <<agentVars, ctxDone, mcpVars, execVars>>

\* Mutant: the connection of a server that has failed stays.
ConnectFailsOpen ==
  /\ pc \in {"initialize", "listing"}
  /\ at' = None
  /\ pc' = "connecting"
  /\ UNCHANGED <<agentVars, ctxDone, left, execVars>>

\* The server answers with an error, or ends: it is closed and done without.
ConnectFails ==
  /\ pc \in {"initialize", "listing"}
  /\ SetTop([Top EXCEPT !.client[at] = "closed"])
  /\ at' = None
  /\ pc' = "connecting"
  /\ UNCHANGED <<made, ctxDone, left, execVars>>

ToolsListed ==
  /\ pc = "listing"
  /\ SetTop([Top EXCEPT !.serving = @ \cup {at}])
  /\ at' = None
  /\ pc' = "connecting"
  /\ UNCHANGED <<made, ctxDone, left, execVars>>

\* A profile that names a tool that is not there is an error.
SelectTools ==
  /\ pc = "connecting"
  /\ left = {}
  /\ IF Listed[Top.profile] \subseteq Available
       THEN pc' = "request" /\ UNCHANGED stack
       ELSE Leave
  /\ UNCHANGED <<made, ctxDone, mcpVars, execVars>>

-----------------------------------------------------------------------------
(* Agent.Run                                                               *)

\* A request is sent; not under a cancelled context.
Request ==
  /\ pc = "request"
  /\ \/ ~ctxDone /\ pc' = "streaming" /\ UNCHANGED stack
     \/ Leave
  /\ UNCHANGED <<made, ctxDone, mcpVars, execVars>>

\* The model fails, or the stream has ended and the context is done.
StreamFails ==
  /\ pc = "streaming"
  /\ Leave
  /\ UNCHANGED <<made, ctxDone, mcpVars, execVars>>

\* A response without a tool call ends the agent's run.
Finishes ==
  /\ pc = "streaming"
  /\ ~ctxDone
  /\ Leave
  /\ UNCHANGED <<made, ctxDone, mcpVars, execVars>>

\* What a response may call: one tool, or another one after a shell command or
\* a delegation; a server may have failed, delegation may be to any agent.
CallsOf(tools) ==
  {[tool |-> t, profile |-> None] : t \in tools \ {"delegate"}}
    \cup {[tool |-> t, profile |-> p] : t \in tools \cap {"delegate"},
                                      p \in Profiles}
Responses ==
  {<<c>> : c \in CallsOf(Tools)}
    \cup {<<c, d>> : c \in CallsOf(BuiltIn), d \in CallsOf(Tools)}

Responds(calls) ==
  /\ pc = "streaming"
  /\ ~ctxDone
  /\ made + Len(calls) <= MaxCalls
  /\ made' = made + Len(calls)
  /\ SetTop([Top EXCEPT !.todo = calls])
  /\ pc' = "tools"
  /\ UNCHANGED <<ctxDone, mcpVars, execVars>>

\* All calls of the response have their results.
NextRound ==
  /\ pc = "tools"
  /\ Top.todo = <<>>
  /\ pc' = "request"
  /\ UNCHANGED <<agentVars, ctxDone, mcpVars, execVars>>

Calls(tool) == pc = "tools" /\ Top.todo # <<>> /\ Head(Top.todo).tool = tool

\* The agent has no such tool, the tool refuses its arguments, or delegation is
\* too deep.
CallFails ==
  /\ pc = "tools"
  /\ Top.todo # <<>>
  /\ Resume(stack)
  /\ UNCHANGED <<made, ctxDone, mcpVars, execVars>>

-----------------------------------------------------------------------------
(* Delegation                                                              *)

\* Mutant: the depth is not passed on.
DelegateFromZero ==
  /\ Calls("delegate") /\ Has("delegate")
  /\ Top.depth < MaxDelegateDepth
  /\ LET p == Head(Top.todo).profile IN
       /\ stack' = Append(stack, Frame(p, 0))
       /\ left' = ToConnect(p)
  /\ pc' = "connecting"
  /\ UNCHANGED <<made, ctxDone, at, execVars>>

\* The delegated agent begins like any other, one deeper.
Delegate ==
  /\ Calls("delegate") /\ Has("delegate")
  /\ Top.depth < MaxDelegateDepth
  /\ LET p == Head(Top.todo).profile IN
       /\ stack' = Append(stack, Frame(p, Top.depth + 1))
       /\ left' = ToConnect(p)
  /\ pc' = "connecting"
  /\ UNCHANGED <<made, ctxDone, at, execVars>>

-----------------------------------------------------------------------------
(* MCP tools                                                               *)

McpCall(s) ==
  /\ Calls(s) /\ Has(s)
  /\ at' = s
  /\ pc' = "mcp"
  /\ UNCHANGED <<agentVars, ctxDone, left, execVars>>

\* The server answers, or the call fails.
McpReturns ==
  /\ pc = "mcp"
  /\ at' = None
  /\ Resume(stack)
  /\ UNCHANGED <<made, ctxDone, left, execVars>>

-----------------------------------------------------------------------------
(* exec: the command runs under a context with a deadline of its own.      *)

NoCommand ==
  shell' = "none" /\ reaped' = FALSE /\ stopped' = FALSE /\ execErr' = "none"

\* It cannot be started; under a context that is done os/exec starts nothing.
ExecFails ==
  /\ Calls("exec") /\ Has("exec")
  /\ report' = "failed"
  /\ Resume(stack)
  /\ UNCHANGED <<made, ctxDone, mcpVars, shell, reaped, stopped, helper,
                 execErr>>

ExecStarts ==
  /\ Calls("exec") /\ Has("exec")
  /\ ~ctxDone
  /\ pc' = "exec"
  /\ shell' = "running"
  /\ UNCHANGED <<agentVars, ctxDone, mcpVars, reaped, stopped, helper,
                 execErr, report>>

ShellForks ==
  /\ shell = "running"
  /\ helper' = TRUE
  /\ UNCHANGED <<pc, agentVars, ctxDone, mcpVars, shell, reaped, stopped,
                 execErr, report>>

ShellExits ==
  /\ shell = "running"
  /\ shell' \in {"exited", "failed"}
  /\ UNCHANGED <<pc, agentVars, ctxDone, mcpVars, reaped, stopped, helper,
                 execErr, report>>

HelperEnds ==
  /\ helper
  /\ helper' = FALSE
  /\ UNCHANGED <<pc, agentVars, ctxDone, mcpVars, shell, reaped, stopped,
                 execErr, report>>

Deadline ==
  /\ pc = "exec"
  /\ execErr = "none"
  /\ execErr' = "deadline"
  /\ UNCHANGED <<pc, agentVars, ctxDone, mcpVars, shell, reaped, stopped,
                 helper, report>>

\* Mutant: only the deadline kills.
KillAtDeadline ==
  /\ pc = "exec"
  /\ execErr = "deadline" /\ ~reaped /\ ~stopped
  /\ shell' = IF shell = "running" THEN "killed" ELSE shell
  /\ stopped' = TRUE
  /\ UNCHANGED <<pc, agentVars, ctxDone, mcpVars, reaped, helper, execErr,
                 report>>

\* The kill of a command that has ended, but has not been reaped, succeeds too.
Kill ==
  /\ pc = "exec"
  /\ execErr # "none" /\ ~reaped /\ ~stopped
  /\ shell' = IF shell = "running" THEN "killed" ELSE shell
  /\ stopped' = TRUE
  /\ UNCHANGED <<pc, agentVars, ctxDone, mcpVars, reaped, helper, execErr,
                 report>>

Reap ==
  /\ pc = "exec"
  /\ shell # "running" /\ ~reaped
  /\ reaped' = TRUE
  /\ UNCHANGED <<pc, agentVars, ctxDone, mcpVars, shell, stopped, helper,
                 execErr, report>>

\* Mutant: the error of the command is taken for the deadline's alone.
ExecReturnsDeaf ==
  /\ pc = "exec"
  /\ reaped /\ ~helper
  /\ report' = CASE execErr = "deadline" -> "timeout"
                 [] execErr # "deadline" /\ shell = "failed" -> "failed"
                 [] OTHER -> "ok"
  /\ Resume(stack)
  /\ NoCommand
  /\ UNCHANGED <<made, ctxDone, mcpVars, helper>>

\* CombinedOutput returns when the command has ended and nobody holds its
\* output any more; a deadline that has passed by then is what is reported.
ExecReturns ==
  /\ pc = "exec"
  /\ reaped /\ ~helper
  /\ report' = CASE execErr = "deadline" -> "timeout"
                 [] execErr # "deadline" /\ (stopped \/ shell # "exited") ->
                      "failed"
                 [] OTHER -> "ok"
  /\ Resume(stack)
  /\ NoCommand
  /\ UNCHANGED <<made, ctxDone, mcpVars, helper>>

-----------------------------------------------------------------------------

\* The context of a running command ends with the prompt's.
Cancel ==
  /\ pc # "done"
  /\ ~ctxDone
  /\ ctxDone' = TRUE
  /\ execErr' = IF pc = "exec" /\ execErr = "none" THEN "canceled" ELSE execErr
  /\ UNCHANGED <<pc, agentVars, mcpVars, shell, reaped, stopped, helper,
                 report>>

\* What the prompt's goroutine does without waiting for anybody.
Goes ==
  \/ \E s \in Servers : StartFails(s) \/ Start(s) \/ McpCall(s)
  \/ SelectTools \/ Request \/ NextRound
  \/ CallFails \/ Delegate \/ ExecFails \/ ExecStarts \/ ExecReturns
  \/ ctxDone /\ StreamFails

Next ==
  \/ Goes
  \/ Initialized \/ ConnectFails \/ ToolsListed \/ McpReturns
  \/ StreamFails \/ Finishes \/ \E calls \in Responses : Responds(calls)
  \/ ShellForks \/ ShellExits \/ HelperEnds
  \/ Deadline \/ Kill \/ Reap
  \/ Cancel

\* The prompt's goroutine goes on when it can, timers fire, os/exec kills and
\* reaps. Servers, models, commands and what they leave behind need never end.
Fairness ==
  /\ WF_vars(Goes)
  /\ WF_vars(Deadline)
  /\ WF_vars(Kill)
  /\ WF_vars(Reap)

Spec == Init /\ [][Next]_vars /\ Fairness

-----------------------------------------------------------------------------
(* Properties                                                              *)

Pcs == {"connecting", "initialize", "listing", "request", "streaming", "tools",
        "mcp", "exec", "done"}

\* The types of the variables.  However a model delegates, an agent is at most
\* MaxDelegateDepth below the prompt's (manager.go:189): the depth that the
\* context carries is the length of the call stack, also after agents that have
\* failed.
TypeOK ==
  /\ pc \in Pcs
  /\ made \in 0..MaxCalls
  /\ Len(stack) \in 1..(MaxDelegateDepth + 1)
  /\ \A i \in DOMAIN stack :
       /\ stack[i].client \in [Servers -> {"none", "open", "closed"}]
       /\ stack[i].serving \subseteq ToConnect(stack[i].profile)
  /\ ctxDone \in BOOLEAN
  /\ left \subseteq Servers /\ at \in Servers \cup {None}
  /\ shell \in {"none", "running", "exited", "failed", "killed"}
  /\ reaped \in BOOLEAN /\ stopped \in BOOLEAN /\ helper \in BOOLEAN
  /\ execErr \in {"none", "deadline", "canceled"}
  /\ report \in {"none", "ok", "failed", "timeout"}

\* An agent is given the tools of exactly the servers it has a connection to: a
\* server that failed while it was being connected is not left running
\* (tools/mcp.go:27-37), and no call of an agent, not even after others have
\* come and gone, finds its client closed (mcp/client.go:260).
OnlyUsableServersRun ==
  \A i \in DOMAIN stack : \A s \in Servers :
    stack[i].client[s] = "open" <=>
      \/ s \in stack[i].serving
      \/ i = Len(stack) /\ at = s /\ pc \in {"initialize", "listing"}

\* What exec answers is true of the command, whatever the order in which it
\* ends, its deadline passes, the prompt is cancelled, os/exec kills it and the
\* last holder of its output goes: "ok" is a command that ended well by itself,
\* with all of its output; a timeout is one whose deadline passed; any other
\* failed or was cancelled.  When exec answers the command does not run any more
\* (exec.go:98-107).
ExecTellsTheTruth ==
  [][pc = "exec" /\ pc' # "exec" =>
       /\ reaped
       /\ report' = "ok" => shell = "exited" /\ ~stopped /\ ~helper
       /\ report' = "timeout" => execErr = "deadline"
       /\ report' = "failed" => shell # "exited" \/ execErr = "canceled"]_vars

\* Waiting for an MCP server, which heeds neither cancel nor deadline
\* (tools/mcp.go:97), or for a process that holds a dead command's output
\* (exec.go:98).
Waits ==
  \/ pc \in {"initialize", "listing", "mcp"}
  \/ pc = "exec" /\ reaped /\ helper

\* Unless it waits for these for ever, a cancelled prompt ends, however deep in
\* delegation it is and whatever calls its agents have still to make; and a
\* command ends at its deadline, whatever it does.
CallsEnd ==
  []<>~Waits => /\ ctxDone ~> pc = "done"
                /\ pc = "exec" ~> pc # "exec"

=============================================================================

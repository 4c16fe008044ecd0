------------------------------ MODULE RpcClient ------------------------------
(***************************************************************************)
(* What acp.Client promises to its callers, without goroutines, channels   *)
(* or locks: a call starts once and returns at most once; it returns the   *)
(* peer's answer only if the peer gave one, and an error of the connection *)
(* only if the connection is down.                                         *)
(***************************************************************************)
CONSTANTS Calls, None

VARIABLES phase,    \* per call: "idle", "waiting", "returned"
          result,   \* per call: None until it returns
          replied,  \* the calls the peer has answered
          linkUp    \* both directions of the connection work

rpcVars == <<phase, result, replied, linkUp>>

Init ==
  /\ phase = [c \in Calls |-> "idle"]
  /\ result = [c \in Calls |-> None]
  /\ replied = {}
  /\ linkUp = TRUE

Start(c) ==
  /\ phase[c] = "idle"
  /\ phase' = [phase EXCEPT ![c] = "waiting"]
  /\ UNCHANGED <<result, replied, linkUp>>

Reply(c) ==
  /\ phase[c] # "idle"
  /\ c \notin replied
  /\ replied' = replied \cup {c}
  /\ UNCHANGED <<phase, result, linkUp>>

LinkDown ==
  /\ linkUp
  /\ linkUp' = FALSE
  /\ UNCHANGED <<phase, result, replied>>

Return(c) ==
  /\ phase[c] = "waiting"
  /\ \E v \in {"answer", "closed", "writeError"} :
        /\ v = "answer" => c \in replied
        /\ v # "answer" => ~linkUp
        /\ result' = [result EXCEPT ![c] = v]
  /\ phase' = [phase EXCEPT ![c] = "returned"]
  /\ UNCHANGED <<replied, linkUp>>

Next ==
  \/ \E c \in Calls : Start(c) \/ Reply(c) \/ Return(c)
  \/ LinkDown

Spec == Init /\ [][Next]_rpcVars

=============================================================================

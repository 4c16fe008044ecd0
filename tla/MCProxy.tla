------------------------------- MODULE MCProxy -------------------------------
(***************************************************************************)
(* The three modules of the proxy in one run: what a request is translated *)
(* to, what becomes of its answer, and the tokens that it is sent with.    *)
(* They share no variable, and no property is about two of them, so that   *)
(* nothing is to be seen in their interleavings: a behaviour is one of one *)
(* module, while the others stay in an initial state.                      *)
(***************************************************************************)
EXTENDS MCGateway, MCRequestCodec, MCTokenStore

VARIABLE part    \* the module that moves: "gateway", "request", "tokens"

GatewayAtRest ==
  /\ req = CHOOSE r \in Exchanges : TRUE
  /\ handler = "received" /\ gives = "" /\ todo = <<>>
  /\ dec = Decoder /\ col = Collector /\ out = <<>>
  /\ status = <<>> /\ calls = 0 /\ hook = <<>> /\ outcome = ""

RequestAtRest ==
  /\ from = "chat" /\ to = "anthropic"
  /\ body = Body(<<>>, <<>>, CHOOSE o \in Options : TRUE)
  /\ translated = NotYet

TokensAtRest == Init /\ rotates

ProxyInit ==
  \/ part = "gateway" /\ GatewayInit /\ RequestAtRest /\ TokensAtRest
  \/ part = "request" /\ GatewayAtRest /\ RequestInit /\ TokensAtRest
  \/ part = "tokens" /\ GatewayAtRest /\ RequestAtRest /\ Init

ProxyNext ==
  \/ part = "gateway" /\ GatewayNext /\ UNCHANGED <<part, requestVars, vars>>
  \/ part = "request" /\ RequestNext /\ UNCHANGED <<part, gatewayVars, vars>>
  \/ part = "tokens" /\ Next /\ UNCHANGED <<part, gatewayVars, requestVars>>

ProxySpec ==
  ProxyInit /\ [][ProxyNext]_<<part, gatewayVars, requestVars, vars>>
=============================================================================

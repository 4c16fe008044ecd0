----------------------------- MODULE TokenStore -----------------------------
(***************************************************************************)
(* The credential stores of proxy/providers/claudecode/oauth.go and        *)
(* proxy/providers/codex/local.go, which keep the tokens of a login in     *)
(* memory and in a file.                                                   *)
(*                                                                         *)
(* Every request of the proxy asks its store for a bearer token.  Under    *)
(* the store's lock an expired access token is refreshed with the refresh  *)
(* token: the token server answers with a new access token and, if it      *)
(* rotates them, a new refresh token, which ends the life of the old one.  *)
(* The new tokens replace the old ones in memory and are saved.  The file  *)
(* is read once, when the process starts, and is shared by every process of*)
(* the user.                                                               *)
(*                                                                         *)
(* Tokens are numbered by the refresh that issued them.  A token counts as *)
(* expired from the minute before it is.                                   *)
(***************************************************************************)
EXTENDS Naturals, FiniteSets

CONSTANTS Procs,     \* processes that use the login
          Requests,  \* requests of the proxy
          ProcOf,    \* the process each of them comes to
          Faults,    \* what may go wrong: "network", "save", "crash"
          None       \* no request, no token

ASSUME TokenAssumption ==
  /\ ProcOf \in [Requests -> Procs]
  /\ Faults \subseteq {"network", "save", "crash"}
  /\ IsFiniteSet(Requests)
  /\ None \notin Requests \cup Procs \cup Nat
  /\ None \notin [access : Nat, refresh : Nat \cup {None}]

VARIABLES
  up,       \* the processes that run with a loaded store
  creds,    \* Store.creds of each process
  mu,       \* Store.mu of each process: the request that holds it
  pc,       \* where each request stands in BearerToken
  reply,    \* the token server's answer to it, None for a refusal
  file,     \* the credentials file
  issued,   \* how many times the server has issued tokens
  fresh,    \* the access tokens that have not expired
  live,     \* the refresh token that the server accepts
  rotates,  \* whether the server issues new refresh tokens
  rotator,  \* history: the process that got it
  saved,    \* history: the latest refresh token that was ever in the file
  unsaved,  \* history: the processes whose last save failed
  lost      \* history: tokens were lost between the server and the file

vars == <<up, creds, mu, pc, reply, file, issued, fresh, live, rotates, rotator,
          saved, unsaved, lost>>

serverVars == <<issued, fresh, live, rotates, rotator>>
fileVars == <<file, saved, unsaved>>

\* Returned with a token, with the server's refusal, with another error, or
\* gone with the process.
Ended == {"token", "refused", "failed", "gone"}

\* BearerToken's states that hold the lock.
Holding == {"refreshing", "answered", "saving", "writing"}

\* A file that is no JSON.
Torn == None

First == [access |-> 0, refresh |-> 0]

Init ==
  /\ up = {} /\ creds = [p \in Procs |-> First]
  /\ mu = [p \in Procs |-> None]
  /\ pc = [r \in Requests |-> "idle"] /\ reply = [r \in Requests |-> None]
  /\ file = First /\ saved = 0
  /\ issued = 0 /\ fresh = {0} /\ live = 0
  /\ rotates \in BOOLEAN /\ rotator = None
  /\ unsaved = {} /\ lost = FALSE

\* LoadStore.  A file that cannot be read leaves the process without the
\* provider.
LoadStore(p) ==
  /\ p \notin up /\ file # Torn
  /\ up' = up \cup {p}
  /\ creds' = [creds EXCEPT ![p] = file]
  /\ unsaved' = unsaved \ {p}
  /\ UNCHANGED <<mu, pc, reply, file, saved, serverVars, lost>>

\* A request comes to the proxy.
Call(r) ==
  /\ pc[r] = "idle" /\ ProcOf[r] \in up
  /\ pc' = [pc EXCEPT ![r] = "waiting"]
  /\ UNCHANGED <<up, creds, mu, reply, fileVars, serverVars, lost>>

\* Mutant: the lock is not held while the server is asked.
LockBriefly(r) ==
  /\ pc[r] = "waiting" /\ mu[ProcOf[r]] = None
  /\ pc' = [pc EXCEPT ![r] = IF creds[ProcOf[r]].access \in fresh
                             THEN "token" ELSE "refreshing"]
  /\ UNCHANGED <<up, creds, mu, reply, fileVars, serverVars, lost>>

\* BearerToken up to the refresh, or to its end when the token is good.
Lock(r) ==
  LET p == ProcOf[r] IN
    /\ pc[r] = "waiting" /\ mu[p] = None
    /\ IF creds[p].access \in fresh
       THEN pc' = [pc EXCEPT ![r] = "token"] /\ UNCHANGED mu
       ELSE /\ pc' = [pc EXCEPT ![r] = "refreshing"]
            /\ mu' = [mu EXCEPT ![p] = r]
    /\ UNCHANGED <<up, creds, reply, fileVars, serverVars, lost>>

\* The lock is released, whatever the outcome.
Unlock(r, outcome) ==
  /\ pc' = [pc EXCEPT ![r] = outcome]
  /\ mu' = [mu EXCEPT ![ProcOf[r]] = None]

\* The token server: it refuses a refresh token that is not the live one.
ServerRefreshes(r) ==
  LET p == ProcOf[r]
      n == issued + 1
  IN
    /\ pc[r] = "refreshing"
    /\ pc' = [pc EXCEPT ![r] = "answered"]
    /\ IF creds[p].refresh # live
       THEN reply' = [reply EXCEPT ![r] = None] /\ UNCHANGED serverVars
       ELSE /\ issued' = n /\ fresh' = fresh \cup {n}
            /\ \/ /\ rotates /\ live' = n /\ rotator' = p
                  /\ reply' = [reply EXCEPT
                                 ![r] = [access |-> n, refresh |-> n]]
               \/ /\ ~rotates /\ UNCHANGED <<live, rotator>>
                  /\ reply' = [reply EXCEPT ![r] = [access |-> n,
                                                    refresh |-> None]]
            /\ UNCHANGED rotates
    /\ UNCHANGED <<up, creds, mu, fileVars, lost>>

\* requestTokens fails: the request or its answer is lost, or the 30 seconds
\* are over.
RefreshFails(r) ==
  /\ "network" \in Faults
  /\ pc[r] \in {"refreshing", "answered"}
  /\ Unlock(r, "failed")
  /\ lost' = (lost \/ (pc[r] = "answered" /\ reply[r] # None))
  /\ UNCHANGED <<up, creds, reply, fileVars, serverVars>>

\* Mutant: the reply replaces what is held as it is.
Replace(old, new) == new

\* Mutant: the refresh token of the login is kept.
KeepRefresh(old, new) == [new EXCEPT !.refresh = old.refresh]

\* The answer replaces the tokens in memory; an empty refresh token means that
\* the old one stays.
Merge(old, new) ==
  [new EXCEPT !.refresh = IF @ = None THEN old.refresh ELSE @]


\* Mutant: what is held is saved after a refusal too.
ReceiveSavesAlways(r) ==
  LET p == ProcOf[r] IN
    /\ pc[r] = "answered"
    /\ pc' = [pc EXCEPT ![r] = "saving"] /\ UNCHANGED mu
    /\ creds' = IF reply[r] = None THEN creds
                ELSE [creds EXCEPT ![p] = Merge(@, reply[r])]
    /\ UNCHANGED <<up, reply, fileVars, serverVars, lost>>

Receive(r) ==
  LET p == ProcOf[r] IN
    /\ pc[r] = "answered"
    /\ IF reply[r] = None THEN Unlock(r, "refused") /\ UNCHANGED creds
       ELSE /\ creds' = [creds EXCEPT ![p] = Merge(@, reply[r])]
            /\ pc' = [pc EXCEPT ![r] = "saving"] /\ UNCHANGED mu
    /\ UNCHANGED <<up, reply, fileVars, serverVars, lost>>

-----------------------------------------------------------------------------
(* saveLocked: os.WriteFile truncates the file, then writes it.            *)

Truncate(r) ==
  /\ pc[r] = "saving"
  /\ file' = Torn
  /\ pc' = [pc EXCEPT ![r] = "writing"]
  /\ UNCHANGED <<up, creds, mu, reply, saved, unsaved, serverVars, lost>>

\* A write over what another process has written since the truncation may
\* leave a mixture.
Write(r) ==
  LET p == ProcOf[r] IN
    /\ pc[r] = "writing"
    /\ \/ /\ file' = creds[p]
          /\ saved' = IF creds[p].refresh > saved THEN creds[p].refresh
                      ELSE saved
       \/ file # Torn /\ file' = Torn /\ UNCHANGED saved
    /\ unsaved' = unsaved \ {p}
    /\ Unlock(r, "token")
    /\ UNCHANGED <<up, creds, reply, serverVars, lost>>

\* The file cannot be opened or the disk is full.  The tokens stay in memory,
\* and the next request is given them without another save.
SaveFails(r) ==
  /\ "save" \in Faults
  /\ pc[r] \in {"saving", "writing"}
  /\ unsaved' = unsaved \cup {ProcOf[r]}
  /\ Unlock(r, "failed")
  /\ UNCHANGED <<up, creds, reply, file, saved, serverVars, lost>>

-----------------------------------------------------------------------------
Expire(n) ==
  /\ n \in fresh
  /\ fresh' = fresh \ {n}
  /\ UNCHANGED <<up, creds, mu, pc, reply, fileVars, issued, live, rotates,
                 rotator, lost>>

\* A process ends, between any two of its steps.
Crash(p) ==
  LET mine == {r \in Requests : ProcOf[r] = p}
      holdsNew(r) == \/ pc[r] = "answered" /\ reply[r] # None
                     \/ pc[r] \in {"saving", "writing"}
  IN
    /\ "crash" \in Faults /\ p \in up
    /\ up' = up \ {p}
    /\ lost' = (lost \/ p \in unsaved \/ \E r \in mine : holdsNew(r))
    /\ mu' = [mu EXCEPT ![p] = None]
    /\ pc' = [r \in Requests |->
                IF r \in mine /\ pc[r] \in Holding \cup {"waiting"}
                THEN "gone" ELSE pc[r]]
    /\ UNCHANGED <<creds, reply, fileVars, serverVars>>

Step(r) ==
  \/ Lock(r) \/ ServerRefreshes(r) \/ RefreshFails(r) \/ Receive(r)
  \/ Truncate(r) \/ Write(r) \/ SaveFails(r)

Next ==
  \/ \E r \in Requests : Call(r) \/ Step(r)
  \/ \E p \in Procs : LoadStore(p) \/ Crash(p)
  \/ \E n \in fresh : Expire(n)

Spec == Init /\ [][Next]_vars

-----------------------------------------------------------------------------
Tokens == 0..Cardinality(Requests)
Credentials == [access : Tokens, refresh : Tokens]
Replies == [access : Tokens, refresh : Tokens \cup {None}]

\* The states of the requests and of what they hold: every token in memory, in
\* the file and under way is one that the server has issued.
TypeOK ==
  /\ up \subseteq Procs /\ unsaved \subseteq Procs
  /\ creds \in [Procs -> Credentials]
  /\ pc \in [Requests -> {"idle", "waiting"} \cup Holding \cup Ended]
  /\ mu \in [Procs -> Requests \cup {None}]
  /\ reply \in [Requests -> {None} \cup Replies]
  /\ file = Torn \/ file \in Credentials
  /\ {issued, live, saved} \subseteq Tokens /\ fresh \subseteq Tokens
  /\ rotator \in Procs \cup {None} /\ {rotates, lost} \subseteq BOOLEAN

\* Unless tokens were lost on their way, the server refuses a process only when
\* another process has used the login since: requests of one process never
\* spend the same refresh token twice (claudecode/oauth.go:285-308,
\* codex/local.go:127-156).
OnlyOthersInvalidate ==
  \A r \in Requests : pc[r] = "answered" /\ reply[r] = None =>
    lost \/ rotator \in Procs \ {ProcOf[r]}

\* The live refresh token stays within reach, unless it was lost between the
\* server and the file: a running process has it or the file has.  Where the
\* tokens rotate, the file is never written by two processes at once, since
\* only the one with the live token has something to save; where they do not,
\* two saves may mix and leave a file that no process can start from.
LoginSurvives ==
  \/ lost \/ ~rotates
  \/ file # Torn /\ file.refresh = live
  \/ \E p \in up : creds[p].refresh = live
  \/ \E r \in Requests : pc[r] = "answered" /\ reply[r] # None
                           /\ reply[r].refresh = live

\* Whatever process saves, a file that can be read holds the latest tokens ever
\* saved: a process that was overtaken does not write its old tokens over the
\* new ones (claudecode/oauth.go:294-306).
FileNeverRegresses == file # Torn => file.refresh = saved
=============================================================================

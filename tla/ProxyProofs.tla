---------------------------- MODULE ProxyProofs ----------------------------
(***************************************************************************)
(* Theorems about the proxy: its credential stores, for every number of    *)
(* processes and requests, with every fault; and the translation of        *)
(* requests, for every conversation and all options.  Those about what it  *)
(* answers are in ServerProofs.                                            *)
(***************************************************************************)
EXTENDS TokenStore, RequestCodec, FiniteSetTheorems, TLAPS

\* The folds of RequestCodec: of turns, and of Anthropic's messages.
TurnFold == INSTANCE Folding WITH Op <- AddTurn
MessageFold == INSTANCE Folding WITH Op <- AppendMessage

-----------------------------------------------------------------------------
(***************************************************************************)
(* The credential stores (TokenStore).                                     *)
(***************************************************************************)

\* The server has issued at most one token for each request that is past it.
Spent == {r \in Requests : pc[r] \notin {"idle", "waiting", "refreshing"}}
CountInv == issued <= Cardinality(Spent)

\* A store's lock is held by the request that refreshes, in a running process.
LockInv ==
  /\ \A r \in Requests : pc[r] \in Holding <=> mu[ProcOf[r]] = r
  /\ \A r \in Requests :
       pc[r] \in Holding \cup {"waiting"} => ProcOf[r] \in up

\* A request that holds tokens which may not be in the file.
HoldsNew(r) ==
  \/ pc[r] = "answered" /\ reply[r] # None
  \/ pc[r] \in {"saving", "writing"}

\* Before the server first rotates a refresh token there is only the login's.
PlainInv ==
  ~rotates \/ rotator = None =>
    /\ live = 0 /\ saved = 0 /\ rotator = None
    /\ \A p \in Procs : creds[p].refresh = 0
    /\ \A r \in Requests : HoldsNew(r) =>
         ~rotates /\ (pc[r] = "answered" => reply[r].refresh = None)

\* Nobody has a later refresh token than the live one, and who has the live
\* one got it from the server or from the file.
LiveInv ==
  rotates =>
    /\ live = issued /\ saved <= live
    /\ \A p \in Procs :
         /\ creds[p].refresh <= live
         /\ creds[p].refresh = live => saved = live \/ rotator = p

\* Where tokens rotate, only the last process to have refreshed has something
\* to save, and nobody but its request has that.
HeldInv ==
  rotates => \A r \in Requests :
    /\ HoldsNew(r) => rotator = ProcOf[r] /\ saved < live
    /\ pc[r] = "answered" /\ reply[r] # None =>
         /\ reply[r].refresh = live
         /\ \A p \in Procs : creds[p].refresh # live
    /\ pc[r] \in {"saving", "writing"} => creds[ProcOf[r]].refresh = live
    /\ pc[r] = "writing" => file = Torn

\* Unless tokens were lost, a process that nobody has overtaken has the live
\* refresh token, and the file has it or will be given it.
OwnInv ==
  ~lost =>
    /\ unsaved \subseteq up
    /\ rotates /\ file = Torn => saved < live
    /\ \A p \in up : rotator \in {p, None} =>
         \/ creds[p].refresh = live
         \/ \E r \in Requests :
              ProcOf[r] = p /\ pc[r] = "answered" /\ reply[r] # None
    /\ \A p \in Procs : rotator = p =>
         \/ saved = live
         \/ p \in unsaved
         \/ \E r \in Requests : ProcOf[r] = p /\ HoldsNew(r)

LoginInv ==
  /\ PlainInv /\ LiveInv /\ HeldInv /\ OwnInv
  /\ FileNeverRegresses /\ OnlyOthersInvalidate

IInv == TypeOK /\ CountInv /\ LockInv /\ LoginInv

-----------------------------------------------------------------------------
(* What the steps do.                                                      *)

core == <<up, creds, reply, file, saved, unsaved, issued, live, rotates,
          rotator, lost>>

\* The states in which a request may hold tokens.
Late == {"answered", "saving", "writing"}

\* The types, one by one.
LEMMA Types ==
  ASSUME TypeOK, TokenAssumption
  PROVE  /\ issued \in Nat /\ live \in Nat /\ saved \in Nat
         /\ \A p \in Procs : creds[p] \in Credentials
                               /\ creds[p].refresh \in Nat /\ creds[p] # None
         /\ \A r \in Requests : ProcOf[r] \in Procs /\ r # None
         /\ \A r \in Requests : reply[r] # None =>
              /\ reply[r] \in Replies
              /\ reply[r].refresh \in Nat \cup {None}
         /\ file # Torn => file \in Credentials /\ file.refresh \in Nat
         /\ None \notin Procs /\ None \notin Nat
         /\ Tokens \subseteq Nat
<1>1. Tokens \subseteq Nat
  BY DEF Tokens
<1>2. ASSUME NEW c \in Credentials PROVE c.refresh \in Nat /\ c # None
  BY <1>1, <1>2, TokenAssumption DEF Credentials, TokenAssumption
<1>3. ASSUME NEW r \in Requests, reply[r] # None
      PROVE  reply[r] \in Replies /\ reply[r].refresh \in Nat \cup {None}
  BY <1>1, <1>3 DEF TypeOK, Replies
<1>4. QED
  BY <1>1, <1>2, <1>3 DEF TypeOK, TokenAssumption, Torn

\* Coming to the store, taking its lock, and the end of an access token.
LEMMA QuietEffect ==
  ASSUME TypeOK, TokenAssumption,
         \/ \E r \in Requests : Call(r) \/ Lock(r)
         \/ \E n \in fresh : Expire(n)
  PROVE  /\ UNCHANGED core
         /\ \A r \in Requests :
              pc'[r] = pc[r] \/ (pc[r] \notin Late /\ pc'[r] \notin Late)
<1>1. UNCHANGED core
  BY DEF Call, Lock, Expire, core, fileVars, serverVars
<1>2. ASSUME NEW r \in Requests, Call(r) \/ Lock(r), NEW q \in Requests
      PROVE  pc'[q] = pc[q] \/ (pc[q] \notin Late /\ pc'[q] \notin Late)
  <2>1. \/ pc' = [pc EXCEPT ![r] = "waiting"] /\ pc[r] = "idle"
        \/ pc' = [pc EXCEPT ![r] = "token"] /\ pc[r] = "waiting"
        \/ pc' = [pc EXCEPT ![r] = "refreshing"] /\ pc[r] = "waiting"
    BY <1>2 DEF Call, Lock
  <2>2. QED
    BY <2>1 DEF Late, TypeOK
<1>3. ASSUME NEW n \in fresh, Expire(n) PROVE pc' = pc
  BY <1>3 DEF Expire
<1>4. QED
  BY <1>1, <1>2, <1>3

\* The server's answer.
LEMMA ServerEffect ==
  ASSUME TypeOK, TokenAssumption, NEW r \in Requests, ServerRefreshes(r)
  PROVE  /\ UNCHANGED <<up, creds, mu, file, saved, unsaved, rotates, lost>>
         /\ pc[r] = "refreshing" /\ pc'[r] = "answered"
         /\ \A q \in Requests \ {r} : pc'[q] = pc[q] /\ reply'[q] = reply[q]
         /\ \/ /\ creds[ProcOf[r]].refresh # live /\ reply'[r] = None
               /\ UNCHANGED <<issued, live, rotator>>
            \/ /\ creds[ProcOf[r]].refresh = live /\ issued' = issued + 1
               /\ rotates /\ live' = issued + 1 /\ rotator' = ProcOf[r]
               /\ reply'[r] # None /\ reply'[r].refresh = issued + 1
            \/ /\ creds[ProcOf[r]].refresh = live /\ issued' = issued + 1
               /\ ~rotates /\ UNCHANGED <<live, rotator>>
               /\ reply'[r] # None /\ reply'[r].refresh = None
<1>1. /\ UNCHANGED <<up, creds, mu, file, saved, unsaved, rotates, lost>>
      /\ pc[r] = "refreshing" /\ pc' = [pc EXCEPT ![r] = "answered"]
  BY DEF ServerRefreshes, fileVars, serverVars
<1>2. ASSUME NEW rec, NEW ref, rec = [access |-> issued + 1, refresh |-> ref],
             ref \in {issued + 1, None}
      PROVE  rec # None /\ rec.refresh = ref
  BY <1>2, Types, TokenAssumption DEF TokenAssumption
<1>3. CASE creds[ProcOf[r]].refresh # live
  <2>1. /\ reply' = [reply EXCEPT ![r] = None]
        /\ UNCHANGED <<issued, live, rotator>>
    BY <1>3 DEF ServerRefreshes, serverVars
  <2>2. QED
    BY <1>1, <1>3, <2>1 DEF TypeOK
<1>4. CASE creds[ProcOf[r]].refresh = live
  <2> DEFINE n == issued + 1
  <2>1. /\ issued' = n
        /\ \/ /\ rotates /\ live' = n /\ rotator' = ProcOf[r]
              /\ reply' = [reply EXCEPT ![r] = [access |-> n, refresh |-> n]]
           \/ /\ ~rotates /\ UNCHANGED <<live, rotator>>
              /\ reply' = [reply EXCEPT
                             ![r] = [access |-> n, refresh |-> None]]
    BY <1>4 DEF ServerRefreshes
  <2>2. QED
    BY <1>1, <1>2, <1>4, <2>1 DEF TypeOK
<1>5. QED
  BY <1>3, <1>4

\* The answer does not come, or is received: a refusal changes nothing.
LEMMA RefreshFailsEffect ==
  ASSUME TypeOK, TokenAssumption, NEW r \in Requests, RefreshFails(r)
  PROVE  /\ UNCHANGED <<up, creds, reply, file, saved, unsaved, issued, live,
                        rotates, rotator>>
         /\ pc[r] \in {"refreshing", "answered"} /\ pc'[r] = "failed"
         /\ \A q \in Requests \ {r} : pc'[q] = pc[q]
         /\ lost => lost'
         /\ HoldsNew(r) => lost'
BY DEF RefreshFails, Unlock, TypeOK, HoldsNew, fileVars, serverVars

\* What a request takes over of the server's answer.
LEMMA ReceiveEffect ==
  ASSUME TypeOK, TokenAssumption, NEW r \in Requests, Receive(r)
  PROVE  /\ UNCHANGED <<up, reply, file, saved, unsaved, issued, live, rotates,
                        rotator, lost>>
         /\ pc[r] = "answered"
         /\ \A q \in Requests \ {r} : pc'[q] = pc[q]
         /\ \A p \in Procs \ {ProcOf[r]} : creds'[p] = creds[p]
         /\ \/ reply[r] = None /\ pc'[r] = "refused" /\ creds' = creds
            \/ /\ reply[r] # None /\ pc'[r] = "saving"
               /\ creds'[ProcOf[r]].refresh =
                    IF reply[r].refresh = None THEN creds[ProcOf[r]].refresh
                    ELSE reply[r].refresh
<1>1. /\ UNCHANGED <<up, reply, file, saved, unsaved, issued, live, rotates,
                     rotator, lost>>
      /\ pc[r] = "answered"
  BY DEF Receive, fileVars, serverVars
<1>2. CASE reply[r] = None
  BY <1>1, <1>2 DEF Receive, Unlock, TypeOK
<1>3. CASE reply[r] # None
  <2> DEFINE p == ProcOf[r]
  <2>1. /\ creds' = [creds EXCEPT ![p] = Merge(creds[p], reply[r])]
        /\ pc' = [pc EXCEPT ![r] = "saving"]
    BY <1>3 DEF Receive
  <2>2. p \in Procs /\ reply[r] \in Replies
    BY <1>3, Types
  <2>3. Merge(creds[p], reply[r]).refresh =
          IF reply[r].refresh = None THEN creds[p].refresh
          ELSE reply[r].refresh
    BY <2>2 DEF Merge, Replies
  <2>4. QED
    BY <1>1, <1>3, <2>1, <2>2, <2>3 DEF TypeOK
<1>4. QED
  BY <1>2, <1>3

\* Saving.
LEMMA TruncateEffect ==
  ASSUME TypeOK, TokenAssumption, NEW r \in Requests, Truncate(r)
  PROVE  /\ UNCHANGED <<up, creds, reply, saved, unsaved, issued, live,
                        rotates, rotator, lost>>
         /\ file' = Torn /\ pc[r] = "saving" /\ pc'[r] = "writing"
         /\ \A q \in Requests \ {r} : pc'[q] = pc[q]
BY DEF Truncate, TypeOK, serverVars

\* A write puts the tokens of the store in the file, or leaves a mixture of
\* them with what another process has written since.
LEMMA WriteEffect ==
  ASSUME TypeOK, TokenAssumption, NEW r \in Requests, Write(r)
  PROVE  /\ UNCHANGED <<up, creds, reply, issued, live, rotates, rotator, lost>>
         /\ pc[r] = "writing" /\ pc'[r] = "token"
         /\ \A q \in Requests \ {r} : pc'[q] = pc[q]
         /\ unsaved' = unsaved \ {ProcOf[r]}
         /\ \/ /\ file' = creds[ProcOf[r]]
               /\ saved' = IF creds[ProcOf[r]].refresh > saved
                           THEN creds[ProcOf[r]].refresh ELSE saved
            \/ file # Torn /\ file' = Torn /\ saved' = saved
BY DEF Write, Unlock, TypeOK, serverVars

\* A save that fails leaves the tokens in memory only.
LEMMA SaveFailsEffect ==
  ASSUME TypeOK, TokenAssumption, NEW r \in Requests, SaveFails(r)
  PROVE  /\ UNCHANGED <<up, creds, reply, file, saved, issued, live, rotates,
                        rotator, lost>>
         /\ pc[r] \in {"saving", "writing"} /\ pc'[r] = "failed"
         /\ \A q \in Requests \ {r} : pc'[q] = pc[q]
         /\ unsaved' = unsaved \cup {ProcOf[r]}
BY DEF SaveFails, Unlock, TypeOK, serverVars

\* A process starts, and ends.
LEMMA LoadEffect ==
  ASSUME TypeOK, TokenAssumption, NEW p \in Procs, LoadStore(p)
  PROVE  /\ UNCHANGED <<pc, mu, reply, file, saved, issued, live, rotates,
                        rotator, lost>>
         /\ p \notin up /\ file # Torn /\ up' = up \cup {p}
         /\ creds'[p] = file
         /\ \A q \in Procs \ {p} : creds'[q] = creds[q]
         /\ unsaved' = unsaved \ {p}
BY DEF LoadStore, TypeOK, serverVars

\* A crash ends the requests of its process and loses what was not saved.
LEMMA CrashEffect ==
  ASSUME TypeOK, TokenAssumption, NEW p \in Procs, Crash(p)
  PROVE  /\ UNCHANGED <<creds, reply, file, saved, unsaved, issued, live,
                        rotates, rotator>>
         /\ up' = up \ {p}
         /\ \A r \in Requests :
              \/ /\ ProcOf[r] = p /\ pc[r] \in Holding \cup {"waiting"}
                 /\ pc'[r] = "gone"
              \/ /\ ProcOf[r] # p \/ pc[r] \notin Holding \cup {"waiting"}
                 /\ pc'[r] = pc[r]
         /\ lost => lost'
         /\ p \in unsaved => lost'
         /\ \A r \in Requests : ProcOf[r] = p /\ HoldsNew(r) => lost'
BY DEF Crash, TypeOK, HoldsNew, fileVars, serverVars

\* These are all.
LEMMA NextKinds ==
  ASSUME Next
  PROVE  \/ \E r \in Requests : Call(r) \/ Lock(r)
         \/ \E n \in fresh : Expire(n)
         \/ \E r \in Requests :
              \/ ServerRefreshes(r) \/ RefreshFails(r) \/ Receive(r)
              \/ Truncate(r) \/ Write(r) \/ SaveFails(r)
         \/ \E p \in Procs : LoadStore(p) \/ Crash(p)
BY DEF Next, Step

-----------------------------------------------------------------------------
(* Types, the count of tokens, and the lock.                               *)

\* Who is past the server stays so.
LEMMA SpentStep ==
  ASSUME TypeOK, TokenAssumption, Next
  PROVE  /\ IsFiniteSet(Spent) /\ IsFiniteSet(Spent')
         /\ Cardinality(Spent) \in Nat /\ Cardinality(Spent') \in Nat
         /\ Cardinality(Spent) <= Cardinality(Spent')
         /\ Cardinality(Spent') <= Cardinality(Requests)
         /\ \A r \in Requests : ServerRefreshes(r) =>
              Cardinality(Spent) + 1 <= Cardinality(Spent')
<1>1. Spent \subseteq Requests /\ Spent' \subseteq Requests
      /\ IsFiniteSet(Requests)
  BY TokenAssumption DEF Spent, TokenAssumption
<1>2. Spent \subseteq Spent'
  <2>1. SUFFICES ASSUME NEW r \in Requests,
                        pc[r] \notin {"idle", "waiting", "refreshing"}
                 PROVE  pc'[r] \notin {"idle", "waiting", "refreshing"}
    BY DEF Spent
  <2>2. ASSUME NEW q \in Requests, Call(q) \/ Lock(q)
        PROVE  pc'[r] \notin {"idle", "waiting", "refreshing"}
    BY <2>1, <2>2 DEF Call, Lock, TypeOK
  <2>3. ASSUME NEW n \in fresh, Expire(n) PROVE pc' = pc
    BY <2>3 DEF Expire
  <2>4. ASSUME NEW q \in Requests,
               \/ ServerRefreshes(q) \/ RefreshFails(q) \/ Receive(q)
               \/ Truncate(q) \/ Write(q) \/ SaveFails(q)
        PROVE  pc'[r] \notin {"idle", "waiting", "refreshing"}
    BY <2>1, <2>4, ServerEffect, RefreshFailsEffect, ReceiveEffect,
       TruncateEffect, WriteEffect, SaveFailsEffect
  <2>5. ASSUME NEW p \in Procs, LoadStore(p) \/ Crash(p)
        PROVE  pc'[r] \notin {"idle", "waiting", "refreshing"}
    BY <2>1, <2>5, LoadEffect, CrashEffect
  <2>6. QED
    BY <2>1, <2>2, <2>3, <2>4, <2>5, NextKinds
<1>3. IsFiniteSet(Spent) /\ IsFiniteSet(Spent')
  BY <1>1, FS_Subset
<1>4. /\ Cardinality(Spent) \in Nat /\ Cardinality(Spent') \in Nat
      /\ Cardinality(Spent) <= Cardinality(Spent')
      /\ Cardinality(Spent') <= Cardinality(Requests)
  BY <1>1, <1>2, <1>3, FS_Subset, FS_CardinalityType
<1>5. ASSUME NEW r \in Requests, ServerRefreshes(r)
      PROVE  Cardinality(Spent) + 1 <= Cardinality(Spent')
  <2>1. r \notin Spent /\ r \in Spent'
    BY <1>5, ServerEffect DEF Spent
  <2>2. /\ Cardinality(Spent \cup {r}) = Cardinality(Spent) + 1
        /\ IsFiniteSet(Spent \cup {r})
    BY <1>3, <2>1, FS_AddElement
  <2>3. Cardinality(Spent \cup {r}) <= Cardinality(Spent')
    BY <1>2, <1>3, <2>1, FS_Subset
  <2>4. QED
    BY <2>2, <2>3
<1>6. QED
  BY <1>3, <1>4, <1>5

\* The server has not issued more than the bound.
LEMMA CountStep ==
  ASSUME TypeOK, TokenAssumption, CountInv, Next
  PROVE  CountInv' /\ issued' \in Tokens
<1>1. issued \in Nat
  BY Types
<1>2. issued' = issued \/ \E r \in Requests : ServerRefreshes(r)
  <2>1. ASSUME NEW q \in Requests,
               \/ RefreshFails(q) \/ Receive(q)
               \/ Truncate(q) \/ Write(q) \/ SaveFails(q)
        PROVE  issued' = issued
    BY <2>1, RefreshFailsEffect, ReceiveEffect, TruncateEffect, WriteEffect,
       SaveFailsEffect
  <2>2. ASSUME NEW p \in Procs, LoadStore(p) \/ Crash(p)
        PROVE  issued' = issued
    BY <2>2, LoadEffect, CrashEffect
  <2>3. QED
    BY <2>1, <2>2, NextKinds, QuietEffect DEF core
<1>3. CASE issued' = issued
  BY <1>1, <1>3, SpentStep DEF CountInv, Tokens, TypeOK
<1>4. ASSUME NEW r \in Requests, ServerRefreshes(r)
      PROVE  CountInv' /\ issued' \in Tokens
  <2>1. issued' = issued \/ issued' = issued + 1
    BY <1>4, ServerEffect
  <2>2. /\ Cardinality(Spent) \in Nat /\ Cardinality(Spent') \in Nat
        /\ Cardinality(Spent) + 1 <= Cardinality(Spent')
        /\ Cardinality(Spent') <= Cardinality(Requests)
    BY <1>4, SpentStep
  <2>3. /\ issued' \in Nat /\ issued' <= Cardinality(Spent')
        /\ Cardinality(Requests) \in Nat
    BY <1>1, <2>1, <2>2, FS_CardinalityType, TokenAssumption
       DEF CountInv, TokenAssumption
  <2>4. QED
    BY <2>2, <2>3 DEF CountInv, Tokens
<1>5. QED
  BY <1>2, <1>3, <1>4

\* Every step keeps the types.
LEMMA TypeStep ==
  ASSUME TypeOK, TokenAssumption, CountInv, Next
  PROVE  TypeOK'
<1>1. issued' \in Tokens
  BY CountStep
<1>2. ASSUME NEW r \in Requests PROVE ProcOf[r] \in Procs
  BY Types
<1>3. ASSUME NEW r \in Requests, Call(r) \/ Lock(r) PROVE TypeOK'
  <2>1. UNCHANGED core /\ fresh' = fresh
    BY <1>3, QuietEffect DEF Call, Lock, serverVars
  <2>2. mu' \in [Procs -> Requests \cup {None}]
    BY <1>2, <1>3 DEF Call, Lock, TypeOK
  <2>3. pc' \in [Requests -> {"idle", "waiting"} \cup Holding \cup Ended]
    BY <1>3 DEF Call, Lock, TypeOK, Holding, Ended
  <2>4. QED
    BY <2>1, <2>2, <2>3 DEF core, TypeOK
<1>4. ASSUME NEW n \in fresh, Expire(n) PROVE TypeOK'
  <2>1. UNCHANGED core /\ fresh' \subseteq fresh /\ UNCHANGED <<pc, mu>>
    BY <1>4, QuietEffect DEF Expire
  <2>2. QED
    BY <2>1 DEF core, TypeOK
<1>5. ASSUME NEW r \in Requests, ServerRefreshes(r) PROVE TypeOK'
  <2>1. pc' \in [Requests -> {"idle", "waiting"} \cup Holding \cup Ended]
    BY <1>5 DEF ServerRefreshes, TypeOK, Holding
  <2>2. /\ UNCHANGED <<up, creds, mu, file, saved, unsaved, rotates, lost>>
        /\ live' \in Tokens /\ rotator' \in Procs \cup {None}
    BY <1>1, <1>2, <1>5, ServerEffect DEF TypeOK
  <2>3. fresh' \subseteq Tokens
    BY <1>1, <1>5 DEF ServerRefreshes, TypeOK, serverVars
  <2>4. reply' \in [Requests -> {None} \cup Replies]
    <3>1. CASE creds[ProcOf[r]].refresh # live
      BY <1>5, <3>1 DEF ServerRefreshes, TypeOK
    <3>2. CASE creds[ProcOf[r]].refresh = live
      <4>1. \/ reply' = [reply EXCEPT ![r] = [access |-> issued',
                                              refresh |-> issued']]
            \/ reply' = [reply EXCEPT ![r] = [access |-> issued',
                                              refresh |-> None]]
        BY <1>5, <3>2 DEF ServerRefreshes
      <4>2. /\ [access |-> issued', refresh |-> issued'] \in Replies
            /\ [access |-> issued', refresh |-> None] \in Replies
        BY <1>1 DEF Replies
      <4>3. QED
        BY <4>1, <4>2 DEF TypeOK
    <3>3. QED
      BY <3>1, <3>2
  <2>5. QED
    BY <1>1, <2>1, <2>2, <2>3, <2>4 DEF TypeOK
<1>6. ASSUME NEW r \in Requests, RefreshFails(r) PROVE TypeOK'
  <2>1. /\ UNCHANGED <<up, creds, reply, file, saved, unsaved, issued, live,
                       rotates, rotator, fresh>>
        /\ lost' \in BOOLEAN
    BY <1>6 DEF RefreshFails, fileVars, serverVars
  <2>2. /\ pc' \in [Requests -> {"idle", "waiting"} \cup Holding \cup Ended]
        /\ mu' \in [Procs -> Requests \cup {None}]
    BY <1>6 DEF RefreshFails, Unlock, TypeOK, Ended
  <2>3. QED
    BY <2>1, <2>2 DEF TypeOK
<1>7. ASSUME NEW r \in Requests, Receive(r) PROVE TypeOK'
  <2>1. UNCHANGED <<up, reply, file, saved, unsaved, issued, live, rotates,
                    rotator, lost, fresh>>
    BY <1>7 DEF Receive, fileVars, serverVars
  <2>2. /\ pc' \in [Requests -> {"idle", "waiting"} \cup Holding \cup Ended]
        /\ mu' \in [Procs -> Requests \cup {None}]
    BY <1>7 DEF Receive, Unlock, TypeOK, Ended, Holding
  <2>3. creds' \in [Procs -> Credentials]
    <3>1. CASE reply[r] = None
      BY <1>7, <3>1 DEF Receive, TypeOK
    <3>2. CASE reply[r] # None
      <4>1. creds' = [creds EXCEPT
                        ![ProcOf[r]] = Merge(creds[ProcOf[r]], reply[r])]
        BY <1>7, <3>2 DEF Receive
      <4>2. reply[r] \in Replies /\ creds[ProcOf[r]] \in Credentials
        BY <1>2, <3>2, Types
      <4>3. None \notin Tokens
        BY Types
      <4>4. Merge(creds[ProcOf[r]], reply[r]) \in Credentials
        BY <4>2, <4>3 DEF Merge, Replies, Credentials
      <4>5. QED
        BY <4>1, <4>4 DEF TypeOK
    <3>3. QED
      BY <3>1, <3>2
  <2>4. QED
    BY <2>1, <2>2, <2>3 DEF TypeOK
<1>8. ASSUME NEW r \in Requests, Truncate(r) \/ Write(r) \/ SaveFails(r)
      PROVE  TypeOK'
  <2>1. UNCHANGED <<up, creds, reply, issued, live, rotates, rotator, lost,
                    fresh>>
    BY <1>8 DEF Truncate, Write, SaveFails, serverVars
  <2>2. /\ pc' \in [Requests -> {"idle", "waiting"} \cup Holding \cup Ended]
        /\ mu' \in [Procs -> Requests \cup {None}]
    BY <1>8 DEF Truncate, Write, SaveFails, Unlock, TypeOK, Ended, Holding
  <2>3. (file' = Torn \/ file' \in Credentials) /\ saved' \in Tokens
    BY <1>2, <1>8, Types DEF Truncate, Write, SaveFails, TypeOK, Credentials
  <2>4. unsaved' \subseteq Procs
    BY <1>2, <1>8 DEF Truncate, Write, SaveFails, TypeOK
  <2>5. QED
    BY <2>1, <2>2, <2>3, <2>4 DEF TypeOK
<1>9. ASSUME NEW p \in Procs, LoadStore(p) \/ Crash(p) PROVE TypeOK'
  <2>1. /\ UNCHANGED <<reply, file, saved, issued, live, rotates, rotator,
                       fresh>>
        /\ up' \subseteq Procs /\ unsaved' \subseteq Procs
    BY <1>9 DEF LoadStore, Crash, TypeOK, fileVars, serverVars
  <2>2. /\ pc' \in [Requests -> {"idle", "waiting"} \cup Holding \cup Ended]
        /\ mu' \in [Procs -> Requests \cup {None}]
        /\ creds' \in [Procs -> Credentials]
    BY <1>9 DEF LoadStore, Crash, TypeOK, Ended
  <2>3. lost' \in BOOLEAN
    BY <1>9 DEF LoadStore, Crash, TypeOK
  <2>4. QED
    BY <2>1, <2>2, <2>3 DEF TypeOK
<1>10. QED
  BY <1>3, <1>4, <1>5, <1>6, <1>7, <1>8, <1>9, NextKinds

\* The lock is free or held by one request.
LEMMA LockStep ==
  ASSUME TypeOK, TokenAssumption, LockInv, Next
  PROVE  LockInv'
<1>1. ASSUME NEW r \in Requests PROVE ProcOf[r] \in Procs /\ r # None
  BY Types
<1>2. ASSUME NEW r \in Requests, Call(r) PROVE LockInv'
  BY <1>1, <1>2 DEF Call, LockInv, TypeOK, Holding
<1>3. ASSUME NEW r \in Requests, Lock(r) PROVE LockInv'
  <2>1. UNCHANGED up /\ pc[r] = "waiting" /\ mu[ProcOf[r]] = None
    BY <1>3 DEF Lock
  <2>2. \/ pc' = [pc EXCEPT ![r] = "token"] /\ mu' = mu
        \/ /\ pc' = [pc EXCEPT ![r] = "refreshing"]
           /\ mu' = [mu EXCEPT ![ProcOf[r]] = r]
    BY <1>3 DEF Lock
  <2>3. QED
    BY <1>1, <2>1, <2>2 DEF LockInv, TypeOK, Holding
<1>4. ASSUME NEW n \in fresh, Expire(n) PROVE LockInv'
  BY <1>4 DEF Expire, LockInv
<1>5. ASSUME NEW r \in Requests, pc[r] \in Holding, up' = up, mu' = mu,
             \E next \in Holding : pc' = [pc EXCEPT ![r] = next]
      PROVE  LockInv'
  BY <1>1, <1>5 DEF LockInv, TypeOK
<1>6. ASSUME NEW r \in Requests, pc[r] \in Holding, up' = up,
             \E next \in Ended : Unlock(r, next)
      PROVE  LockInv'
  <2>1. /\ mu' = [mu EXCEPT ![ProcOf[r]] = None]
        /\ \E next \in Ended : pc' = [pc EXCEPT ![r] = next]
    BY <1>6 DEF Unlock
  <2>2. Ended \cap (Holding \cup {"waiting"}) = {}
    BY DEF Ended, Holding
  <2>3. ASSUME NEW q \in Requests
        PROVE  pc'[q] \in Holding <=> mu'[ProcOf[q]] = q
    <3>1. CASE q = r
      BY <1>1, <2>1, <2>2, <3>1 DEF TypeOK
    <3>2. CASE q # r /\ ProcOf[q] = ProcOf[r]
      BY <1>1, <1>6, <2>1, <3>2 DEF TypeOK, LockInv
    <3>3. CASE q # r /\ ProcOf[q] # ProcOf[r]
      BY <1>1, <2>1, <3>3 DEF TypeOK, LockInv
    <3>4. QED
      BY <3>1, <3>2, <3>3
  <2>4. ASSUME NEW q \in Requests, pc'[q] \in Holding \cup {"waiting"}
        PROVE  ProcOf[q] \in up'
    BY <1>6, <2>1, <2>2, <2>4 DEF TypeOK, LockInv
  <2>5. QED
    BY <2>3, <2>4 DEF LockInv
<1>7. ASSUME NEW r \in Requests, ServerRefreshes(r) PROVE LockInv'
  BY <1>5, <1>7 DEF ServerRefreshes, Holding
<1>8. ASSUME NEW r \in Requests, RefreshFails(r) PROVE LockInv'
  BY <1>6, <1>8 DEF RefreshFails, Holding, Ended
<1>9. ASSUME NEW r \in Requests, Receive(r) PROVE LockInv'
  BY <1>5, <1>6, <1>9 DEF Receive, Holding, Ended
<1>10. ASSUME NEW r \in Requests, Truncate(r) PROVE LockInv'
  BY <1>5, <1>10 DEF Truncate, Holding
<1>11. ASSUME NEW r \in Requests, Write(r) \/ SaveFails(r) PROVE LockInv'
  BY <1>6, <1>11 DEF Write, SaveFails, Holding, Ended
<1>12. ASSUME NEW p \in Procs, LoadStore(p) PROVE LockInv'
  BY <1>12, LoadEffect DEF LockInv
<1>13. ASSUME NEW p \in Procs, Crash(p) PROVE LockInv'
  <2>1. mu' = [mu EXCEPT ![p] = None] /\ up' = up \ {p}
    BY <1>13 DEF Crash
  <2>2. "gone" \notin Holding \cup {"waiting"}
    BY DEF Holding
  <2>3. ASSUME NEW q \in Requests, ProcOf[q] = p
        PROVE  pc'[q] \notin Holding \cup {"waiting"} /\ mu'[ProcOf[q]] # q
    BY <1>1, <1>13, <2>1, <2>2, <2>3, CrashEffect DEF TypeOK
  <2>4. ASSUME NEW q \in Requests, ProcOf[q] # p
        PROVE  pc'[q] = pc[q] /\ mu'[ProcOf[q]] = mu[ProcOf[q]]
               /\ (ProcOf[q] \in up => ProcOf[q] \in up')
    BY <1>1, <1>13, <2>1, <2>4, CrashEffect DEF TypeOK
  <2>5. QED
    BY <2>3, <2>4 DEF LockInv
<1>14. QED
  BY <1>2, <1>3, <1>4, <1>7, <1>8, <1>9, <1>10, <1>11, <1>12, <1>13, NextKinds

-----------------------------------------------------------------------------
(* The tokens, action by action.                                           *)

\* One request of a process at a time is behind the lock.
LEMMA OneHolds ==
  ASSUME LockInv, NEW q \in Requests, NEW r \in Requests,
         ProcOf[q] = ProcOf[r], pc[q] \in Holding, pc[r] \in Holding
  PROVE  q = r
BY DEF LockInv

\* Who has new tokens is behind the lock of a running process.
LEMMA LateHolds ==
  ASSUME LockInv, NEW r \in Requests
  PROVE  /\ HoldsNew(r) => pc[r] \in Holding
         /\ pc[r] \in Holding => ProcOf[r] \in up
BY DEF LockInv, HoldsNew, Holding

\* Calling, locking and expiry do not touch the refresh tokens.
LEMMA QuietTokens ==
  ASSUME TypeOK, TokenAssumption, LoginInv,
         \/ \E r \in Requests : Call(r) \/ Lock(r)
         \/ \E n \in fresh : Expire(n)
  PROVE  LoginInv'
<1>1. /\ UNCHANGED core
      /\ \A r \in Requests :
           pc'[r] = pc[r] \/ (pc[r] \notin Late /\ pc'[r] \notin Late)
  BY QuietEffect
<1>2. \A r \in Requests : \A l \in Late : pc'[r] = l <=> pc[r] = l
  BY <1>1
<1>3. \A r \in Requests : HoldsNew(r)' <=> HoldsNew(r)
  BY <1>1, <1>2 DEF HoldsNew, core, Late
<1> USE <1>1, <1>2, <1>3 DEF core, Late, LoginInv
<1>4. PlainInv' /\ LiveInv' /\ FileNeverRegresses' /\ OnlyOthersInvalidate'
  BY DEF PlainInv, LiveInv, FileNeverRegresses, OnlyOthersInvalidate
<1>5. HeldInv'
  BY DEF HeldInv
<1>6. OwnInv'
  BY DEF OwnInv
<1>7. QED
  BY <1>4, <1>5, <1>6

\* The server rotates the live token for the one request that presents it.
LEMMA ServerTokens ==
  ASSUME TypeOK, TokenAssumption, LockInv, LoginInv,
         NEW r \in Requests, ServerRefreshes(r)
  PROVE  LoginInv'
<1> DEFINE p == ProcOf[r]
<1>1. /\ UNCHANGED <<up, creds, mu, file, saved, unsaved, rotates, lost>>
      /\ pc[r] = "refreshing" /\ pc'[r] = "answered"
      /\ \A q \in Requests \ {r} : pc'[q] = pc[q] /\ reply'[q] = reply[q]
      /\ p \in Procs /\ p # None /\ p \in up
  BY ServerEffect, Types, LateHolds DEF Holding
<1>2. \A q \in Requests \ {r} : HoldsNew(q)' <=> HoldsNew(q)
  BY <1>1 DEF HoldsNew
<1>3. \A q \in Requests \ {r} : HoldsNew(q) => ProcOf[q] # p
  BY <1>1, OneHolds, LateHolds DEF Holding
<1>4. ~HoldsNew(r)
  BY <1>1 DEF HoldsNew
<1>5. FileNeverRegresses'
  BY <1>1 DEF LoginInv, FileNeverRegresses
<1>6. CASE creds[p].refresh # live /\ reply'[r] = None
           /\ UNCHANGED <<issued, live, rotator>>
  <2>1. \A q \in Requests : HoldsNew(q)' <=> HoldsNew(q)
    BY <1>1, <1>2, <1>4, <1>6 DEF HoldsNew
  <2>2. PlainInv' /\ LiveInv' /\ HeldInv'
    BY <1>1, <1>6, <2>1 DEF LoginInv, PlainInv, LiveInv, HeldInv, HoldsNew
  <2>3. OwnInv'
    BY <1>1, <1>6, <2>1 DEF LoginInv, OwnInv
  <2>4. lost \/ rotator \in Procs \ {p}
    <3>1. ~\E q \in Requests :
             ProcOf[q] = p /\ pc[q] = "answered" /\ reply[q] # None
      BY <1>3, <1>4 DEF HoldsNew
    <3>2. lost \/ rotator \notin {p, None}
      BY <1>1, <1>6, <3>1 DEF LoginInv, OwnInv
    <3>3. QED
      BY <3>2 DEF TypeOK
  <2>5. OnlyOthersInvalidate'
    BY <1>1, <1>6, <2>4 DEF LoginInv, OnlyOthersInvalidate
  <2>6. QED
    BY <1>5, <2>2, <2>3, <2>5 DEF LoginInv
<1>7. CASE /\ creds[p].refresh = live /\ issued' = issued + 1 /\ rotates
           /\ live' = issued + 1 /\ rotator' = p
           /\ reply'[r] # None /\ reply'[r].refresh = issued + 1
  <2>1. /\ live = issued /\ issued \in Nat /\ saved \in Nat /\ saved <= live
        /\ live' = live + 1
        /\ \A q \in Procs : creds[q].refresh \in Nat /\ creds[q].refresh <= live
    BY <1>7, Types DEF LoginInv, LiveInv
  <2>2. ASSUME NEW q \in Requests \ {r} PROVE ~HoldsNew(q)
    <3>1. HoldsNew(q) => rotator = ProcOf[q] /\ saved < live
                         /\ (pc[q] # "answered" \/ creds[p].refresh # live)
      BY <1>1, <1>7 DEF LoginInv, HeldInv, HoldsNew
    <3>2. saved = live \/ rotator = p
      BY <1>1, <1>7 DEF LoginInv, LiveInv
    <3>3. QED
      BY <1>3, <2>1, <3>1, <3>2
  <2>3. PlainInv'
    BY <1>1, <1>7 DEF PlainInv
  <2>4. LiveInv'
    BY <1>1, <1>7, <2>1 DEF LiveInv
  <2>5. HeldInv'
    <3>1. \A q \in Procs : creds'[q].refresh # live'
      BY <1>1, <2>1
    <3>2. saved' < live'
      BY <1>1, <2>1
    <3>3. QED
      BY <1>1, <1>2, <1>7, <2>2, <3>1, <3>2 DEF HeldInv, HoldsNew
  <2>6. OwnInv'
    <3>1. saved' < live'
      BY <1>1, <2>1
    <3>2. HoldsNew(r)' /\ pc'[r] = "answered" /\ reply'[r] # None
      BY <1>1, <1>7 DEF HoldsNew
    <3>3. QED
      BY <1>1, <1>7, <3>1, <3>2 DEF LoginInv, OwnInv
  <2>7. OnlyOthersInvalidate'
    <3>1. ASSUME NEW q \in Requests, pc'[q] = "answered", reply'[q] = None
          PROVE  ProcOf[q] # p
      BY <1>1, <1>7, <3>1, OneHolds DEF Holding
    <3>2. QED
      BY <1>1, <1>7, <3>1 DEF OnlyOthersInvalidate
  <2>8. QED
    BY <1>5, <2>3, <2>4, <2>5, <2>6, <2>7 DEF LoginInv
<1>8. CASE /\ creds[p].refresh = live /\ ~rotates
           /\ UNCHANGED <<live, rotator>>
           /\ reply'[r] # None /\ reply'[r].refresh = None
  <2>1. PlainInv'
    BY <1>1, <1>2, <1>8 DEF LoginInv, PlainInv, HoldsNew
  <2>2. LiveInv' /\ HeldInv'
    BY <1>1, <1>8 DEF LiveInv, HeldInv
  <2>3. /\ rotator = None /\ saved = live
        /\ \A q \in Procs : creds[q].refresh = live
    BY <1>8 DEF LoginInv, PlainInv
  <2>4. OwnInv'
    BY <1>1, <1>8, <2>3 DEF LoginInv, OwnInv, TypeOK
  <2>5. OnlyOthersInvalidate'
    BY <1>1, <1>8 DEF LoginInv, OnlyOthersInvalidate
  <2>6. QED
    BY <1>5, <2>1, <2>2, <2>4, <2>5 DEF LoginInv
<1>9. QED
  BY <1>6, <1>7, <1>8, ServerEffect

\* A refresh whose answer is lost loses the token the server has made.
LEMMA RefreshFailsTokens ==
  ASSUME TypeOK, TokenAssumption, LockInv, LoginInv,
         NEW r \in Requests, RefreshFails(r)
  PROVE  LoginInv'
<1>1. /\ UNCHANGED <<up, creds, reply, file, saved, unsaved, issued, live,
                     rotates, rotator>>
      /\ pc[r] \in {"refreshing", "answered"} /\ pc'[r] = "failed"
      /\ \A q \in Requests \ {r} : pc'[q] = pc[q]
      /\ lost => lost'
      /\ HoldsNew(r) => lost'
  BY RefreshFailsEffect
<1>2. \A q \in Requests : HoldsNew(q)' => HoldsNew(q)
  BY <1>1 DEF HoldsNew
<1>3. ~lost' => \A q \in Requests : HoldsNew(q)' <=> HoldsNew(q)
  BY <1>1 DEF HoldsNew
<1>4. PlainInv' /\ LiveInv' /\ FileNeverRegresses' /\ OnlyOthersInvalidate'
  BY <1>1, <1>2 DEF LoginInv, PlainInv, LiveInv, FileNeverRegresses,
                    OnlyOthersInvalidate
<1>5. HeldInv'
  BY <1>1, <1>2 DEF LoginInv, HeldInv
<1>6. OwnInv'
  <2>1. SUFFICES ASSUME ~lost' PROVE OwnInv'
    BY DEF OwnInv
  <2>2. ~lost /\ \A q \in Requests :
          pc[q] = "answered" /\ reply[q] # None =>
            pc'[q] = "answered" /\ reply'[q] # None
    BY <1>1, <2>1 DEF HoldsNew
  <2>3. QED
    BY <1>1, <1>3, <2>1, <2>2 DEF LoginInv, OwnInv
<1>7. QED
  BY <1>4, <1>5, <1>6 DEF LoginInv

\* The store takes over the tokens of an answer, which are the live ones.
LEMMA ReceiveTokens ==
  ASSUME TypeOK, TokenAssumption, LockInv, LoginInv,
         NEW r \in Requests, Receive(r)
  PROVE  LoginInv'
<1> DEFINE p == ProcOf[r]
<1>1. /\ UNCHANGED <<up, reply, file, saved, unsaved, issued, live, rotates,
                     rotator, lost>>
      /\ pc[r] = "answered"
      /\ \A q \in Requests \ {r} : pc'[q] = pc[q]
      /\ \A q \in Procs \ {p} : creds'[q] = creds[q]
      /\ p \in Procs /\ p \in up
  BY ReceiveEffect, Types, LateHolds DEF Holding
<1>2. FileNeverRegresses' /\ OnlyOthersInvalidate'
  <2>1. pc'[r] # "answered"
    BY ReceiveEffect
  <2>2. QED
    BY <1>1, <2>1 DEF LoginInv, FileNeverRegresses, OnlyOthersInvalidate
<1>3. CASE reply[r] = None /\ pc'[r] = "refused" /\ creds' = creds
  <2>1. \A q \in Requests : HoldsNew(q)' <=> HoldsNew(q)
    BY <1>1, <1>3 DEF HoldsNew
  <2>2. PlainInv' /\ LiveInv'
    BY <1>1, <1>3, <2>1 DEF LoginInv, PlainInv, LiveInv
  <2>3. HeldInv'
    BY <1>1, <1>3, <2>1 DEF LoginInv, HeldInv
  <2>4. OwnInv'
    BY <1>1, <1>3, <2>1 DEF LoginInv, OwnInv
  <2>5. QED
    BY <1>2, <2>2, <2>3, <2>4 DEF LoginInv
<1>4. CASE /\ reply[r] # None /\ pc'[r] = "saving"
           /\ creds'[p].refresh = IF reply[r].refresh = None
                                  THEN creds[p].refresh ELSE reply[r].refresh
  <2>1. HoldsNew(r) /\ HoldsNew(r)'
        /\ \A q \in Requests : HoldsNew(q)' <=> HoldsNew(q)
    BY <1>1, <1>4 DEF HoldsNew
  <2>2. rotates => /\ creds'[p].refresh = live /\ rotator = p /\ saved < live
                   /\ live \in Nat
    BY <1>1, <1>4, <2>1, Types DEF LoginInv, HeldInv
  <2>3. ~rotates => creds'[p].refresh = creds[p].refresh
    BY <1>1, <1>4, <2>1 DEF LoginInv, PlainInv
  <2>4. PlainInv'
    BY <1>1, <1>4, <2>1, <2>2, <2>3, Types DEF LoginInv, PlainInv
  <2>5. LiveInv'
    <3>1. ASSUME rotates, NEW q \in Procs
          PROVE  /\ creds'[q].refresh <= live
                 /\ creds'[q].refresh = live => saved = live \/ rotator = q
      BY <1>1, <2>2, <3>1 DEF LoginInv, LiveInv
    <3>2. QED
      BY <1>1, <3>1 DEF LoginInv, LiveInv
  <2>6. HeldInv'
    <3>1. ASSUME rotates, NEW q \in Requests, q # r PROVE ~HoldsNew(q)
      <4>1. HoldsNew(q) => ProcOf[q] = p
        BY <2>2, <3>1 DEF LoginInv, HeldInv
      <4>2. QED
        BY <2>1, <3>1, <4>1, OneHolds, LateHolds
    <3>2. QED
      BY <1>1, <1>4, <2>1, <2>2, <3>1 DEF HeldInv, HoldsNew
  <2>7. OwnInv'
    <3>1. creds'[p].refresh = live
      BY <1>1, <2>2, <2>3 DEF LoginInv, PlainInv
    <3>2. ASSUME ~lost, NEW q \in up, rotator \in {q, None}
          PROVE  \/ creds'[q].refresh = live
                 \/ \E v \in Requests :
                      ProcOf[v] = q /\ pc'[v] = "answered" /\ reply[v] # None
      <4>1. CASE q = p
        BY <3>1, <4>1
      <4>2. CASE q # p
        BY <1>1, <3>2, <4>2 DEF LoginInv, OwnInv, TypeOK
      <4>3. QED
        BY <4>1, <4>2
    <3>3. QED
      BY <1>1, <2>1, <3>2 DEF LoginInv, OwnInv
  <2>8. QED
    BY <1>2, <2>4, <2>5, <2>6, <2>7 DEF LoginInv
<1>5. QED
  BY <1>3, <1>4, ReceiveEffect

\* A file is emptied only while the newest tokens are in memory.
LEMMA TruncateTokens ==
  ASSUME TypeOK, TokenAssumption, LockInv, LoginInv,
         NEW r \in Requests, Truncate(r)
  PROVE  LoginInv'
<1>1. /\ UNCHANGED <<up, creds, reply, saved, unsaved, issued, live,
                     rotates, rotator, lost>>
      /\ file' = Torn /\ pc[r] = "saving" /\ pc'[r] = "writing"
      /\ \A q \in Requests \ {r} : pc'[q] = pc[q]
  BY TruncateEffect
<1>2. \A q \in Requests : /\ HoldsNew(q)' <=> HoldsNew(q)
                          /\ pc'[q] = "answered" <=> pc[q] = "answered"
                          /\ pc'[q] \in {"saving", "writing"} <=>
                               pc[q] \in {"saving", "writing"}
  BY <1>1 DEF HoldsNew
<1>3. HoldsNew(r)
  BY <1>1 DEF HoldsNew
<1>4. PlainInv' /\ LiveInv' /\ FileNeverRegresses' /\ OnlyOthersInvalidate'
  BY <1>1, <1>2 DEF LoginInv, PlainInv, LiveInv, FileNeverRegresses,
                    OnlyOthersInvalidate
<1>5. HeldInv'
  BY <1>1, <1>2 DEF LoginInv, HeldInv
<1>6. OwnInv'
  <2>1. rotates => saved < live
    BY <1>3 DEF LoginInv, HeldInv
  <2>2. QED
    BY <1>1, <1>2, <2>1 DEF LoginInv, OwnInv
<1>7. QED
  BY <1>4, <1>5, <1>6 DEF LoginInv

\* A write puts the live tokens in the file.
LEMMA WriteTokens ==
  ASSUME TypeOK, TokenAssumption, LockInv, LoginInv,
         NEW r \in Requests, Write(r)
  PROVE  LoginInv'
<1> DEFINE p == ProcOf[r]
<1>1. /\ UNCHANGED <<up, creds, reply, issued, live, rotates, rotator, lost>>
      /\ pc[r] = "writing" /\ pc'[r] = "token"
      /\ \A q \in Requests \ {r} : pc'[q] = pc[q]
      /\ unsaved' = unsaved \ {p}
      /\ p \in Procs /\ creds[p].refresh \in Nat /\ creds[p] # None
      /\ HoldsNew(r)
  BY WriteEffect, Types DEF HoldsNew
<1>2. /\ ~HoldsNew(r)'
      /\ \A q \in Requests \ {r} : HoldsNew(q)' <=> HoldsNew(q)
      /\ \A q \in Requests : pc'[q] = "answered" <=> pc[q] = "answered"
  BY <1>1 DEF HoldsNew
<1>3. OnlyOthersInvalidate'
  BY <1>1, <1>2 DEF LoginInv, OnlyOthersInvalidate
<1>4. CASE rotates
  <2>1. /\ creds[p].refresh = live /\ rotator = p /\ saved < live
        /\ file = Torn /\ live \in Nat /\ saved \in Nat
    BY <1>1, <1>4, Types DEF LoginInv, HeldInv
  <2>2. file' = creds[p] /\ saved' = live
    BY <1>1, <2>1, WriteEffect
  <2>3. ASSUME NEW q \in Requests PROVE ~HoldsNew(q)'
    <3>1. CASE q = r
      BY <1>2, <3>1
    <3>2. CASE q # r
      <4>1. HoldsNew(q) => ProcOf[q] = p
        BY <1>4, <2>1 DEF LoginInv, HeldInv
      <4>2. QED
        BY <1>1, <1>2, <3>2, <4>1, OneHolds, LateHolds
    <3>3. QED
      BY <3>1, <3>2
  <2>4. PlainInv'
    BY <1>1, <1>4, <2>1, Types DEF PlainInv
  <2>5. LiveInv'
    BY <1>1, <2>1, <2>2 DEF LoginInv, LiveInv
  <2>6. HeldInv'
    BY <2>3 DEF HeldInv, HoldsNew
  <2>7. OwnInv'
    <3>1. file' # Torn
      BY <1>1, <2>2 DEF Torn
    <3>2. QED
      BY <1>1, <1>2, <2>2, <3>1 DEF LoginInv, OwnInv
  <2>8. FileNeverRegresses'
    BY <2>1, <2>2 DEF FileNeverRegresses
  <2>9. QED
    BY <1>3, <2>4, <2>5, <2>6, <2>7, <2>8 DEF LoginInv
<1>5. CASE ~rotates
  <2>1. creds[p].refresh = 0 /\ live = 0 /\ saved = 0 /\ rotator = None
    BY <1>1, <1>5 DEF LoginInv, PlainInv
  <2>2. saved' = 0 /\ (file' # Torn => file'.refresh = 0)
    BY <2>1, WriteEffect
  <2>3. PlainInv'
    BY <1>1, <1>2, <1>5, <2>1, <2>2 DEF LoginInv, PlainInv
  <2>4. LiveInv' /\ HeldInv'
    BY <1>1, <1>5 DEF LiveInv, HeldInv
  <2>5. OwnInv'
    BY <1>1, <1>2, <1>5, <2>1, <2>2 DEF LoginInv, OwnInv
  <2>6. FileNeverRegresses'
    BY <2>2 DEF FileNeverRegresses
  <2>7. QED
    BY <1>3, <2>3, <2>4, <2>5, <2>6 DEF LoginInv
<1>6. QED
  BY <1>4, <1>5

\* A failed save keeps the tokens within reach, in memory.
LEMMA SaveFailsTokens ==
  ASSUME TypeOK, TokenAssumption, LockInv, LoginInv,
         NEW r \in Requests, SaveFails(r)
  PROVE  LoginInv'
<1> DEFINE p == ProcOf[r]
<1>1. /\ UNCHANGED <<up, creds, reply, file, saved, issued, live, rotates,
                     rotator, lost>>
      /\ pc[r] \in {"saving", "writing"} /\ pc'[r] = "failed"
      /\ \A q \in Requests \ {r} : pc'[q] = pc[q]
      /\ unsaved' = unsaved \cup {p}
      /\ p \in up
  BY SaveFailsEffect, LateHolds DEF Holding
<1>2. /\ \A q \in Requests : HoldsNew(q)' => HoldsNew(q)
      /\ \A q \in Requests \ {r} : HoldsNew(q)' <=> HoldsNew(q)
      /\ \A q \in Requests : pc'[q] = "answered" <=> pc[q] = "answered"
  BY <1>1 DEF HoldsNew
<1>3. PlainInv' /\ LiveInv' /\ FileNeverRegresses' /\ OnlyOthersInvalidate'
  BY <1>1, <1>2 DEF LoginInv, PlainInv, LiveInv, FileNeverRegresses,
                    OnlyOthersInvalidate
<1>4. HeldInv'
  BY <1>1, <1>2 DEF LoginInv, HeldInv
<1>5. OwnInv'
  BY <1>1, <1>2 DEF LoginInv, OwnInv
<1>6. QED
  BY <1>3, <1>4, <1>5 DEF LoginInv

\* A process that starts takes the file's tokens.
LEMMA LoadTokens ==
  ASSUME TypeOK, TokenAssumption, LockInv, LoginInv,
         NEW p \in Procs, LoadStore(p)
  PROVE  LoginInv'
<1>1. /\ UNCHANGED <<pc, mu, reply, file, saved, issued, live, rotates,
                     rotator, lost>>
      /\ p \notin up /\ file # Torn /\ up' = up \cup {p}
      /\ creds'[p] = file
      /\ \A q \in Procs \ {p} : creds'[q] = creds[q]
      /\ unsaved' = unsaved \ {p}
  BY LoadEffect
<1>2. creds'[p].refresh = saved /\ saved \in Nat /\ live \in Nat
  BY <1>1, Types DEF LoginInv, FileNeverRegresses
<1>3. \A q \in Requests : HoldsNew(q) => ProcOf[q] # p
  BY <1>1, LateHolds
<1>4. \A q \in Requests : HoldsNew(q)' <=> HoldsNew(q)
  BY <1>1 DEF HoldsNew
<1>5. PlainInv'
  BY <1>1, <1>2, <1>4 DEF LoginInv, PlainInv
<1>6. LiveInv'
  BY <1>1, <1>2 DEF LoginInv, LiveInv
<1>7. HeldInv'
  <2>1. ASSUME rotates, NEW r \in Requests
        PROVE  /\ pc[r] = "answered" /\ reply[r] # None =>
                    \A q \in Procs : creds'[q].refresh # live
               /\ pc[r] \in {"saving", "writing"} =>
                    creds'[ProcOf[r]].refresh = live
    <3>1. HoldsNew(r) => rotator = ProcOf[r] /\ saved < live
      BY <2>1 DEF LoginInv, HeldInv
    <3>2. CASE pc[r] = "answered" /\ reply[r] # None
      <4>1. HoldsNew(r) /\ \A q \in Procs : creds[q].refresh # live
        BY <2>1, <3>2 DEF LoginInv, HeldInv, HoldsNew
      <4>2. QED
        BY <1>1, <1>2, <3>1, <3>2, <4>1
    <3>3. CASE pc[r] \in {"saving", "writing"}
      <4>1. HoldsNew(r) /\ creds[ProcOf[r]].refresh = live
        BY <2>1, <3>3 DEF LoginInv, HeldInv, HoldsNew
      <4>2. ProcOf[r] # p /\ ProcOf[r] \in Procs
        BY <1>3, <4>1, Types
      <4>3. QED
        BY <1>1, <3>3, <4>1, <4>2
    <3>4. QED
      BY <3>2, <3>3
  <2>2. QED
    BY <1>1, <1>4, <2>1 DEF LoginInv, HeldInv
<1>8. OwnInv'
  <2>1. SUFFICES ASSUME ~lost PROVE OwnInv'
    BY <1>1 DEF OwnInv
  <2>2. rotator = p => saved = live
    BY <1>1, <1>3, <2>1 DEF LoginInv, OwnInv
  <2>3. rotator = None => saved = live
    BY DEF LoginInv, PlainInv
  <2>4. ASSUME NEW q \in up', rotator \in {q, None}
        PROVE  \/ creds'[q].refresh = live
               \/ \E v \in Requests :
                    ProcOf[v] = q /\ pc[v] = "answered" /\ reply[v] # None
    <3>1. CASE q = p
      BY <1>2, <2>2, <2>3, <2>4, <3>1
    <3>2. CASE q # p
      BY <1>1, <2>1, <2>4, <3>2 DEF LoginInv, OwnInv, TypeOK
    <3>3. QED
      BY <3>1, <3>2
  <2>5. QED
    BY <1>1, <1>4, <2>1, <2>2, <2>4 DEF LoginInv, OwnInv
<1>9. FileNeverRegresses' /\ OnlyOthersInvalidate'
  BY <1>1 DEF LoginInv, FileNeverRegresses, OnlyOthersInvalidate
<1>10. QED
  BY <1>5, <1>6, <1>7, <1>8, <1>9 DEF LoginInv

\* A crash that takes unsaved tokens with it counts as a loss.
LEMMA CrashTokens ==
  ASSUME TypeOK, TokenAssumption, LockInv, LoginInv,
         NEW p \in Procs, Crash(p)
  PROVE  LoginInv'
<1>1. /\ UNCHANGED <<creds, reply, file, saved, unsaved, issued, live,
                     rotates, rotator>>
      /\ up' = up \ {p}
      /\ lost => lost'
      /\ p \in unsaved => lost'
      /\ \A r \in Requests : ProcOf[r] = p /\ HoldsNew(r) => lost'
  BY CrashEffect
<1>2. /\ \A r \in Requests : pc'[r] = "gone" \/ pc'[r] = pc[r]
      /\ \A r \in Requests : ProcOf[r] # p => pc'[r] = pc[r]
  BY CrashEffect
<1>3. /\ \A r \in Requests : HoldsNew(r)' => HoldsNew(r)
      /\ \A r \in Requests :
           ProcOf[r] # p => (HoldsNew(r)' <=> HoldsNew(r))
  BY <1>1, <1>2 DEF HoldsNew
<1>4. PlainInv' /\ LiveInv' /\ FileNeverRegresses' /\ OnlyOthersInvalidate'
  BY <1>1, <1>2, <1>3 DEF LoginInv, PlainInv, LiveInv, FileNeverRegresses,
                          OnlyOthersInvalidate
<1>5. HeldInv'
  BY <1>1, <1>2, <1>3 DEF LoginInv, HeldInv
<1>6. OwnInv'
  <2>1. SUFFICES ASSUME ~lost' PROVE OwnInv'
    BY DEF OwnInv
  <2>2. ~lost /\ p \notin unsaved
        /\ \A r \in Requests : ProcOf[r] = p => ~HoldsNew(r)
    BY <1>1, <2>1
  <2>3. QED
    BY <1>1, <1>2, <1>3, <2>2 DEF LoginInv, OwnInv
<1>7. QED
  BY <1>4, <1>5, <1>6 DEF LoginInv

-----------------------------------------------------------------------------
(* The theorems.                                                           *)

\* The invariant holds at the start and after every step.
THEOREM Inductive == Spec => []IInv
<1>1. Init => IInv
  <2>1. SUFFICES ASSUME Init PROVE IInv
    OBVIOUS
  <2>2. 0 \in Tokens /\ Cardinality(Requests) \in Nat
    BY FS_CardinalityType, TokenAssumption DEF Tokens, TokenAssumption
  <2>3. First \in Credentials /\ First.refresh = 0 /\ First # None
    BY <2>2, TokenAssumption DEF First, Credentials, TokenAssumption
  <2>4. TypeOK
    BY <2>1, <2>2, <2>3 DEF Init, TypeOK
  <2>5. CountInv
    <3>1. Spent \subseteq Requests /\ IsFiniteSet(Requests)
      BY TokenAssumption DEF Spent, TokenAssumption
    <3>2. Cardinality(Spent) \in Nat
      BY <3>1, FS_Subset, FS_CardinalityType
    <3>3. QED
      BY <2>1, <3>2 DEF Init, CountInv
  <2>6. LockInv
    BY <2>1, <2>4, Types, TokenAssumption
       DEF Init, LockInv, Holding, TokenAssumption
  <2>7. ASSUME NEW r \in Requests PROVE ~HoldsNew(r) /\ pc[r] = "idle"
    BY <2>1 DEF Init, HoldsNew
  <2>8. ASSUME NEW p \in Procs PROVE creds[p].refresh = 0 /\ p # None
    BY <2>1, <2>3, TokenAssumption DEF Init, TokenAssumption
  <2>9. PlainInv /\ LiveInv /\ HeldInv
    BY <2>1, <2>7, <2>8 DEF Init, PlainInv, LiveInv, HeldInv
  <2>10. OwnInv
    BY <2>1, <2>3, <2>8 DEF Init, OwnInv, Torn
  <2>11. FileNeverRegresses /\ OnlyOthersInvalidate
    BY <2>1, <2>3, <2>7 DEF Init, FileNeverRegresses, OnlyOthersInvalidate
  <2>12. QED
    BY <2>4, <2>5, <2>6, <2>9, <2>10, <2>11 DEF IInv, LoginInv
<1>2. ASSUME IInv, [Next]_vars PROVE IInv'
  <2>1. CASE Next
    <3>1. TypeOK' /\ CountInv' /\ LockInv'
      BY <1>2, <2>1, TokenAssumption, TypeStep, CountStep, LockStep DEF IInv
    <3>2. LoginInv'
      BY <1>2, <2>1, TokenAssumption, NextKinds, QuietTokens, ServerTokens,
         RefreshFailsTokens, ReceiveTokens, TruncateTokens, WriteTokens,
         SaveFailsTokens, LoadTokens, CrashTokens DEF IInv
    <3>3. QED
      BY <3>1, <3>2 DEF IInv
  <2>2. CASE UNCHANGED vars
    <3>1. TypeOK' /\ CountInv' /\ LockInv'
      BY <1>2, <2>2 DEF vars, fileVars, serverVars, IInv, TypeOK, CountInv,
                        Spent, LockInv
    <3>2. LoginInv'
      BY <1>2, <2>2 DEF vars, fileVars, serverVars, IInv, LoginInv, PlainInv,
                        LiveInv, HeldInv, OwnInv, HoldsNew,
                        FileNeverRegresses, OnlyOthersInvalidate
    <3>3. QED
      BY <3>1, <3>2 DEF IInv
  <2>3. QED
    BY <1>2, <2>1, <2>2
<1>3. QED
  BY <1>1, <1>2, PTL DEF Spec

\* The types, and that the server issues no more tokens than there are requests.
THEOREM TypeCorrect == Spec => []TypeOK
<1>1. IInv => TypeOK
  BY DEF IInv
<1>2. QED
  BY <1>1, Inductive, PTL

\* A process is refused only because another one has used the login
\* (claudecode/oauth.go:285-308, codex/local.go:127-156).
THEOREM OthersInvalidate == Spec => []OnlyOthersInvalidate
<1>1. IInv => OnlyOthersInvalidate
  BY DEF IInv, LoginInv
<1>2. QED
  BY <1>1, Inductive, PTL

\* A file that can be read has the latest tokens ever saved.
THEOREM FileCorrect == Spec => []FileNeverRegresses
<1>1. IInv => FileNeverRegresses
  BY DEF IInv, LoginInv
<1>2. QED
  BY <1>1, Inductive, PTL

\* The live refresh token can be reached unless it was lost: the process that
\* got it has saved it, or runs and has it.
THEOREM LoginKept == Spec => []LoginSurvives
<1>1. ASSUME IInv PROVE LoginSurvives
  <2>1. SUFFICES ASSUME ~lost, rotates PROVE LoginSurvives
    BY DEF LoginSurvives
  <2>2. CASE saved = live
    <3>1. file # Torn
      BY <1>1, <2>1, <2>2, Types, TokenAssumption DEF IInv, LoginInv, OwnInv
    <3>2. file.refresh = live
      BY <1>1, <2>2, <3>1 DEF IInv, LoginInv, FileNeverRegresses
    <3>3. QED
      BY <3>1, <3>2 DEF LoginSurvives
  <2>3. CASE saved # live
    <3>1. PICK p \in Procs : rotator = p
      BY <1>1, <2>3 DEF IInv, TypeOK, LoginInv, PlainInv
    <3>2. p \in up
      BY <1>1, <2>1, <2>3, <3>1, LateHolds DEF IInv, LoginInv, OwnInv
    <3>3. CASE creds[p].refresh = live
      BY <3>2, <3>3 DEF LoginSurvives
    <3>4. CASE \E r \in Requests : pc[r] = "answered" /\ reply[r] # None
      BY <1>1, <2>1, <3>4 DEF IInv, LoginInv, HeldInv, LoginSurvives
    <3>5. QED
      BY <1>1, <2>1, <3>1, <3>2, <3>3, <3>4 DEF IInv, LoginInv, OwnInv
  <2>4. QED
    BY <2>2, <2>3
<1>2. QED
  BY <1>1, Inductive, PTL

-----------------------------------------------------------------------------
(***************************************************************************)
(* The translation of requests (RequestCodec).                             *)
(*                                                                         *)
(* First the laws of sequences and of flattening, then what the messages say,*)
(* protocol by protocol, and the invariant at the end.                     *)
(***************************************************************************)

-----------------------------------------------------------------------------
(* Sequences and flattening, as Folding has them.                         *)

\* Sequences with the same elements are the same.
LEMMA SeqEqual ==
  ASSUME NEW S, NEW s \in Seq(S), NEW t \in Seq(S), Len(s) = Len(t),
         \A i \in 1..Len(s) : s[i] = t[i]
  PROVE  s = t
BY TurnFold!SeqEqual

\* Joining, as an operator that the provers leave alone.
Cat(s, t) == s \o t

\* What joining gives.
LEMMA CatType ==
  ASSUME NEW S, NEW s \in Seq(S), NEW t \in Seq(S)
  PROVE  Cat(s, t) \in Seq(S)
BY TurnFold!CatType DEF Cat, TurnFold!Cat

\* Joining is associative.
LEMMA CatAssoc ==
  ASSUME NEW S, NEW s \in Seq(S), NEW t \in Seq(S), NEW u \in Seq(S)
  PROVE  Cat(Cat(s, t), u) = Cat(s, Cat(t, u))
BY TurnFold!CatAssoc DEF Cat, TurnFold!Cat

\* Nothing to join.
LEMMA CatEmpty ==
  ASSUME NEW S, NEW s \in Seq(S)
  PROVE  Cat(s, <<>>) = s /\ Cat(<<>>, s) = s
BY TurnFold!CatEmpty DEF Cat, TurnFold!Cat

\* The end of a sequence is the end of what it is joined to.
LEMMA CatAppend ==
  ASSUME NEW S, NEW s \in Seq(S), NEW t \in Seq(S), NEW e \in S
  PROVE  /\ Append(t, e) \in Seq(S)
         /\ Cat(s, Append(t, e)) = Append(Cat(s, t), e)
BY TurnFold!CatAppend DEF Cat, TurnFold!Cat

\* The FlattenSeq of the folds.
LEMMA FlattenSame == \A ss : FlattenSeq(ss) = TurnFold!FlattenSeq(ss)
BY DEF FlattenSeq, TurnFold!FlattenSeq

\* One sequence more.
LEMMA FlattenAppend ==
  ASSUME NEW S, NEW ss \in Seq(Seq(S)), NEW s \in Seq(S)
  PROVE  FlattenSeq(Append(ss, s)) = Cat(FlattenSeq(ss), s)
<1>1. TurnFold!FlattenSeq(Append(ss, s))
        = TurnFold!Cat(TurnFold!FlattenSeq(ss), s)
  BY TurnFold!FlattenAppend
<1>2. QED
  BY <1>1, FlattenSame DEF Cat, TurnFold!Cat

\* Nothing to flatten.
LEMMA FlattenEmpty == FlattenSeq(<<>>) = <<>>
BY FlattenSame, TurnFold!FlattenEmpty

-----------------------------------------------------------------------------
(* Mapping a sequence along a function to sequences and flattening what    *)
(* comes of it: FlatMap, with a function in the place of an operator.      *)

Along(f, s) == FlattenSeq([i \in DOMAIN s |-> f[s[i]]])

\* Of none nothing.
LEMMA AlongEmpty ==
  ASSUME NEW f
  PROVE  Along(f, <<>>) = <<>>
<1>1. [i \in DOMAIN <<>> |-> f[<<>>[i]]] = <<>>
  OBVIOUS
<1>2. QED
  BY <1>1, FlattenEmpty DEF Along

\* One element more.
LEMMA AlongAppend ==
  ASSUME NEW S, NEW R, NEW f \in [S -> Seq(R)], NEW s \in Seq(S), NEW e \in S
  PROVE  Along(f, Append(s, e)) = Cat(Along(f, s), f[e])
<1> DEFINE ss == [i \in 1..Len(s) |-> f[s[i]]]
           tt == [i \in 1..Len(Append(s, e)) |-> f[Append(s, e)[i]]]
<1>1. ss \in Seq(Seq(R)) /\ f[e] \in Seq(R) /\ Len(ss) = Len(s)
  OBVIOUS
<1>2. tt = Append(ss, f[e])
  <2>1. tt \in Seq(Seq(R)) /\ Len(tt) = Len(s) + 1
    OBVIOUS
  <2>2. ASSUME NEW i \in 1..(Len(s) + 1)
        PROVE  tt[i] = Append(ss, f[e])[i]
    OBVIOUS
  <2>3. Append(ss, f[e]) \in Seq(Seq(R)) /\ Len(Append(ss, f[e])) = Len(s) + 1
    BY <1>1
  <2> DEFINE Q == Seq(R)
             vv == Append(ss, f[e])
  <2>4. /\ tt \in Seq(Q) /\ vv \in Seq(Q) /\ Len(tt) = Len(vv)
        /\ \A i \in 1..Len(tt) : tt[i] = vv[i]
    BY <2>1, <2>2, <2>3
  <2> HIDE DEF tt, vv, Q
  <2>5. tt = vv
    BY <2>4, SeqEqual
  <2>6. QED
    BY <2>5 DEF vv
<1>3. DOMAIN s = 1..Len(s) /\ DOMAIN Append(s, e) = 1..Len(Append(s, e))
  OBVIOUS
<1>4. Along(f, s) = FlattenSeq(ss) /\ Along(f, Append(s, e)) = FlattenSeq(tt)
  BY <1>3 DEF Along
<1> HIDE DEF ss, tt
<1>5. QED
  BY <1>1, <1>2, <1>4, FlattenAppend

\* Its type.
LEMMA AlongType ==
  ASSUME NEW S, NEW R, NEW f \in [S -> Seq(R)], NEW s \in Seq(S)
  PROVE  Along(f, s) \in Seq(R)
<1> DEFINE T == {u \in Seq(S) : Along(f, u) \in Seq(R)}
<1>1. <<>> \in T
  <2>1. <<>> \in Seq(S) /\ <<>> \in Seq(R)
    OBVIOUS
  <2>2. QED
    BY <2>1, AlongEmpty
<1>2. ASSUME NEW u \in Seq(S), NEW e \in S, u \in T PROVE Append(u, e) \in T
  <2>1. Along(f, Append(u, e)) = Cat(Along(f, u), f[e])
    BY AlongAppend
  <2>2. Cat(Along(f, u), f[e]) \in Seq(R)
    BY <1>2, CatType
  <2>3. Append(u, e) \in Seq(S)
    OBVIOUS
  <2>4. QED
    BY <2>1, <2>2, <2>3
<1>3. Seq(S) \subseteq T
  <2> HIDE DEF T
  <2>1. QED
    BY <1>1, <1>2, TurnFold!EverySequence
<1>4. QED
  BY <1>3

\* A sequence in two halves.
LEMMA AlongJoined ==
  ASSUME NEW S, NEW R, NEW f \in [S -> Seq(R)], NEW s \in Seq(S),
         NEW t \in Seq(S)
  PROVE  Along(f, Cat(s, t)) = Cat(Along(f, s), Along(f, t))
<1> DEFINE T == {u \in Seq(S) :
                  Along(f, Cat(s, u)) = Cat(Along(f, s), Along(f, u))}
<1>0. Along(f, s) \in Seq(R)
  BY AlongType
<1>1. <<>> \in T
  <2>1. <<>> \in Seq(S) /\ Cat(s, <<>>) = s
    BY CatEmpty
  <2>2. Cat(Along(f, s), <<>>) = Along(f, s)
    BY <1>0, CatEmpty
  <2>3. QED
    BY <2>1, <2>2, AlongEmpty
<1>2. ASSUME NEW u \in Seq(S), NEW e \in S, u \in T PROVE Append(u, e) \in T
  <2>1. /\ Append(u, e) \in Seq(S)
        /\ Cat(s, Append(u, e)) = Append(Cat(s, u), e)
    BY CatAppend
  <2>2. Along(f, Cat(s, u)) = Cat(Along(f, s), Along(f, u))
    BY <1>2
  <2>3. Along(f, Append(Cat(s, u), e)) = Cat(Along(f, Cat(s, u)), f[e])
    <3>1. Cat(s, u) \in Seq(S)
      BY CatType
    <3>2. QED
      BY <3>1, AlongAppend
  <2>4. Along(f, Append(u, e)) = Cat(Along(f, u), f[e])
    BY AlongAppend
  <2>5. Along(f, u) \in Seq(R)
    BY AlongType
  <2>6. f[e] \in Seq(R)
    OBVIOUS
  <2>7. Cat(Cat(Along(f, s), Along(f, u)), f[e])
          = Cat(Along(f, s), Cat(Along(f, u), f[e]))
    BY <1>0, <2>5, <2>6, CatAssoc
  <2>8. QED
    BY <2>1, <2>2, <2>3, <2>4, <2>7
<1>3. Seq(S) \subseteq T
  <2> HIDE DEF T
  <2>1. QED
    BY <1>1, <1>2, TurnFold!EverySequence
<1>4. QED
  BY <1>3

\* One element.
LEMMA AlongOne ==
  ASSUME NEW S, NEW R, NEW f \in [S -> Seq(R)], NEW e \in S
  PROVE  Along(f, <<e>>) = f[e]
<1>1. <<>> \in Seq(S) /\ <<e>> = Append(<<>>, e) /\ f[e] \in Seq(R)
  OBVIOUS
<1>2. Along(f, Append(<<>>, e)) = Cat(Along(f, <<>>), f[e])
  BY <1>1, AlongAppend
<1>3. Cat(<<>>, f[e]) = f[e]
  BY <1>1, CatEmpty
<1>4. QED
  BY <1>1, <1>2, <1>3, AlongEmpty

\* Functions that agree are the same to a sequence.
LEMMA AlongSame ==
  ASSUME NEW S, NEW s \in Seq(S), NEW f, NEW g, \A x \in S : f[x] = g[x]
  PROVE  Along(f, s) = Along(g, s)
<1>1. \A i \in DOMAIN s : s[i] \in S
  OBVIOUS
<1>2. [i \in DOMAIN s |-> f[s[i]]] = [i \in DOMAIN s |-> g[s[i]]]
  BY <1>1
<1>3. QED
  BY <1>2 DEF Along

\* A function to sequences, as an operator that the provers leave alone.
SeqMap(f, S, R) == f \in [S -> Seq(R)]

\* Joining anywhere.
LEMMA AlongHalves ==
  ASSUME NEW S, NEW R, NEW f, SeqMap(f, S, R)
  PROVE  \A s, t \in Seq(S) :
           Along(f, Cat(s, t)) = Cat(Along(f, s), Along(f, t))
<1>1. f \in [S -> Seq(R)]
  BY DEF SeqMap
<1>2. QED
  BY <1>1, AlongJoined

\* One flattening after another.
LEMMA AlongTwice ==
  ASSUME NEW S, NEW R, NEW Q, NEW f, NEW g, NEW h, NEW s \in Seq(S),
         SeqMap(f, S, R), SeqMap(g, R, Q), \A x \in S : h[x] = Along(g, f[x])
  PROVE  Along(g, Along(f, s)) = Along(h, s)
<1> DEFINE k == [x \in S |-> Along(g, f[x])]
           T == {u \in Seq(S) : Along(g, Along(f, u)) = Along(k, u)}
<1>1. f \in [S -> Seq(R)]
  BY DEF SeqMap
<1>2. g \in [R -> Seq(Q)]
  BY DEF SeqMap
<1>3. ASSUME NEW x \in S PROVE Along(g, f[x]) \in Seq(Q)
  BY <1>1, <1>2, AlongType
<1>4. k \in [S -> Seq(Q)]
  BY <1>3
<1>5. \A a, b \in Seq(R) : Along(g, Cat(a, b)) = Cat(Along(g, a), Along(g, b))
  BY AlongHalves
<1>6. <<>> \in T
  <2>1. <<>> \in Seq(S)
    OBVIOUS
  <2>2. QED
    BY <2>1, AlongEmpty
<1>7. ASSUME NEW u \in Seq(S), NEW e \in S, u \in T PROVE Append(u, e) \in T
  <2>1. Along(f, Append(u, e)) = Cat(Along(f, u), f[e])
    BY <1>1, AlongAppend
  <2>2. Along(f, u) \in Seq(R)
    BY <1>1, AlongType
  <2>3. f[e] \in Seq(R)
    BY <1>1
  <2>4. Along(g, Along(f, u)) = Along(k, u) /\ Along(g, f[e]) = k[e]
    BY <1>7
  <2>5. Along(g, Cat(Along(f, u), f[e]))
          = Cat(Along(g, Along(f, u)), Along(g, f[e]))
    BY <1>5, <2>2, <2>3
  <2>6. Along(k, Append(u, e)) = Cat(Along(k, u), k[e])
    <3> HIDE DEF k
    <3>1. QED
      BY <1>4, AlongAppend
  <2>7. Append(u, e) \in Seq(S)
    OBVIOUS
  <2>8. QED
    BY <2>1, <2>4, <2>5, <2>6, <2>7
<1>8. Seq(S) \subseteq T
  <2> HIDE DEF T
  <2>1. QED
    BY <1>6, <1>7, TurnFold!EverySequence
<1>9. Along(k, s) = Along(h, s)
  <2>1. \A x \in S : k[x] = h[x]
    OBVIOUS
  <2> HIDE DEF k
  <2>2. QED
    BY <2>1, AlongSame
<1>10. QED
  BY <1>8, <1>9

\* A type for the elements that there are.
LEMMA AlongTypeOn ==
  ASSUME NEW S, NEW R, NEW s \in Seq(S), NEW f, \A x \in S : f[x] \in Seq(R)
  PROVE  Along(f, s) \in Seq(R)
<1> DEFINE g == [x \in S |-> f[x]]
<1>1. g \in [S -> Seq(R)] /\ \A x \in S : f[x] = g[x]
  OBVIOUS
<1> HIDE DEF g
<1>2. Along(g, s) \in Seq(R)
  BY <1>1, AlongType
<1>3. Along(f, s) = Along(g, s)
  <2>1. \A x \in S : f[x] = g[x]
    BY <1>1
  <2>2. QED
    BY <2>1, AlongSame
<1>4. QED
  BY <1>2, <1>3

\* Nothing comes of elements of which nothing comes.
LEMMA AlongNothing ==
  ASSUME NEW S, NEW s \in Seq(S), NEW f, \A x \in S : f[x] = <<>>
  PROVE  Along(f, s) = <<>>
<1>1. Along(f, s) \in Seq({})
  <2>1. \A x \in S : f[x] \in Seq({})
    <3>1. <<>> \in Seq({})
      OBVIOUS
    <3>2. QED
      BY <3>1
  <2>2. QED
    BY <2>1, AlongTypeOn
<1>2. QED
  BY <1>1

\* Mapping, and a function to elements, as operators that the provers leave
\* alone.
Each(f, s) == [i \in DOMAIN s |-> f[s[i]]]
FunMap(f, S, R) == f \in [S -> R]

\* A sequence of one element for each is the sequence of those.
LEMMA AlongEach ==
  ASSUME NEW S, NEW R, NEW f, FunMap(f, S, R), NEW h,
         \A x \in S : h[x] = <<f[x]>>, NEW s \in Seq(S)
  PROVE  Each(f, s) \in Seq(R) /\ Along(h, s) = Each(f, s)
<1> DEFINE g == [x \in S |-> <<f[x]>>]
           E(u) == [i \in 1..Len(u) |-> f[u[i]]]
           T == {u \in Seq(S) : Along(g, u) = E(u)}
<1>0. f \in [S -> R]
  BY DEF FunMap
<1>1. g \in [S -> Seq(R)] /\ \A x \in S : g[x] = <<f[x]>>
  BY <1>0
<1>2. \A u \in Seq(S) : E(u) \in Seq(R) /\ Len(E(u)) = Len(u)
  BY <1>0
<1>3. \A u \in Seq(S) : \A i \in 1..Len(u) : E(u)[i] = f[u[i]]
  BY <1>0
<1>4. <<>> \in T
  <2>1. <<>> \in Seq(S) /\ Len(<<>>) = 0
    OBVIOUS
  <2>2. E(<<>>) \in Seq(R) /\ Len(E(<<>>)) = 0
    BY <1>2, <2>1
  <2>3. E(<<>>) = <<>>
    BY <2>2
  <2>4. Along(g, <<>>) = <<>>
    BY AlongEmpty
  <2>5. QED
    BY <2>1, <2>3, <2>4
<1>5. ASSUME NEW u \in Seq(S), NEW e \in S, u \in T PROVE Append(u, e) \in T
  <2> DEFINE v == Append(u, e)
             a == E(v)
             b == Append(E(u), f[e])
  <2>1. v \in Seq(S) /\ Len(v) = Len(u) + 1 /\ v[Len(u) + 1] = e
        /\ \A i \in 1..Len(u) : v[i] = u[i]
    OBVIOUS
  <2>2. a \in Seq(R) /\ Len(a) = Len(u) + 1
    BY <1>2, <2>1
  <2>3. /\ b \in Seq(R) /\ Len(b) = Len(u) + 1 /\ b[Len(u) + 1] = f[e]
        /\ \A i \in 1..Len(u) : b[i] = f[u[i]]
    <3> DEFINE c == E(u)
    <3>1. c \in Seq(R) /\ Len(c) = Len(u) /\ \A i \in 1..Len(u) : c[i] = f[u[i]]
      BY <1>2, <1>3
    <3>2. f[e] \in R
      BY <1>0
    <3> HIDE DEF c
    <3>3. QED
      BY <3>1, <3>2
  <2>4. \A i \in 1..(Len(u) + 1) : a[i] = f[v[i]]
    BY <1>3, <2>1
  <2>5. ASSUME NEW i \in 1..(Len(u) + 1) PROVE a[i] = b[i]
    <3> HIDE DEF a, b, v
    <3>1. CASE i = Len(u) + 1
      BY <2>1, <2>3, <2>4, <3>1
    <3>2. CASE i \in 1..Len(u)
      BY <2>1, <2>3, <2>4, <3>2
    <3>3. QED
      BY <3>1, <3>2
  <2>6. a = b
    <3> HIDE DEF a, b
    <3>1. QED
      BY <2>2, <2>3, <2>5, SeqEqual
  <2>7. Along(g, v) = Cat(Along(g, u), <<f[e]>>)
    <3> HIDE DEF g
    <3>1. Along(g, v) = Cat(Along(g, u), g[e])
      BY <1>1, AlongAppend
    <3>2. QED
      BY <1>1, <3>1
  <2>8. Cat(E(u), <<f[e]>>) = b
    <3> DEFINE c == E(u)
    <3>1. c \in Seq(R) /\ f[e] \in R
      BY <1>0, <1>2
    <3> HIDE DEF c
    <3>2. c \o <<f[e]>> = Append(c, f[e])
      BY <3>1
    <3>3. QED
      BY <3>2 DEF Cat, c
  <2>9. Along(g, u) = E(u)
    BY <1>5
  <2> HIDE DEF a, b
  <2>10. Along(g, v) = E(v)
    BY <2>6, <2>7, <2>8, <2>9 DEF a
  <2>11. QED
    BY <2>1, <2>10
<1>6. Seq(S) \subseteq T
  <2> HIDE DEF T
  <2>1. QED
    BY <1>4, <1>5, TurnFold!EverySequence
<1>7. E(s) = Each(f, s)
  BY DEF Each
<1>8. Along(h, s) = Along(g, s)
  <2>1. \A x \in S : h[x] = g[x]
    BY <1>1
  <2> HIDE DEF g
  <2>2. QED
    BY <2>1, AlongSame
<1>9. QED
  BY <1>2, <1>6, <1>7, <1>8

\* Each element for itself gives the sequence again.
LEMMA AlongItself ==
  ASSUME NEW S, NEW s \in Seq(S), NEW h, \A x \in S : h[x] = <<x>>
  PROVE  Along(h, s) = s
<1> DEFINE f == [x \in S |-> x]
<1>1. FunMap(f, S, S)
  BY DEF FunMap
<1>2. \A x \in S : h[x] = <<f[x]>>
  OBVIOUS
<1>3. Each(f, s) = s
  BY DEF Each
<1> HIDE DEF f
<1>4. Along(h, s) = Each(f, s)
  BY <1>1, <1>2, AlongEach
<1>5. QED
  BY <1>3, <1>4

-----------------------------------------------------------------------------
(* Turns.                                                                  *)

TextSet == [type : {"text"}, id : Nat, text : Seq(Nat), error : BOOLEAN]
CallSet == [type : {"tool_call"}, id : Nat, text : Seq(Nat), error : BOOLEAN]
ResultSet ==
  [type : {"tool_result"}, id : Nat, text : Seq(Nat), error : BOOLEAN]
ContentSet == TextSet \cup CallSet \cup ResultSet

RoleSet == {"system", "developer", "user", "assistant"}
TurnSet ==
  [role : RoleSet, text : Seq(Nat), calls : Seq(CallSet),
   results : Seq(ResultSet)]

\* Two turns as one, field by field.
LEMMA ExtendFields ==
  ASSUME NEW t \in TurnSet, NEW u \in TurnSet
  PROVE  /\ Extend(t, u) \in TurnSet
         /\ Extend(t, u).role = t.role
         /\ Extend(t, u).text = Cat(t.text, u.text)
         /\ Extend(t, u).calls = Cat(t.calls, u.calls)
         /\ Extend(t, u).results = Cat(t.results, u.results)
<1>1. /\ Cat(t.text, u.text) \in Seq(Nat)
      /\ Cat(t.calls, u.calls) \in Seq(CallSet)
      /\ Cat(t.results, u.results) \in Seq(ResultSet)
  <2>1. /\ t.text \in Seq(Nat) /\ u.text \in Seq(Nat)
        /\ t.calls \in Seq(CallSet) /\ u.calls \in Seq(CallSet)
        /\ t.results \in Seq(ResultSet) /\ u.results \in Seq(ResultSet)
    BY DEF TurnSet
  <2>2. Cat(t.text, u.text) \in Seq(Nat)
    BY <2>1, CatType
  <2>3. Cat(t.calls, u.calls) \in Seq(CallSet)
    BY <2>1, CatType
  <2>4. Cat(t.results, u.results) \in Seq(ResultSet)
    BY <2>1, CatType
  <2>5. QED
    BY <2>2, <2>3, <2>4
<1>2. Extend(t, u) =
        [role |-> t.role, text |-> Cat(t.text, u.text),
         calls |-> Cat(t.calls, u.calls),
         results |-> Cat(t.results, u.results)]
  <2>1. Extend(t, u) =
          [[[t EXCEPT !.text = Cat(t.text, u.text)]
               EXCEPT !.calls = Cat(t.calls, u.calls)]
               EXCEPT !.results = Cat(t.results, u.results)]
    BY DEF Extend, Cat, TurnSet
  <2>2. QED
    BY <2>1 DEF TurnSet
<1>3. QED
  BY <1>1, <1>2 DEF TurnSet

\* Turns with the same fields are the same.
LEMMA SameTurn ==
  ASSUME NEW t \in TurnSet, NEW u \in TurnSet, t.role = u.role,
         t.text = u.text, t.calls = u.calls, t.results = u.results
  PROVE  t = u
<1>1. t = [role |-> t.role, text |-> t.text, calls |-> t.calls,
           results |-> t.results]
  BY DEF TurnSet
<1>2. u = [role |-> u.role, text |-> u.text, calls |-> u.calls,
           results |-> u.results]
  BY DEF TurnSet
<1>3. QED
  BY <1>1, <1>2

\* It does not matter in which order three turns become one.
LEMMA ExtendAssoc ==
  ASSUME NEW t \in TurnSet, NEW u \in TurnSet, NEW v \in TurnSet
  PROVE  Extend(Extend(t, u), v) = Extend(t, Extend(u, v))
<1> DEFINE a == Extend(Extend(t, u), v)
           b == Extend(t, Extend(u, v))
<1>1. Extend(t, u) \in TurnSet /\ Extend(u, v) \in TurnSet
  BY ExtendFields
<1>2. /\ a \in TurnSet /\ a.role = t.role
      /\ a.text = Cat(Cat(t.text, u.text), v.text)
      /\ a.calls = Cat(Cat(t.calls, u.calls), v.calls)
      /\ a.results = Cat(Cat(t.results, u.results), v.results)
  BY <1>1, ExtendFields
<1>3. /\ b \in TurnSet /\ b.role = t.role
      /\ b.text = Cat(t.text, Cat(u.text, v.text))
      /\ b.calls = Cat(t.calls, Cat(u.calls, v.calls))
      /\ b.results = Cat(t.results, Cat(u.results, v.results))
  BY <1>1, ExtendFields
<1>4. /\ t.text \in Seq(Nat) /\ u.text \in Seq(Nat) /\ v.text \in Seq(Nat)
      /\ t.calls \in Seq(CallSet) /\ u.calls \in Seq(CallSet)
      /\ v.calls \in Seq(CallSet)
      /\ t.results \in Seq(ResultSet) /\ u.results \in Seq(ResultSet)
      /\ v.results \in Seq(ResultSet)
  BY DEF TurnSet
<1> HIDE DEF a, b
<1>5. a.text = b.text
  BY <1>2, <1>3, <1>4, CatAssoc
<1>6. a.calls = b.calls
  BY <1>2, <1>3, <1>4, CatAssoc
<1>7. a.results = b.results
  BY <1>2, <1>3, <1>4, CatAssoc
<1>8. a = b
  BY <1>2, <1>3, <1>5, <1>6, <1>7, SameTurn
<1>9. QED
  BY <1>8 DEF a, b

\* The last element of a sequence, and those before it.
LEMMA LastAppended ==
  ASSUME NEW S, NEW s \in Seq(S), NEW e \in S
  PROVE  /\ Append(s, e) \in Seq(S) /\ Append(s, e) # <<>>
         /\ Last(Append(s, e)) = e /\ Front(Append(s, e)) = s
<1>1. Append(s, e) \in Seq(S) /\ Append(s, e) # <<>>
  <2>1. Append(s, e) \in Seq(S)
    OBVIOUS
  <2>2. Len(Append(s, e)) = Len(s) + 1 /\ Len(s) \in Nat
    OBVIOUS
  <2>3. Len(<<>>) = 0
    OBVIOUS
  <2>4. QED
    BY <2>1, <2>2, <2>3
<1>2. Last(Append(s, e)) = e
  BY DEF Last
<1>3. Front(Append(s, e)) = s
  BY DEF Front
<1>4. QED
  BY <1>1, <1>2, <1>3

\* A sequence that is not empty has them.
LEMMA FrontAndLast ==
  ASSUME NEW S, NEW s \in Seq(S), s # <<>>
  PROVE  Front(s) \in Seq(S) /\ Last(s) \in S /\ s = Append(Front(s), Last(s))
<1>1. Last(s) \in S
  BY DEF Last
<1>2. Front(s) \in Seq(S) /\ Len(Front(s)) = Len(s) - 1
      /\ \A i \in 1..(Len(s) - 1) : Front(s)[i] = s[i]
  <2>1. Len(s) \in Nat /\ Len(s) # 0
    OBVIOUS
  <2>2. Front(s) \in Seq(S)
    BY <2>1 DEF Front
  <2>3. Len(Front(s)) = Len(s) - 1
    <3> DEFINE n == Len(s) - 1
    <3>1. n \in Nat /\ n + 1 = Len(s) /\ Front(s) = SubSeq(s, 1, n)
      BY <2>1 DEF Front
    <3> HIDE DEF n
    <3>2. Len(SubSeq(s, 1, n)) = n
      BY <3>1
    <3>3. QED
      BY <3>1, <3>2 DEF n
  <2>4. ASSUME NEW i \in 1..(Len(s) - 1) PROVE Front(s)[i] = s[i]
    BY <2>1 DEF Front
  <2>5. QED
    BY <2>2, <2>3, <2>4
<1> DEFINE t == Append(Front(s), Last(s))
<1>3. t \in Seq(S) /\ Len(t) = Len(s)
  BY <1>1, <1>2
<1>4. ASSUME NEW i \in 1..Len(s) PROVE s[i] = t[i]
  BY <1>1, <1>2 DEF Last
<1> HIDE DEF t
<1>5. s = t
  BY <1>3, <1>4, SeqEqual
<1>6. QED
  BY <1>1, <1>2, <1>5 DEF t

\* A turn more.
LEMMA AddTurnType ==
  ASSUME NEW turns \in Seq(TurnSet), NEW t \in TurnSet
  PROVE  AddTurn(turns, t) \in Seq(TurnSet)
<1>1. CASE turns # <<>> /\ Last(turns).role = t.role
  <2>1. Front(turns) \in Seq(TurnSet) /\ Extend(Last(turns), t) \in TurnSet
    BY <1>1, FrontAndLast, ExtendFields
  <2>2. QED
    BY <1>1, <2>1, CatAppend DEF AddTurn
<1>2. CASE ~(turns # <<>> /\ Last(turns).role = t.role)
  BY <1>2, CatAppend DEF AddTurn
<1>3. QED
  BY <1>1, <1>2

\* Two turns of a role are added like one.
LEMMA AddTwice ==
  ASSUME NEW turns \in Seq(TurnSet), NEW t \in TurnSet, NEW u \in TurnSet,
         t.role = u.role
  PROVE  AddTurn(AddTurn(turns, t), u) = AddTurn(turns, Extend(t, u))
<1>1. Extend(t, u) \in TurnSet /\ Extend(t, u).role = t.role
  BY ExtendFields
<1>2. CASE turns # <<>> /\ Last(turns).role = t.role
  <2> DEFINE F == Front(turns)
             L == Last(turns)
  <2>1. F \in Seq(TurnSet) /\ L \in TurnSet
    BY <1>2, FrontAndLast
  <2>2. L.role = t.role
    BY <1>2
  <2>3. AddTurn(turns, t) = Append(F, Extend(L, t))
    BY <1>2 DEF AddTurn
  <2>4. AddTurn(turns, Extend(t, u)) = Append(F, Extend(L, Extend(t, u)))
    BY <1>1, <1>2 DEF AddTurn
  <2> HIDE DEF F, L
  <2>5. Extend(L, t) \in TurnSet /\ Extend(L, t).role = L.role
    BY <2>1, ExtendFields
  <2>6. /\ Append(F, Extend(L, t)) # <<>>
        /\ Last(Append(F, Extend(L, t))) = Extend(L, t)
        /\ Front(Append(F, Extend(L, t))) = F
    BY <2>1, <2>5, LastAppended
  <2>7. AddTurn(Append(F, Extend(L, t)), u)
          = Append(F, Extend(Extend(L, t), u))
    BY <2>2, <2>5, <2>6 DEF AddTurn
  <2>8. Extend(Extend(L, t), u) = Extend(L, Extend(t, u))
    BY <2>1, ExtendAssoc
  <2>9. QED
    BY <2>3, <2>4, <2>7, <2>8
<1>3. CASE ~(turns # <<>> /\ Last(turns).role = t.role)
  <2>1. AddTurn(turns, t) = Append(turns, t)
    BY <1>3 DEF AddTurn
  <2>2. AddTurn(turns, Extend(t, u)) = Append(turns, Extend(t, u))
    BY <1>1, <1>3 DEF AddTurn
  <2>3. /\ Append(turns, t) # <<>> /\ Last(Append(turns, t)) = t
        /\ Front(Append(turns, t)) = turns
    BY LastAppended
  <2>4. AddTurn(Append(turns, t), u) = Append(turns, Extend(t, u))
    BY <2>3 DEF AddTurn
  <2>5. QED
    BY <2>1, <2>2, <2>4
<1>4. QED
  BY <1>2, <1>3

-----------------------------------------------------------------------------
(* What the turns of a message say.                                        *)

\* Nothing joined is nothing on both sides.
LEMMA CatNothing ==
  ASSUME NEW S, NEW s \in Seq(S), NEW t \in Seq(S), Cat(s, t) = <<>>
  PROVE  s = <<>> /\ t = <<>>
<1>1. Len(Cat(s, t)) = Len(s) + Len(t)
  BY DEF Cat
<1>2. Len(Cat(s, t)) = 0
  OBVIOUS
<1>3. Len(s) \in Nat /\ Len(t) \in Nat
  OBVIOUS
<1>4. Len(s) = 0 /\ Len(t) = 0
  BY <1>1, <1>2, <1>3
<1>5. s = <<>>
  BY <1>4
<1>6. t = <<>>
  BY <1>4
<1>7. QED
  BY <1>5, <1>6

TurnOf(r, x, cs, rs) ==
  [role |-> r, text |-> x, calls |-> cs, results |-> rs]
Silent(x, cs, rs) == x = <<>> /\ cs = <<>> /\ rs = <<>>

\* The turns after a text, calls and results of a role.
Said(turns, r, x, cs, rs) ==
  IF Silent(x, cs, rs) THEN turns ELSE AddTurn(turns, TurnOf(r, x, cs, rs))

\* It is a turn.
LEMMA TurnOfType ==
  ASSUME NEW r \in RoleSet, NEW x \in Seq(Nat), NEW cs \in Seq(CallSet),
         NEW rs \in Seq(ResultSet)
  PROVE  /\ TurnOf(r, x, cs, rs) \in TurnSet
         /\ TurnOf(r, x, cs, rs).role = r
         /\ TurnOf(r, x, cs, rs).text = x
         /\ TurnOf(r, x, cs, rs).calls = cs
         /\ TurnOf(r, x, cs, rs).results = rs
BY DEF TurnOf, TurnSet

\* One more turn of the role.
LEMMA SaidMore ==
  ASSUME NEW turns \in Seq(TurnSet), NEW r \in RoleSet, NEW x \in Seq(Nat),
         NEW cs \in Seq(CallSet), NEW rs \in Seq(ResultSet),
         NEW t \in TurnSet, t.role = r, ~Silent(t.text, t.calls, t.results)
  PROVE  AddTurn(Said(turns, r, x, cs, rs), t)
           = Said(turns, r, Cat(x, t.text), Cat(cs, t.calls),
                  Cat(rs, t.results))
<1>1. /\ t.text \in Seq(Nat) /\ t.calls \in Seq(CallSet)
      /\ t.results \in Seq(ResultSet)
  BY DEF TurnSet
<1>2. /\ Cat(x, t.text) \in Seq(Nat) /\ Cat(cs, t.calls) \in Seq(CallSet)
      /\ Cat(rs, t.results) \in Seq(ResultSet)
  <2>1. Cat(x, t.text) \in Seq(Nat)
    BY <1>1, CatType
  <2>2. Cat(cs, t.calls) \in Seq(CallSet)
    BY <1>1, CatType
  <2>3. Cat(rs, t.results) \in Seq(ResultSet)
    BY <1>1, CatType
  <2>4. QED
    BY <2>1, <2>2, <2>3
<1>3. CASE Silent(x, cs, rs)
  <2>1. x = <<>> /\ cs = <<>> /\ rs = <<>>
    BY <1>3 DEF Silent
  <2>2. Cat(x, t.text) = t.text
    BY <1>1, <2>1, CatEmpty
  <2>3. Cat(cs, t.calls) = t.calls
    BY <1>1, <2>1, CatEmpty
  <2>4. Cat(rs, t.results) = t.results
    BY <1>1, <2>1, CatEmpty
  <2> DEFINE u == TurnOf(r, t.text, t.calls, t.results)
  <2>5. u = t
    <3>1. /\ u \in TurnSet /\ u.role = r /\ u.text = t.text
          /\ u.calls = t.calls /\ u.results = t.results
      BY <1>1, TurnOfType
    <3> HIDE DEF u
    <3>2. QED
      BY <3>1, SameTurn
  <2>6. Said(turns, r, x, cs, rs) = turns
    BY <1>3 DEF Said
  <2>7. Said(turns, r, t.text, t.calls, t.results) = AddTurn(turns, u)
    BY DEF Said
  <2>8. QED
    BY <2>2, <2>3, <2>4, <2>5, <2>6, <2>7
<1>4. CASE ~Silent(x, cs, rs)
  <2> DEFINE v == TurnOf(r, x, cs, rs)
             w == TurnOf(r, Cat(x, t.text), Cat(cs, t.calls),
                         Cat(rs, t.results))
  <2>1. Said(turns, r, x, cs, rs) = AddTurn(turns, v)
    BY <1>4 DEF Said
  <2>2. ~Silent(Cat(x, t.text), Cat(cs, t.calls), Cat(rs, t.results))
    <3>1. Cat(x, t.text) = <<>> => x = <<>>
      BY <1>1, CatNothing
    <3>2. Cat(cs, t.calls) = <<>> => cs = <<>>
      BY <1>1, CatNothing
    <3>3. Cat(rs, t.results) = <<>> => rs = <<>>
      BY <1>1, CatNothing
    <3>4. QED
      BY <1>4, <3>1, <3>2, <3>3 DEF Silent
  <2>3. Said(turns, r, Cat(x, t.text), Cat(cs, t.calls), Cat(rs, t.results))
          = AddTurn(turns, w)
    BY <2>2 DEF Said
  <2>4. /\ v \in TurnSet /\ v.role = r /\ v.text = x /\ v.calls = cs
        /\ v.results = rs
    BY TurnOfType
  <2>5. /\ w \in TurnSet /\ w.role = r /\ w.text = Cat(x, t.text)
        /\ w.calls = Cat(cs, t.calls) /\ w.results = Cat(rs, t.results)
    BY <1>2, TurnOfType
  <2> HIDE DEF v, w
  <2>6. /\ Extend(v, t) \in TurnSet /\ Extend(v, t).role = r
        /\ Extend(v, t).text = Cat(x, t.text)
        /\ Extend(v, t).calls = Cat(cs, t.calls)
        /\ Extend(v, t).results = Cat(rs, t.results)
    BY <2>4, ExtendFields
  <2>7. Extend(v, t) = w
    BY <2>5, <2>6, SameTurn
  <2>8. AddTurn(AddTurn(turns, v), t) = AddTurn(turns, Extend(v, t))
    BY <2>4, AddTwice
  <2>9. QED
    BY <2>1, <2>3, <2>7, <2>8
<1>5. QED
  BY <1>3, <1>4

-----------------------------------------------------------------------------
(* The contents of a message.                                              *)

TextsOf == [c \in ContentSet |-> IF c.type = "text" THEN c.text ELSE <<>>]
CallsOf == [c \in ContentSet |-> IF c.type = "tool_call" THEN <<c>> ELSE <<>>]
ResultsOf ==
  [c \in ContentSet |-> IF c.type = "tool_result" THEN <<Quiet(c)>> ELSE <<>>]

\* An answer without its error is one.
LEMMA QuietType ==
  ASSUME NEW c \in ResultSet
  PROVE  Quiet(c) \in ResultSet
BY DEF Quiet, ResultSet

\* Once is enough.
LEMMA QuietTwice ==
  ASSUME NEW c \in ResultSet
  PROVE  Quiet(Quiet(c)) = Quiet(c)
BY DEF Quiet, ResultSet

\* Every content is a text, a call or a result.
LEMMA ContentKinds ==
  ASSUME NEW c \in ContentSet
  PROVE  /\ c.type \in {"text", "tool_call", "tool_result"}
         /\ c.text \in Seq(Nat)
         /\ c.type = "text" => c \in TextSet
         /\ c.type = "tool_call" => c \in CallSet
         /\ c.type = "tool_result" => c \in ResultSet
BY DEF ContentSet, TextSet, CallSet, ResultSet

\* The functions on contents have sequences for values.
LEMMA ContentFunctions ==
  /\ TextsOf \in [ContentSet -> Seq(Nat)]
  /\ CallsOf \in [ContentSet -> Seq(CallSet)]
  /\ ResultsOf \in [ContentSet -> Seq(ResultSet)]
<1>1. ASSUME NEW c \in ContentSet
      PROVE  (IF c.type = "text" THEN c.text ELSE <<>>) \in Seq(Nat)
  <2>1. <<>> \in Seq(Nat)
    OBVIOUS
  <2>2. QED
    BY <2>1, ContentKinds
<1>2. ASSUME NEW c \in ContentSet
      PROVE  (IF c.type = "tool_call" THEN <<c>> ELSE <<>>) \in Seq(CallSet)
  <2>1. CASE c.type = "tool_call"
    BY <2>1, ContentKinds
  <2>2. CASE c.type # "tool_call"
    BY <2>2
  <2>3. QED
    BY <2>1, <2>2
<1>3. ASSUME NEW c \in ContentSet
      PROVE  (IF c.type = "tool_result" THEN <<Quiet(c)>> ELSE <<>>)
               \in Seq(ResultSet)
  <2>1. CASE c.type = "tool_result"
    <3>1. Quiet(c) \in ResultSet
      BY <2>1, ContentKinds, QuietType
    <3>2. QED
      BY <2>1, <3>1
  <2>2. CASE c.type # "tool_result"
    BY <2>2
  <2>3. QED
    BY <2>1, <2>2
<1>4. TextsOf \in [ContentSet -> Seq(Nat)]
  BY <1>1 DEF TextsOf
<1>5. CallsOf \in [ContentSet -> Seq(CallSet)]
  BY <1>2 DEF CallsOf
<1>6. ResultsOf \in [ContentSet -> Seq(ResultSet)]
  BY <1>3 DEF ResultsOf
<1>7. QED
  BY <1>4, <1>5, <1>6

\* Sequences of one element, and of none.
LEMMA OneType ==
  ASSUME NEW S, NEW e \in S
  PROVE  <<>> \in Seq(S) /\ <<e>> \in Seq(S)
OBVIOUS

Atoms(r) ==
  [c \in ContentSet |-> IF c.type = "text" /\ c.text = <<>> THEN <<>>
                        ELSE <<Turn(r, c)>>]

\* A content's turn has what the content says.
LEMMA TurnIs ==
  ASSUME NEW r \in RoleSet, NEW c \in ContentSet
  PROVE  /\ Turn(r, c) \in TurnSet
         /\ Turn(r, c).role = r
         /\ Turn(r, c).text = TextsOf[c]
         /\ Turn(r, c).calls = CallsOf[c]
         /\ Turn(r, c).results = ResultsOf[c]
<1>1. Turn(r, c) = TurnOf(r, TextsOf[c], CallsOf[c], ResultsOf[c])
  BY DEF Turn, TurnOf, TextsOf, CallsOf, ResultsOf
<1>2. /\ TextsOf[c] \in Seq(Nat) /\ CallsOf[c] \in Seq(CallSet)
      /\ ResultsOf[c] \in Seq(ResultSet)
  BY ContentFunctions
<1>3. QED
  BY <1>1, <1>2, TurnOfType

\* A content is silent only if it is an empty text.
LEMMA ContentSilent ==
  ASSUME NEW c \in ContentSet
  PROVE  Silent(TextsOf[c], CallsOf[c], ResultsOf[c])
           <=> c.type = "text" /\ c.text = <<>>
<1>1. \A x : <<x>> # <<>>
  OBVIOUS
<1>2. /\ TextsOf[c] = IF c.type = "text" THEN c.text ELSE <<>>
      /\ CallsOf[c] = IF c.type = "tool_call" THEN <<c>> ELSE <<>>
      /\ ResultsOf[c] = IF c.type = "tool_result" THEN <<Quiet(c)>> ELSE <<>>
  BY DEF TextsOf, CallsOf, ResultsOf
<1>3. c.type \in {"text", "tool_call", "tool_result"}
  BY ContentKinds
<1>4. QED
  BY <1>1, <1>2, <1>3 DEF Silent

\* Of each content comes a turn at most.
LEMMA AtomsType ==
  ASSUME NEW r \in RoleSet
  PROVE  Atoms(r) \in [ContentSet -> Seq(TurnSet)]
<1>1. ASSUME NEW c \in ContentSet
      PROVE  (IF c.type = "text" /\ c.text = <<>> THEN <<>>
              ELSE <<Turn(r, c)>>) \in Seq(TurnSet)
  <2>1. Turn(r, c) \in TurnSet
    BY TurnIs
  <2>2. <<>> \in Seq(TurnSet) /\ <<Turn(r, c)>> \in Seq(TurnSet)
    BY <2>1, OneType
  <2>3. QED
    BY <2>2
<1>2. QED
  BY <1>1 DEF Atoms

Speaks(turns, r, s) ==
  Said(turns, r, Along(TextsOf, s), Along(CallsOf, s), Along(ResultsOf, s))

\* Contents have a text, calls and results.
LEMMA SpeechTypes ==
  ASSUME NEW s \in Seq(ContentSet)
  PROVE  /\ Along(TextsOf, s) \in Seq(Nat)
         /\ Along(CallsOf, s) \in Seq(CallSet)
         /\ Along(ResultsOf, s) \in Seq(ResultSet)
<1>1. Along(TextsOf, s) \in Seq(Nat)
  BY ContentFunctions, AlongType
<1>2. Along(CallsOf, s) \in Seq(CallSet)
  BY ContentFunctions, AlongType
<1>3. Along(ResultsOf, s) \in Seq(ResultSet)
  BY ContentFunctions, AlongType
<1>4. QED
  BY <1>1, <1>2, <1>3

\* One content more.
LEMMA SpeechAppend ==
  ASSUME NEW s \in Seq(ContentSet), NEW c \in ContentSet
  PROVE  /\ Along(TextsOf, Append(s, c)) = Cat(Along(TextsOf, s), TextsOf[c])
         /\ Along(CallsOf, Append(s, c)) = Cat(Along(CallsOf, s), CallsOf[c])
         /\ Along(ResultsOf, Append(s, c))
              = Cat(Along(ResultsOf, s), ResultsOf[c])
<1>1. Along(TextsOf, Append(s, c)) = Cat(Along(TextsOf, s), TextsOf[c])
  BY ContentFunctions, AlongAppend
<1>2. Along(CallsOf, Append(s, c)) = Cat(Along(CallsOf, s), CallsOf[c])
  BY ContentFunctions, AlongAppend
<1>3. Along(ResultsOf, Append(s, c))
        = Cat(Along(ResultsOf, s), ResultsOf[c])
  BY ContentFunctions, AlongAppend
<1>4. QED
  BY <1>1, <1>2, <1>3

\* What the turns of a content add is what the content says.
LEMMA SpeaksMore ==
  ASSUME NEW turns \in Seq(TurnSet), NEW r \in RoleSet,
         NEW s \in Seq(ContentSet), NEW c \in ContentSet
  PROVE  TurnFold!Fold(Speaks(turns, r, s), Atoms(r)[c])
           = Speaks(turns, r, Append(s, c))
<1> DEFINE x == Along(TextsOf, s)
           cs == Along(CallsOf, s)
           rs == Along(ResultsOf, s)
<1>1. x \in Seq(Nat) /\ cs \in Seq(CallSet) /\ rs \in Seq(ResultSet)
  BY SpeechTypes
<1>2. Speaks(turns, r, s) = Said(turns, r, x, cs, rs)
  BY DEF Speaks
<1>3. Speaks(turns, r, Append(s, c))
        = Said(turns, r, Cat(x, TextsOf[c]), Cat(cs, CallsOf[c]),
               Cat(rs, ResultsOf[c]))
  BY SpeechAppend DEF Speaks
<1>4. /\ TextsOf[c] \in Seq(Nat) /\ CallsOf[c] \in Seq(CallSet)
      /\ ResultsOf[c] \in Seq(ResultSet)
  BY ContentFunctions
<1> HIDE DEF x, cs, rs
<1>5. CASE c.type = "text" /\ c.text = <<>>
  <2>1. Atoms(r)[c] = <<>>
    BY <1>5 DEF Atoms
  <2>2. TextsOf[c] = <<>> /\ CallsOf[c] = <<>> /\ ResultsOf[c] = <<>>
    BY <1>5, ContentSilent DEF Silent
  <2>3. Cat(x, TextsOf[c]) = x
    BY <1>1, <2>2, CatEmpty
  <2>4. Cat(cs, CallsOf[c]) = cs
    BY <1>1, <2>2, CatEmpty
  <2>5. Cat(rs, ResultsOf[c]) = rs
    BY <1>1, <2>2, CatEmpty
  <2>6. QED
    BY <1>2, <1>3, <2>1, <2>3, <2>4, <2>5, TurnFold!FoldEmpty
<1>6. CASE ~(c.type = "text" /\ c.text = <<>>)
  <2> DEFINE t == Turn(r, c)
             b == Said(turns, r, x, cs, rs)
  <2>1. Atoms(r)[c] = <<t>>
    BY <1>6 DEF Atoms
  <2>2. /\ t \in TurnSet /\ t.role = r /\ t.text = TextsOf[c]
        /\ t.calls = CallsOf[c] /\ t.results = ResultsOf[c]
    BY TurnIs
  <2>3. ~Silent(t.text, t.calls, t.results)
    BY <1>6, <2>2, ContentSilent
  <2> HIDE DEF t
  <2>4. AddTurn(b, t) = Said(turns, r, Cat(x, t.text), Cat(cs, t.calls),
                             Cat(rs, t.results))
    BY <1>1, <2>2, <2>3, SaidMore
  <2> HIDE DEF b
  <2>5. TurnFold!Fold(b, <<t>>) = AddTurn(b, t)
    <3>1. <<>> \in Seq(TurnSet) /\ Append(<<>>, t) = <<t>>
      OBVIOUS
    <3>2. TurnFold!Fold(b, Append(<<>>, t))
            = AddTurn(TurnFold!Fold(b, <<>>), t)
      BY <2>2, <3>1, TurnFold!FoldAppend
    <3>3. TurnFold!Fold(b, <<>>) = b
      BY TurnFold!FoldEmpty
    <3>4. QED
      BY <3>1, <3>2, <3>3
  <2>6. QED
    BY <1>2, <1>3, <2>1, <2>2, <2>4, <2>5 DEF b
<1>7. QED
  BY <1>5, <1>6

\* The turns of contents add what the contents say.
LEMMA TurnsOfContents ==
  ASSUME NEW turns \in Seq(TurnSet), NEW r \in RoleSet,
         NEW s \in Seq(ContentSet)
  PROVE  TurnFold!Fold(turns, Along(Atoms(r), s)) = Speaks(turns, r, s)
<1> DEFINE T == {u \in Seq(ContentSet) :
                  TurnFold!Fold(turns, Along(Atoms(r), u))
                    = Speaks(turns, r, u)}
<1>1. <<>> \in T
  <2>1. /\ Along(Atoms(r), <<>>) = <<>> /\ Along(TextsOf, <<>>) = <<>>
        /\ Along(CallsOf, <<>>) = <<>> /\ Along(ResultsOf, <<>>) = <<>>
    BY AlongEmpty
  <2>2. Speaks(turns, r, <<>>) = turns
    BY <2>1 DEF Speaks, Said, Silent
  <2>3. TurnFold!Fold(turns, <<>>) = turns
    BY TurnFold!FoldEmpty
  <2>4. <<>> \in Seq(ContentSet)
    OBVIOUS
  <2>5. QED
    BY <2>1, <2>2, <2>3, <2>4
<1>2. ASSUME NEW u \in Seq(ContentSet), NEW c \in ContentSet, u \in T
      PROVE  Append(u, c) \in T
  <2> DEFINE a == Along(Atoms(r), u)
             b == Atoms(r)[c]
  <2>1. TurnFold!Fold(turns, a) = Speaks(turns, r, u)
    BY <1>2
  <2>2. Along(Atoms(r), Append(u, c)) = Cat(a, b)
    BY AtomsType, AlongAppend
  <2>3. a \in Seq(TurnSet) /\ b \in Seq(TurnSet)
    BY AtomsType, AlongType
  <2>4. TurnFold!Fold(Speaks(turns, r, u), b) = Speaks(turns, r, Append(u, c))
    BY SpeaksMore
  <2> HIDE DEF a, b
  <2>5. TurnFold!Fold(turns, Cat(a, b))
          = TurnFold!Fold(TurnFold!Fold(turns, a), b)
    BY <2>3, TurnFold!FoldJoined DEF Cat
  <2>6. Append(u, c) \in Seq(ContentSet)
    BY CatAppend
  <2>7. QED
    BY <2>1, <2>2, <2>4, <2>5, <2>6
<1> HIDE DEF T
<1>3. Seq(ContentSet) \subseteq T
  BY <1>1, <1>2, TurnFold!EverySequence
<1>4. QED
  BY <1>3 DEF T

-----------------------------------------------------------------------------
(* Messages.                                                               *)

SystemMessages == [role : {"system", "developer"}, content : Seq(TextSet)]
UserMessages == [role : {"user"}, content : Seq(TextSet \cup ResultSet)]
AssistantMessages ==
  [role : {"assistant"}, content : Seq(TextSet \cup CallSet)]
Canon == SystemMessages \cup UserMessages \cup AssistantMessages
CanonOf(r) == {m \in Canon : m.role = r}

\* What is a sequence of some elements is one of more elements.
LEMMA SeqWidens ==
  ASSUME NEW S, NEW R, S \subseteq R, NEW s \in Seq(S)
  PROVE  s \in Seq(R)
OBVIOUS

\* The messages of a canonical request.
LEMMA CanonKinds ==
  ASSUME NEW m \in Canon
  PROVE  /\ m.role \in {"system", "developer", "user", "assistant"}
         /\ IsSystem(m.role) <=> m \in SystemMessages
         /\ m \in SystemMessages => m.content \in Seq(TextSet)
         /\ m.role = "user" => m.content \in Seq(TextSet \cup ResultSet)
         /\ m.role = "assistant" => m.content \in Seq(TextSet \cup CallSet)
BY DEF Canon, SystemMessages, UserMessages, AssistantMessages, IsSystem

\* Their contents.
LEMMA CanonContent ==
  ASSUME NEW m \in Canon
  PROVE  m.content \in Seq(ContentSet)
<1>1. /\ TextSet \subseteq ContentSet
      /\ TextSet \cup ResultSet \subseteq ContentSet
      /\ TextSet \cup CallSet \subseteq ContentSet
  BY DEF ContentSet
<1>2. CASE m \in SystemMessages
  BY <1>1, <1>2, CanonKinds, SeqWidens
<1>3. CASE m.role = "user"
  BY <1>1, <1>3, CanonKinds, SeqWidens
<1>4. CASE m.role = "assistant"
  BY <1>1, <1>4, CanonKinds, SeqWidens
<1>5. QED
  BY <1>2, <1>3, <1>4, CanonKinds DEF IsSystem

Contents == [m \in Canon |-> m.content]
MessageTurns ==
  [m \in Canon |-> IF IsSystem(m.role) THEN <<>>
                   ELSE Along(Atoms(m.role), m.content)]
SystemSaid ==
  [m \in Canon |-> IF IsSystem(m.role) THEN Along(TextsOf, m.content)
                   ELSE <<>>]

\* The functions on messages have sequences for values.
LEMMA MessageFunctions ==
  /\ Contents \in [Canon -> Seq(ContentSet)]
  /\ MessageTurns \in [Canon -> Seq(TurnSet)]
  /\ SystemSaid \in [Canon -> Seq(Nat)]
<1>1. Contents \in [Canon -> Seq(ContentSet)]
  BY CanonContent DEF Contents
<1>2. ASSUME NEW m \in Canon
      PROVE  (IF IsSystem(m.role) THEN <<>>
              ELSE Along(Atoms(m.role), m.content)) \in Seq(TurnSet)
  <2>1. m.role \in RoleSet
    BY CanonKinds DEF RoleSet
  <2>2. m.content \in Seq(ContentSet)
    BY CanonContent
  <2>3. Atoms(m.role) \in [ContentSet -> Seq(TurnSet)]
    BY <2>1, AtomsType
  <2>4. Along(Atoms(m.role), m.content) \in Seq(TurnSet)
    BY <2>2, <2>3, AlongType
  <2>5. <<>> \in Seq(TurnSet)
    OBVIOUS
  <2>6. QED
    BY <2>4, <2>5
<1>3. ASSUME NEW m \in Canon
      PROVE  (IF IsSystem(m.role) THEN Along(TextsOf, m.content)
              ELSE <<>>) \in Seq(Nat)
  <2>1. Along(TextsOf, m.content) \in Seq(Nat)
    BY CanonContent, SpeechTypes
  <2>2. <<>> \in Seq(Nat)
    OBVIOUS
  <2>3. QED
    BY <2>1, <2>2
<1>4. MessageTurns \in [Canon -> Seq(TurnSet)]
  BY <1>2 DEF MessageTurns
<1>5. SystemSaid \in [Canon -> Seq(Nat)]
  BY <1>3 DEF SystemSaid
<1>6. QED
  BY <1>1, <1>4, <1>5

\* The turns of messages of a role are those of their contents.
LEMMA TurnsOfOneRole ==
  ASSUME NEW r \in {"user", "assistant"}, NEW s \in Seq(CanonOf(r))
  PROVE  /\ Along(Contents, s) \in Seq(ContentSet)
         /\ Along(MessageTurns, s) = Along(Atoms(r), Along(Contents, s))
<1> DEFINE S == CanonOf(r)
           f == [m \in S |-> Contents[m]]
           g == Atoms(r)
           h == [m \in S |-> MessageTurns[m]]
<1>1. S \subseteq Canon /\ s \in Seq(S) /\ \A m \in S : m.role = r
  BY DEF CanonOf
<1>2. r \in RoleSet /\ ~IsSystem(r)
  BY DEF RoleSet, IsSystem
<1>3. f \in [S -> Seq(ContentSet)] /\ h \in [S -> Seq(TurnSet)]
  BY <1>1, MessageFunctions
<1>4. ASSUME NEW m \in S PROVE h[m] = Along(g, f[m])
  <2>1. m \in Canon /\ m.role = r
    BY <1>1
  <2>2. QED
    BY <1>2, <2>1 DEF MessageTurns, Contents
<1>5. (\A m \in S : f[m] = Contents[m]) /\ \A m \in S : h[m] = MessageTurns[m]
  OBVIOUS
<1>6. g \in [ContentSet -> Seq(TurnSet)]
  BY <1>2, AtomsType
<1> HIDE DEF S, f, g, h
<1>7. Along(g, Along(f, s)) = Along(h, s)
  <2>1. SeqMap(f, S, ContentSet)
    BY <1>3 DEF SeqMap
  <2>2. SeqMap(g, ContentSet, TurnSet)
    BY <1>6 DEF SeqMap
  <2>3. \A m \in S : h[m] = Along(g, f[m])
    BY <1>4
  <2>4. QED
    BY <1>1, <2>1, <2>2, <2>3, AlongTwice
<1>8. Along(f, s) = Along(Contents, s)
  BY <1>1, <1>5, AlongSame
<1>9. Along(h, s) = Along(MessageTurns, s)
  BY <1>1, <1>5, AlongSame
<1>10. Along(f, s) \in Seq(ContentSet)
  BY <1>1, <1>3, AlongType
<1>11. QED
  BY <1>7, <1>8, <1>9, <1>10 DEF g

\* Contents that say the same.
SameSaid(s, t) ==
  /\ Along(TextsOf, s) = Along(TextsOf, t)
  /\ Along(CallsOf, s) = Along(CallsOf, t)
  /\ Along(ResultsOf, s) = Along(ResultsOf, t)

\* Messages of a role that say what a message of the role does add its turns.
LEMMA SameTurns ==
  ASSUME NEW turns \in Seq(TurnSet), NEW r \in {"user", "assistant"},
         NEW m \in CanonOf(r), NEW s \in Seq(CanonOf(r)),
         SameSaid(Along(Contents, s), m.content)
  PROVE  TurnFold!Fold(turns, Along(MessageTurns, s))
           = TurnFold!Fold(turns, MessageTurns[m])
<1>1. /\ Along(Contents, s) \in Seq(ContentSet)
      /\ Along(MessageTurns, s) = Along(Atoms(r), Along(Contents, s))
  BY TurnsOfOneRole
<1>2. m \in Canon /\ m.role = r /\ r \in RoleSet /\ ~IsSystem(r)
  BY DEF RoleSet, CanonOf, IsSystem
<1>3. MessageTurns[m] = Along(Atoms(r), m.content)
  BY <1>2 DEF MessageTurns
<1>4. m.content \in Seq(ContentSet)
  BY <1>2, CanonContent
<1>5. TurnFold!Fold(turns, Along(Atoms(r), Along(Contents, s)))
        = Speaks(turns, r, Along(Contents, s))
  BY <1>1, <1>2, TurnsOfContents
<1>6. TurnFold!Fold(turns, Along(Atoms(r), m.content))
        = Speaks(turns, r, m.content)
  BY <1>2, <1>4, TurnsOfContents
<1>7. Speaks(turns, r, Along(Contents, s)) = Speaks(turns, r, m.content)
  BY DEF Speaks, SameSaid
<1>8. QED
  BY <1>1, <1>3, <1>5, <1>6, <1>7

\* Turns are added to turns.
LEMMA FoldedTurns ==
  ASSUME NEW s \in Seq(TurnSet)
  PROVE  TurnFold!Fold(<<>>, s) \in Seq(TurnSet)
<1> DEFINE T == {u \in Seq(TurnSet) : TurnFold!Fold(<<>>, u) \in Seq(TurnSet)}
<1>1. <<>> \in T
  <2>1. <<>> \in Seq(TurnSet)
    OBVIOUS
  <2>2. QED
    BY <2>1, TurnFold!FoldEmpty
<1>2. ASSUME NEW u \in Seq(TurnSet), NEW t \in TurnSet, u \in T
      PROVE  Append(u, t) \in T
  <2>1. TurnFold!Fold(<<>>, Append(u, t)) = AddTurn(TurnFold!Fold(<<>>, u), t)
    BY TurnFold!FoldAppend
  <2>2. AddTurn(TurnFold!Fold(<<>>, u), t) \in Seq(TurnSet)
    BY <1>2, AddTurnType
  <2>3. Append(u, t) \in Seq(TurnSet)
    BY CatAppend
  <2>4. QED
    BY <2>1, <2>2, <2>3
<1> HIDE DEF T
<1>3. Seq(TurnSet) \subseteq T
  BY <1>1, <1>2, TurnFold!EverySequence
<1>4. QED
  BY <1>3 DEF T

\* A function from messages to messages that keeps what the turns say: of a
\* system message come system messages, of another one messages of its role
\* that say the same.
Retells(f) ==
  /\ f \in [Canon -> Seq(Canon)]
  /\ \A m \in Canon :
       IF IsSystem(m.role) THEN f[m] \in Seq(SystemMessages)
       ELSE /\ f[m] \in Seq(CanonOf(m.role))
            /\ SameSaid(Along(Contents, f[m]), m.content)

\* System messages have no turns.
LEMMA SystemHasNoTurns ==
  ASSUME NEW s \in Seq(SystemMessages)
  PROVE  Along(MessageTurns, s) = <<>>
<1>1. ASSUME NEW m \in SystemMessages PROVE MessageTurns[m] = <<>>
  <2>1. m \in Canon
    BY DEF Canon
  <2>2. IsSystem(m.role)
    BY <2>1, CanonKinds
  <2>3. QED
    BY <2>1, <2>2 DEF MessageTurns
<1>2. QED
  BY <1>1, AlongNothing

\* A message's turns, retold.
LEMMA MessageRetold ==
  ASSUME NEW f, Retells(f), NEW m \in Canon, NEW turns \in Seq(TurnSet)
  PROVE  TurnFold!Fold(turns, Along(MessageTurns, f[m]))
           = TurnFold!Fold(turns, MessageTurns[m])
<1>1. CASE IsSystem(m.role)
  <2>1. Along(MessageTurns, f[m]) = <<>>
    BY <1>1, SystemHasNoTurns DEF Retells
  <2>2. MessageTurns[m] = <<>>
    BY <1>1 DEF MessageTurns
  <2>3. QED
    BY <2>1, <2>2
<1>2. CASE ~IsSystem(m.role)
  <2> DEFINE r == m.role
  <2>1. r \in {"user", "assistant"} /\ m \in CanonOf(r)
    BY <1>2, CanonKinds DEF IsSystem, CanonOf
  <2>2. f[m] \in Seq(CanonOf(r)) /\ SameSaid(Along(Contents, f[m]), m.content)
    BY <1>2 DEF Retells
  <2> HIDE DEF r
  <2>3. QED
    BY <2>1, <2>2, SameTurns
<1>3. QED
  BY <1>1, <1>2

\* The turns of messages, retold.
LEMMA TurnsRetold ==
  ASSUME NEW f, Retells(f), NEW s \in Seq(Canon)
  PROVE  /\ Along(f, s) \in Seq(Canon)
         /\ TurnFold!Fold(<<>>, Along(MessageTurns, Along(f, s)))
              = TurnFold!Fold(<<>>, Along(MessageTurns, s))
<1> DEFINE T == {u \in Seq(Canon) :
                  TurnFold!Fold(<<>>, Along(MessageTurns, Along(f, u)))
                    = TurnFold!Fold(<<>>, Along(MessageTurns, u))}
<1>1. f \in [Canon -> Seq(Canon)]
  BY DEF Retells
<1>2. SeqMap(MessageTurns, Canon, TurnSet)
  BY MessageFunctions DEF SeqMap
<1>3. <<>> \in T
  <2>1. <<>> \in Seq(Canon)
    OBVIOUS
  <2>2. Along(f, <<>>) = <<>>
    BY AlongEmpty
  <2>3. QED
    BY <2>1, <2>2
<1>4. ASSUME NEW u \in Seq(Canon), NEW m \in Canon, u \in T
      PROVE  Append(u, m) \in T
  <2> DEFINE a == Along(f, u)
             A == Along(MessageTurns, a)
             B == Along(MessageTurns, f[m])
             C == Along(MessageTurns, u)
             D == MessageTurns[m]
  <2>1. a \in Seq(Canon)
    BY <1>1, AlongType
  <2>2. f[m] \in Seq(Canon)
    BY <1>1
  <2>3. Along(f, Append(u, m)) = Cat(a, f[m])
    BY <1>1, AlongAppend
  <2>4. Along(MessageTurns, Cat(a, f[m])) = Cat(A, B)
    BY <1>2, <2>1, <2>2, AlongHalves
  <2>5. Along(MessageTurns, Append(u, m)) = Cat(C, D)
    BY MessageFunctions, AlongAppend
  <2>6. A \in Seq(TurnSet)
    BY <2>1, MessageFunctions, AlongType
  <2>7. B \in Seq(TurnSet)
    BY <2>2, MessageFunctions, AlongType
  <2>8. C \in Seq(TurnSet)
    BY MessageFunctions, AlongType
  <2>9. D \in Seq(TurnSet)
    BY MessageFunctions
  <2>10. TurnFold!Fold(<<>>, A) = TurnFold!Fold(<<>>, C)
    BY <1>4
  <2>11. TurnFold!Fold(<<>>, C) \in Seq(TurnSet)
    BY <2>8, FoldedTurns
  <2>12. TurnFold!Fold(TurnFold!Fold(<<>>, C), B)
           = TurnFold!Fold(TurnFold!Fold(<<>>, C), D)
    BY <2>11, MessageRetold
  <2>13. Append(u, m) \in Seq(Canon)
    BY CatAppend
  <2> HIDE DEF A, B, C, D
  <2>14. TurnFold!Fold(<<>>, Cat(A, B))
           = TurnFold!Fold(TurnFold!Fold(<<>>, A), B)
    BY <2>6, <2>7, TurnFold!FoldJoined DEF Cat
  <2>15. TurnFold!Fold(<<>>, Cat(C, D))
           = TurnFold!Fold(TurnFold!Fold(<<>>, C), D)
    BY <2>8, <2>9, TurnFold!FoldJoined DEF Cat
  <2>16. QED
    BY <2>3, <2>4, <2>5, <2>10, <2>12, <2>13, <2>14, <2>15
<1>5. Along(f, s) \in Seq(Canon)
  BY <1>1, AlongType
<1> HIDE DEF T
<1>6. Seq(Canon) \subseteq T
  BY <1>3, <1>4, TurnFold!EverySequence
<1>7. QED
  BY <1>5, <1>6 DEF T

-----------------------------------------------------------------------------
(* The operators of RequestCodec, as flattenings along functions.          *)

SystemContent ==
  [m \in Canon |-> IF IsSystem(m.role) THEN m.content ELSE <<>>]
Spoken == [m \in Canon |-> IF ~IsSystem(m.role) THEN <<m>> ELSE <<>>]
TurnsInside == [m \in Canon |-> Along(Atoms(m.role), m.content)]

\* The elements of a sequence.
LEMMA Elements ==
  ASSUME NEW S, NEW s \in Seq(S)
  PROVE  \A i \in DOMAIN s : s[i] \in S
OBVIOUS

\* The system's text.
LEMMA SystemTextIs ==
  ASSUME NEW s \in Seq(Canon)
  PROVE  SystemText(s) = Along(SystemSaid, s)
<1>1. ASSUME NEW m \in Canon
      PROVE  SystemContent[m] \in Seq(TextSet)
  <2>1. CASE IsSystem(m.role)
    BY <2>1, CanonKinds DEF SystemContent
  <2>2. CASE ~IsSystem(m.role)
    <3>1. <<>> \in Seq(TextSet)
      OBVIOUS
    <3>2. QED
      BY <2>2, <3>1 DEF SystemContent
  <2>3. QED
    BY <2>1, <2>2
<1>2. SystemContent \in [Canon -> Seq(TextSet)]
  BY <1>1 DEF SystemContent
<1>3. SeqMap(SystemContent, Canon, TextSet)
  BY <1>2 DEF SeqMap
<1> DEFINE g == [c \in TextSet |-> TextsOf[c]]
           u == Along(SystemContent, s)
<1>4. \A c \in TextSet : c \in ContentSet /\ c.type = "text"
  BY DEF ContentSet, TextSet
<1>5. SeqMap(g, TextSet, Nat)
  BY <1>4, ContentFunctions DEF SeqMap
<1>6. \A c \in TextSet : g[c] = c.text
  BY <1>4 DEF TextsOf
<1>7. u \in Seq(TextSet)
  BY <1>2, AlongType
<1>8. \A c \in TextSet : g[c] = TextsOf[c]
  OBVIOUS
<1>9. FlatMap(LAMBDA m : IF IsSystem(m.role) THEN m.content ELSE <<>>, s) = u
  <2>1. \A i \in DOMAIN s : s[i] \in Canon
    BY Elements
  <2>2. [i \in DOMAIN s |->
           IF IsSystem(s[i].role) THEN s[i].content ELSE <<>>]
          = [i \in DOMAIN s |-> SystemContent[s[i]]]
    BY <2>1 DEF SystemContent
  <2>3. QED
    BY <2>2 DEF FlatMap, MapSeq, Along
<1>10. SystemText(s) = Join(u)
  BY <1>9, Zenon DEF SystemText
<1> HIDE DEF g
<1>11. ASSUME NEW v \in Seq(TextSet) PROVE Join(v) = Along(g, v)
  <2>1. \A i \in DOMAIN v : v[i] \in TextSet
    BY Elements
  <2>2. [i \in DOMAIN v |-> v[i].text] = [i \in DOMAIN v |-> g[v[i]]]
    BY <1>6, <2>1
  <2>3. QED
    BY <2>2 DEF Join, FlatMap, MapSeq, Along
<1>12. ASSUME NEW m \in Canon
       PROVE  SystemSaid[m] = Along(g, SystemContent[m])
  <2>1. CASE IsSystem(m.role)
    <3>1. m.content \in Seq(TextSet)
      BY <2>1, CanonKinds
    <3>2. Along(g, m.content) = Along(TextsOf, m.content)
      BY <1>8, <3>1, AlongSame
    <3>3. QED
      BY <2>1, <3>2 DEF SystemSaid, SystemContent
  <2>2. CASE ~IsSystem(m.role)
    BY <2>2, AlongEmpty DEF SystemSaid, SystemContent
  <2>3. QED
    BY <2>1, <2>2
<1>13. Along(g, Along(SystemContent, s)) = Along(SystemSaid, s)
  <2>1. \A m \in Canon : SystemSaid[m] = Along(g, SystemContent[m])
    BY <1>12
  <2>2. QED
    BY <1>3, <1>5, <2>1, AlongTwice
<1>14. QED
  BY <1>7, <1>10, <1>11, <1>13

\* The messages that are not the system's.
LEMMA TurnsIs ==
  ASSUME NEW s \in Seq(Canon)
  PROVE  Turns(s) = Along(Spoken, s)
<1>1. \A i \in DOMAIN s : s[i] \in Canon
  BY Elements
<1>2. [i \in DOMAIN s |-> IF ~IsSystem(s[i].role) THEN <<s[i]>> ELSE <<>>]
        = [i \in DOMAIN s |-> Spoken[s[i]]]
  BY <1>1 DEF Spoken
<1>3. QED
  BY <1>2 DEF Turns, Keep, FlatMap, MapSeq, Along

\* The turns of a message.
LEMMA TurnsInIs ==
  ASSUME NEW m \in Canon
  PROVE  TurnsIn(m) = TurnsInside[m]
<1> DEFINE s == m.content
           r == m.role
<1>1. \A i \in DOMAIN s : s[i] \in ContentSet
  BY CanonContent, Elements
<1>2. [i \in DOMAIN s |-> IF s[i].type = "text" /\ s[i].text = <<>> THEN <<>>
                          ELSE <<Turn(r, s[i])>>]
        = [i \in DOMAIN s |-> Atoms(r)[s[i]]]
  BY <1>1 DEF Atoms
<1>3. TurnsIn(m) = Along(Atoms(r), s)
  BY <1>2 DEF TurnsIn, FlatMap, MapSeq, Along
<1>4. QED
  BY <1>3 DEF TurnsInside

\* The functions on messages, once more.
LEMMA SpokenFunctions ==
  /\ Spoken \in [Canon -> Seq(Canon)]
  /\ TurnsInside \in [Canon -> Seq(TurnSet)]
<1>1. ASSUME NEW m \in Canon
      PROVE  (IF ~IsSystem(m.role) THEN <<m>> ELSE <<>>) \in Seq(Canon)
  BY OneType
<1>2. ASSUME NEW m \in Canon
      PROVE  Along(Atoms(m.role), m.content) \in Seq(TurnSet)
  <2>1. m.role \in RoleSet
    BY CanonKinds DEF RoleSet
  <2>2. Atoms(m.role) \in [ContentSet -> Seq(TurnSet)]
    BY <2>1, AtomsType
  <2>3. m.content \in Seq(ContentSet)
    BY CanonContent
  <2>4. QED
    BY <2>2, <2>3, AlongType
<1>3. Spoken \in [Canon -> Seq(Canon)]
  BY <1>1 DEF Spoken
<1>4. TurnsInside \in [Canon -> Seq(TurnSet)]
  BY <1>2 DEF TurnsInside
<1>5. QED
  BY <1>3, <1>4

\* The instances are the folds of the model.
LEMMA SameFold ==
  ASSUME NEW s, NEW base
  PROVE  /\ TurnFold!Fold(base, s) = FoldLeft(AddTurn, base, s)
         /\ MessageFold!Fold(base, s) = FoldLeft(AppendMessage, base, s)
<1>1. TurnFold!Fold(base, s) = FoldLeft(AddTurn, base, s)
  BY DEF TurnFold!Fold, TurnFold!FoldLeft, FoldLeft, MapThenFoldSet,
         TurnFold!MapThenFoldSet, TurnFold!Max, Max
<1>2. MessageFold!Fold(base, s) = FoldLeft(AppendMessage, base, s)
  BY DEF MessageFold!Fold, MessageFold!FoldLeft, FoldLeft, MapThenFoldSet,
         MessageFold!MapThenFoldSet, MessageFold!Max, Max
<1>3. QED
  BY <1>1, <1>2

\* A transcript.
LEMMA TranscriptIs ==
  ASSUME NEW s \in Seq(Canon)
  PROVE  Transcript(s) =
           [system |-> Along(SystemSaid, s),
            turns |-> TurnFold!Fold(<<>>, Along(MessageTurns, s))]
<1> DEFINE t == Turns(s)
<1>1. t = Along(Spoken, s)
  BY TurnsIs
<1>2. t \in Seq(Canon)
  BY <1>1, SpokenFunctions, AlongType
<1>3. \A i \in DOMAIN t : TurnsIn(t[i]) = TurnsInside[t[i]]
  BY <1>2, Elements, TurnsInIs
<1> HIDE DEF t
<1>4. [i \in DOMAIN t |-> TurnsIn(t[i])]
        = [i \in DOMAIN t |-> TurnsInside[t[i]]]
  BY <1>3
<1>5. FlatMap(TurnsIn, t) = Along(TurnsInside, t)
  BY <1>4 DEF FlatMap, MapSeq, Along
<1>6. ASSUME NEW m \in Canon
      PROVE  MessageTurns[m] = Along(TurnsInside, Spoken[m])
  <2>1. CASE IsSystem(m.role)
    BY <2>1, AlongEmpty DEF MessageTurns, Spoken
  <2>2. CASE ~IsSystem(m.role)
    <3>1. Along(TurnsInside, <<m>>) = TurnsInside[m]
      BY SpokenFunctions, AlongOne
    <3>2. QED
      BY <2>2, <3>1 DEF MessageTurns, Spoken, TurnsInside
  <2>3. QED
    BY <2>1, <2>2
<1>7. Along(TurnsInside, Along(Spoken, s)) = Along(MessageTurns, s)
  <2>1. SeqMap(Spoken, Canon, Canon)
    BY SpokenFunctions DEF SeqMap
  <2>2. SeqMap(TurnsInside, Canon, TurnSet)
    BY SpokenFunctions DEF SeqMap
  <2>3. \A m \in Canon : MessageTurns[m] = Along(TurnsInside, Spoken[m])
    BY <1>6
  <2>4. QED
    BY <2>1, <2>2, <2>3, AlongTwice
<1>8. FlatMap(TurnsIn, Turns(s)) = Along(MessageTurns, s)
  BY <1>1, <1>5, <1>7 DEF t
<1>9. FoldLeft(AddTurn, <<>>, Along(MessageTurns, s))
        = TurnFold!Fold(<<>>, Along(MessageTurns, s))
  BY SameFold
<1>10. FoldLeft(AddTurn, <<>>, FlatMap(TurnsIn, Turns(s)))
         = TurnFold!Fold(<<>>, Along(MessageTurns, s))
  BY <1>8, <1>9
<1>11. SystemText(s) = Along(SystemSaid, s)
  BY SystemTextIs
<1>12. QED
  BY <1>10, <1>11 DEF Transcript

-----------------------------------------------------------------------------
(* Reading what has been written.                                          *)

WireRoles == {"system", "developer", "user", "assistant", "tool",
              "function_call", "function_call_output"}
Wires == [role : WireRoles, parts : Seq(ContentSet)]
ReadAs(w) == Message(CanonicalRole(w.role), w.parts)

\* A message of a protocol of which a decoder reads every part.
Readable(p, w) ==
  /\ w.role \in DOMAIN Reads[p]
  /\ w.parts \in Seq(ContentSet)
  /\ \A i \in DOMAIN w.parts : w.parts[i].type \in Reads[p][w.role]

\* What a part is read as.
LEMMA ReadPartIs ==
  ASSUME NEW c \in ContentSet
  PROVE  ReadPart(c) = c
BY ContentKinds DEF ReadPart

\* A message that can be read is read as what it is.
LEMMA ReadWhole ==
  ASSUME NEW p, NEW w, Readable(p, w)
  PROVE  ReadMessage(p, w) = ReadAs(w) /\ ~Unreadable(p, w)
<1> DEFINE s == w.parts
           f == [c \in ContentSet |-> <<c>>]
           k == Keep(s, LAMBDA x : Severity(p, w, x) = "none")
<1>1. s \in Seq(ContentSet) /\ w.role \in DOMAIN Reads[p]
  BY DEF Readable
<1>2. \A i \in DOMAIN s : s[i] \in ContentSet
  BY <1>1, Elements
<1>3. ASSUME NEW i \in DOMAIN s PROVE Severity(p, w, s[i]) = "none"
  BY <1>3 DEF Severity, Readable
<1>4. ~Unreadable(p, w)
  BY <1>1, <1>3 DEF Unreadable
<1>5. k = s
  <2>1. [i \in DOMAIN s |-> IF Severity(p, w, s[i]) = "none" THEN <<s[i]>>
                            ELSE <<>>]
          = [i \in DOMAIN s |-> f[s[i]]]
    BY <1>2, <1>3
  <2>2. k = Along(f, s)
    BY <2>1 DEF Keep, FlatMap, MapSeq, Along
  <2>3. \A c \in ContentSet : f[c] = <<c>>
    OBVIOUS
  <2> HIDE DEF f, s
  <2>4. Along(f, s) = s
    BY <1>1, <2>3, AlongItself
  <2>5. QED
    BY <2>2, <2>4
<1>6. MapSeq(ReadPart, s) = s
  <2>1. \A i \in DOMAIN s : ReadPart(s[i]) = s[i]
    BY <1>2, ReadPartIs
  <2> HIDE DEF s
  <2>2. [i \in DOMAIN s |-> ReadPart(s[i])] = [i \in DOMAIN s |-> s[i]]
    BY <2>1
  <2>3. [i \in DOMAIN s |-> s[i]] = s
    BY <1>1
  <2>4. QED
    BY <2>2, <2>3 DEF MapSeq
<1>7. ReadMessage(p, w) = Message(CanonicalRole(w.role), MapSeq(ReadPart, k))
  BY Zenon DEF ReadMessage
<1> HIDE DEF k
<1>8. ReadMessage(p, w) = ReadAs(w)
  BY <1>5, <1>6, <1>7 DEF ReadAs
<1>9. QED
  BY <1>4, <1>8

\* What the decoders read of the messages that the encoders write.
LEMMA ReadsAre ==
  /\ DOMAIN Reads = Protocols
  /\ Reads["anthropic"]["user"] = {"text", "tool_call", "tool_result"}
  /\ Reads["anthropic"]["assistant"] = {"text", "tool_call", "tool_result"}
  /\ DOMAIN Reads["anthropic"] = {"user", "assistant"}
  /\ Reads["responses"]["user"] = {"text"}
  /\ Reads["responses"]["assistant"] = {"text"}
  /\ Reads["responses"]["function_call"] = {"tool_call"}
  /\ Reads["responses"]["function_call_output"] = {"tool_result"}
  /\ Reads["responses"]["system"] = {"text"}
  /\ Reads["responses"]["developer"] = {"text"}
  /\ DOMAIN Reads["responses"] = {"system", "developer", "user", "assistant",
                                  "function_call", "function_call_output"}
  /\ Reads["chat"]["system"] = {"text"}
  /\ Reads["chat"]["developer"] = {"text"}
  /\ Reads["chat"]["user"] = {"text"}
  /\ Reads["chat"]["assistant"] = {"text", "tool_call"}
  /\ Reads["chat"]["tool"] = {"tool_result", "result_parts"}
  /\ DOMAIN Reads["chat"] = {"system", "developer", "user", "assistant", "tool"}
BY DEF Reads, Protocols

\* The messages of a protocol that are read as one of a set.
WrittenAs(p, M) == {w \in Wires : Readable(p, w) /\ ReadAs(w) \in M}
Parts == [w \in Wires |-> w.parts]

\* A function from messages to a protocol's messages, for a decoder to read all
\* of them.
Writes(p, g) ==
  \A m \in Canon :
    IF IsSystem(m.role) THEN g[m] \in Seq(WrittenAs(p, SystemMessages))
    ELSE /\ g[m] \in Seq(WrittenAs(p, CanonOf(m.role)))
         /\ SameSaid(Along(Parts, g[m]), m.content)

\* It is written to be read as canonical messages.
LEMMA WritesCanon ==
  ASSUME NEW p, NEW g, Writes(p, g), NEW m \in Canon
  PROVE  g[m] \in Seq(WrittenAs(p, Canon))
<1>1. CASE IsSystem(m.role)
  <2>1. WrittenAs(p, SystemMessages) \subseteq WrittenAs(p, Canon)
    BY DEF WrittenAs, Canon
  <2>2. g[m] \in Seq(WrittenAs(p, SystemMessages))
    BY <1>1 DEF Writes
  <2>3. QED
    BY <2>1, <2>2, SeqWidens
<1>2. CASE ~IsSystem(m.role)
  <2>1. WrittenAs(p, CanonOf(m.role)) \subseteq WrittenAs(p, Canon)
    BY DEF WrittenAs, CanonOf
  <2>2. g[m] \in Seq(WrittenAs(p, CanonOf(m.role)))
    BY <1>2 DEF Writes
  <2>3. QED
    BY <2>1, <2>2, SeqWidens
<1>3. QED
  BY <1>1, <1>2

\* A decoder reads each of the messages, whole.
LEMMA ReadEach ==
  ASSUME NEW p, NEW M, NEW s \in Seq(WrittenAs(p, M))
  PROVE  /\ [i \in DOMAIN s |-> ReadMessage(p, s[i])]
              = [i \in DOMAIN s |-> ReadAs(s[i])]
         /\ \A i \in DOMAIN s : ~Unreadable(p, s[i])
<1>1. \A i \in DOMAIN s : Readable(p, s[i])
  BY Elements DEF WrittenAs
<1>2. \A i \in DOMAIN s : ReadMessage(p, s[i]) = ReadAs(s[i])
  BY <1>1, ReadWhole
<1>3. \A i \in DOMAIN s : ~Unreadable(p, s[i])
  BY <1>1, ReadWhole
<1>4. [i \in DOMAIN s |-> ReadMessage(p, s[i])]
        = [i \in DOMAIN s |-> ReadAs(s[i])]
  BY <1>2
<1>5. QED
  BY <1>3, <1>4

ReadOne(p) == [w \in WrittenAs(p, Canon) |-> <<ReadAs(w)>>]
Rewritten(p, g) == [m \in Canon |-> Along(ReadOne(p), g[m])]

\* What is read are canonical messages.
LEMMA ReadOneType ==
  ASSUME NEW p
  PROVE  /\ ReadOne(p) \in [WrittenAs(p, Canon) -> Seq(Canon)]
         /\ \A w \in WrittenAs(p, Canon) :
              Parts[w] = Along(Contents, ReadOne(p)[w])
<1>1. ASSUME NEW w \in WrittenAs(p, Canon)
      PROVE  /\ <<ReadAs(w)>> \in Seq(Canon)
             /\ Parts[w] = Along(Contents, <<ReadAs(w)>>)
  <2>1. ReadAs(w) \in Canon /\ w \in Wires
    BY DEF WrittenAs
  <2>2. <<ReadAs(w)>> \in Seq(Canon)
    BY <2>1, OneType
  <2>3. Along(Contents, <<ReadAs(w)>>) = Contents[ReadAs(w)]
    BY <2>1, MessageFunctions, AlongOne
  <2>4. Contents[ReadAs(w)] = w.parts
    BY <2>1 DEF Contents, ReadAs, Message
  <2>5. QED
    BY <2>1, <2>2, <2>3, <2>4 DEF Parts
<1>2. QED
  BY <1>1 DEF ReadOne

\* Its messages hold the parts that are written.
LEMMA RewrittenSays ==
  ASSUME NEW p, NEW g, Writes(p, g), NEW m \in Canon
  PROVE  Along(Contents, Rewritten(p, g)[m]) = Along(Parts, g[m])
<1> DEFINE W == WrittenAs(p, Canon)
           R == ReadOne(p)
<1>1. SeqMap(R, W, Canon)
  BY ReadOneType DEF SeqMap
<1>2. SeqMap(Contents, Canon, ContentSet)
  BY MessageFunctions DEF SeqMap
<1>3. \A w \in W : Parts[w] = Along(Contents, R[w])
  BY ReadOneType
<1>4. g[m] \in Seq(W)
  BY WritesCanon
<1>5. Rewritten(p, g)[m] = Along(R, g[m])
  BY DEF Rewritten
<1> HIDE DEF R, W
<1>6. Along(Contents, Along(R, g[m])) = Along(Parts, g[m])
  BY <1>1, <1>2, <1>3, <1>4, AlongTwice
<1>7. QED
  BY <1>5, <1>6

\* What is written for a decoder is retold by it.
LEMMA RewrittenRetells ==
  ASSUME NEW p, NEW g, Writes(p, g)
  PROVE  Retells(Rewritten(p, g))
<1> DEFINE W == WrittenAs(p, Canon)
           R == ReadOne(p)
           h == Rewritten(p, g)
<1>1. R \in [W -> Seq(Canon)]
  BY ReadOneType
<1>2. ASSUME NEW m \in Canon PROVE h[m] = Along(R, g[m])
  BY DEF Rewritten
<1>3. h \in [Canon -> Seq(Canon)]
  <2>1. ASSUME NEW m \in Canon PROVE Along(R, g[m]) \in Seq(Canon)
    <3>1. g[m] \in Seq(W)
      BY WritesCanon
    <3> HIDE DEF R, W
    <3>2. QED
      BY <1>1, <3>1, AlongType
  <2>2. QED
    BY <2>1 DEF Rewritten
<1>4. ASSUME NEW M, M \subseteq Canon, NEW s \in Seq(WrittenAs(p, M))
      PROVE  Along(R, s) \in Seq(M)
  <2>1. ASSUME NEW w \in WrittenAs(p, M) PROVE R[w] \in Seq(M)
    <3>1. w \in W /\ ReadAs(w) \in M
      BY <1>4 DEF WrittenAs
    <3>2. QED
      BY <3>1, OneType DEF ReadOne
  <2> HIDE DEF R
  <2>2. QED
    BY <2>1, AlongTypeOn
<1>5. ASSUME NEW m \in Canon
      PROVE  Along(Contents, h[m]) = Along(Parts, g[m])
  BY RewrittenSays
<1>6. SystemMessages \subseteq Canon
  BY DEF Canon
<1>7. ASSUME NEW m \in Canon
      PROVE  IF IsSystem(m.role) THEN h[m] \in Seq(SystemMessages)
             ELSE /\ h[m] \in Seq(CanonOf(m.role))
                  /\ SameSaid(Along(Contents, h[m]), m.content)
  <2>0. h[m] = Along(R, g[m]) /\ Along(Contents, h[m]) = Along(Parts, g[m])
    BY <1>2, <1>5
  <2> HIDE DEF R, W, h
  <2>1. CASE IsSystem(m.role)
    <3>1. g[m] \in Seq(WrittenAs(p, SystemMessages))
      BY <2>1 DEF Writes
    <3>2. QED
      BY <1>4, <1>6, <2>0, <2>1, <3>1
  <2>2. CASE ~IsSystem(m.role)
    <3>1. /\ g[m] \in Seq(WrittenAs(p, CanonOf(m.role)))
          /\ SameSaid(Along(Parts, g[m]), m.content)
      BY <2>2 DEF Writes
    <3>2. CanonOf(m.role) \subseteq Canon
      BY DEF CanonOf
    <3>3. Along(R, g[m]) \in Seq(CanonOf(m.role))
      BY <1>4, <3>1, <3>2
    <3>4. QED
      BY <2>0, <2>2, <3>1, <3>3
  <2>3. QED
    BY <2>1, <2>2
<1> HIDE DEF h
<1>8. Retells(h)
  BY <1>3, <1>7 DEF Retells
<1>9. QED
  BY <1>8 DEF h

\* What a protocol's decoder reads of what is written for it.
LEMMA Reread ==
  ASSUME NEW p, NEW g, Writes(p, g), NEW s \in Seq(Canon)
  PROVE  /\ Along(g, s) \in Seq(WrittenAs(p, Canon))
         /\ MapSeq(LAMBDA m : ReadMessage(p, m), Along(g, s))
              = Along(Rewritten(p, g), s)
<1> DEFINE W == WrittenAs(p, Canon)
           u == Along(g, s)
           f == [w \in W |-> ReadAs(w)]
<1>1. u \in Seq(W)
  BY WritesCanon, AlongTypeOn
<1>2. MapSeq(LAMBDA m : ReadMessage(p, m), u)
        = [i \in DOMAIN u |-> ReadAs(u[i])]
  <2>1. [i \in DOMAIN u |-> ReadMessage(p, u[i])]
          = [i \in DOMAIN u |-> ReadAs(u[i])]
    BY <1>1, ReadEach
  <2>2. QED
    BY <2>1 DEF MapSeq
<1>3. [i \in DOMAIN u |-> ReadAs(u[i])] = Each(f, u)
  <2>1. \A i \in DOMAIN u : u[i] \in W
    BY <1>1, Elements
  <2> HIDE DEF u, W
  <2>2. \A i \in DOMAIN u : f[u[i]] = ReadAs(u[i])
    BY <2>1
  <2>3. QED
    BY <2>2 DEF Each
<1>4. FunMap(f, W, Canon)
  BY DEF WrittenAs, FunMap
<1>5. \A w \in W : ReadOne(p)[w] = <<f[w]>>
  BY DEF ReadOne
<1>6. Along(ReadOne(p), u) = Each(f, u)
  <2> HIDE DEF f, W, u
  <2>1. QED
    BY <1>1, <1>4, <1>5, AlongEach
<1> HIDE DEF f
<1>7. Along(ReadOne(p), u) = Along(Rewritten(p, g), s)
  <2> DEFINE G == [m \in Canon |-> g[m]]
  <2>1. SeqMap(G, Canon, W)
    BY WritesCanon DEF SeqMap
  <2>2. SeqMap(ReadOne(p), W, Canon)
    BY ReadOneType DEF SeqMap
  <2>3. \A m \in Canon : G[m] = g[m]
    OBVIOUS
  <2>4. \A m \in Canon : Rewritten(p, g)[m] = Along(ReadOne(p), G[m])
    BY DEF Rewritten
  <2> HIDE DEF G, W
  <2>5. Along(G, s) = Along(g, s)
    BY <2>3, AlongSame
  <2>6. Along(ReadOne(p), Along(G, s)) = Along(Rewritten(p, g), s)
    BY <2>1, <2>2, <2>4, AlongTwice
  <2>7. QED
    BY <2>5, <2>6
<1>8. QED
  BY <1>1, <1>2, <1>3, <1>6, <1>7

-----------------------------------------------------------------------------
(* Contents, by their type.                                                *)

Kept(type) == [c \in ContentSet |-> IF c.type = type THEN <<c>> ELSE <<>>]

\* Contents of a type are kept in order.
LEMMA OfTypeIs ==
  ASSUME NEW s \in Seq(ContentSet), NEW type
  PROVE  OfType(s, type) = Along(Kept(type), s)
<1>1. \A i \in DOMAIN s : s[i] \in ContentSet
  BY Elements
<1>2. [i \in DOMAIN s |-> IF s[i].type = type THEN <<s[i]>> ELSE <<>>]
        = [i \in DOMAIN s |-> Kept(type)[s[i]]]
  BY <1>1 DEF Kept
<1>3. QED
  BY <1>2 DEF OfType, Keep, FlatMap, MapSeq, Along

\* They are texts, calls or results.
LEMMA KeptType ==
  /\ Kept("text") \in [ContentSet -> Seq(TextSet)]
  /\ Kept("tool_call") = CallsOf
  /\ Kept("tool_result") \in [ContentSet -> Seq(ResultSet)]
<1>1. ASSUME NEW c \in ContentSet
      PROVE  (IF c.type = "text" THEN <<c>> ELSE <<>>) \in Seq(TextSet)
  <2>1. CASE c.type = "text"
    BY <2>1, ContentKinds, OneType
  <2>2. CASE c.type # "text"
    BY <2>2
  <2>3. QED
    BY <2>1, <2>2
<1>2. ASSUME NEW c \in ContentSet
      PROVE  (IF c.type = "tool_result" THEN <<c>> ELSE <<>>)
               \in Seq(ResultSet)
  <2>1. CASE c.type = "tool_result"
    BY <2>1, ContentKinds, OneType
  <2>2. CASE c.type # "tool_result"
    BY <2>2
  <2>3. QED
    BY <2>1, <2>2
<1>3. Kept("text") \in [ContentSet -> Seq(TextSet)]
  BY <1>1 DEF Kept
<1>4. Kept("tool_call") = CallsOf
  BY DEF Kept, CallsOf
<1>5. Kept("tool_result") \in [ContentSet -> Seq(ResultSet)]
  BY <1>2 DEF Kept
<1>6. QED
  BY <1>3, <1>4, <1>5

\* Texts, joined.
LEMMA JoinIs ==
  ASSUME NEW s \in Seq(TextSet)
  PROVE  Join(s) = Along(TextsOf, s)
<1>1. \A i \in DOMAIN s : s[i] \in TextSet
  BY Elements
<1>2. \A c \in TextSet : TextsOf[c] = c.text
  BY DEF TextsOf, ContentSet, TextSet
<1>3. [i \in DOMAIN s |-> s[i].text] = [i \in DOMAIN s |-> TextsOf[s[i]]]
  BY <1>1, <1>2
<1>4. QED
  BY <1>3 DEF Join, FlatMap, MapSeq, Along

\* A set of contents and the contents of its type.
LEMMA ContentSubsets ==
  /\ TextSet \subseteq ContentSet /\ CallSet \subseteq ContentSet
  /\ ResultSet \subseteq ContentSet
  /\ \A c \in TextSet : c.type = "text"
  /\ \A c \in CallSet : c.type = "tool_call"
  /\ \A c \in ResultSet : c.type = "tool_result"
BY DEF ContentSet, TextSet, CallSet, ResultSet

\* Only what is kept is counted.
LEMMA KeptTexts ==
  ASSUME NEW s \in Seq(ContentSet)
  PROVE  Along(TextsOf, Along(Kept("text"), s)) = Along(TextsOf, s)
<1>1. SeqMap(Kept("text"), ContentSet, ContentSet)
  <2>1. \A u \in Seq(TextSet) : u \in Seq(ContentSet)
    BY ContentSubsets, SeqWidens
  <2>2. QED
    BY <2>1, KeptType DEF SeqMap
<1>2. SeqMap(TextsOf, ContentSet, Nat)
  BY ContentFunctions DEF SeqMap
<1>3. ASSUME NEW c \in ContentSet
      PROVE  TextsOf[c] = Along(TextsOf, Kept("text")[c])
  <2>1. CASE c.type = "text"
    <3>1. Along(TextsOf, <<c>>) = TextsOf[c]
      BY ContentFunctions, AlongOne
    <3>2. QED
      BY <2>1, <3>1 DEF Kept
  <2>2. CASE c.type # "text"
    BY <2>2, AlongEmpty DEF Kept, TextsOf
  <2>3. QED
    BY <2>1, <2>2
<1>4. \A c \in ContentSet : TextsOf[c] = Along(TextsOf, Kept("text")[c])
  BY <1>3
<1>5. QED
  BY <1>1, <1>2, <1>4, AlongTwice

\* The text of contents.
LEMMA ContentTextIs ==
  ASSUME NEW s \in Seq(ContentSet)
  PROVE  ContentText(s) = Along(TextsOf, s)
<1> DEFINE t == Along(Kept("text"), s)
<1>1. t \in Seq(TextSet)
  BY KeptType, AlongType
<1>2. OfType(s, "text") = t
  BY OfTypeIs
<1>3. ContentText(s) = Join(t)
  BY <1>2 DEF ContentText, TextOf
<1>4. Along(TextsOf, t) = Along(TextsOf, s)
  BY KeptTexts
<1> HIDE DEF t
<1>5. QED
  BY <1>1, <1>3, <1>4, JoinIs

\* Texts hold no calls or results.
LEMMA OnlyTexts ==
  ASSUME NEW s \in Seq(TextSet)
  PROVE  Along(CallsOf, s) = <<>> /\ Along(ResultsOf, s) = <<>>
<1>1. \A c \in TextSet : CallsOf[c] = <<>> /\ ResultsOf[c] = <<>>
  BY ContentSubsets DEF CallsOf, ResultsOf
<1>2. Along(CallsOf, s) = <<>>
  BY <1>1, AlongNothing
<1>3. Along(ResultsOf, s) = <<>>
  BY <1>1, AlongNothing
<1>4. QED
  BY <1>2, <1>3

\* Calls hold no text or results.
LEMMA OnlyCalls ==
  ASSUME NEW s \in Seq(CallSet)
  PROVE  /\ Along(TextsOf, s) = <<>> /\ Along(ResultsOf, s) = <<>>
         /\ Along(CallsOf, s) = s
<1>1. \A c \in CallSet : TextsOf[c] = <<>> /\ ResultsOf[c] = <<>>
  BY ContentSubsets DEF TextsOf, ResultsOf
<1>2. Along(TextsOf, s) = <<>>
  BY <1>1, AlongNothing
<1>3. Along(ResultsOf, s) = <<>>
  BY <1>1, AlongNothing
<1>4. \A c \in CallSet : CallsOf[c] = <<c>>
  BY ContentSubsets DEF CallsOf
<1>5. Along(CallsOf, s) = s
  BY <1>4, AlongItself
<1>6. QED
  BY <1>2, <1>3, <1>5

\* Results hold no text or calls.
LEMMA OnlyResults ==
  ASSUME NEW s \in Seq(ResultSet)
  PROVE  Along(TextsOf, s) = <<>> /\ Along(CallsOf, s) = <<>>
<1>1. \A c \in ResultSet : TextsOf[c] = <<>> /\ CallsOf[c] = <<>>
  BY ContentSubsets DEF CallsOf, TextsOf
<1>2. Along(CallsOf, s) = <<>>
  BY <1>1, AlongNothing
<1>3. Along(TextsOf, s) = <<>>
  BY <1>1, AlongNothing
<1>4. QED
  BY <1>2, <1>3

\* Results are the same once they are quiet.
LEMMA QuietResults ==
  ASSUME NEW s \in Seq(ContentSet)
  PROVE  Along(ResultsOf, Along(ResultsOf, s)) = Along(ResultsOf, s)
<1>1. SeqMap(ResultsOf, ContentSet, ContentSet)
  <2>1. \A u \in Seq(ResultSet) : u \in Seq(ContentSet)
    BY ContentSubsets, SeqWidens
  <2>2. QED
    BY <2>1, ContentFunctions DEF SeqMap
<1>2. SeqMap(ResultsOf, ContentSet, ResultSet)
  BY ContentFunctions DEF SeqMap
<1>3. ASSUME NEW c \in ContentSet
      PROVE  ResultsOf[c] = Along(ResultsOf, ResultsOf[c])
  <2>1. CASE c.type = "tool_result"
    <3> DEFINE q == Quiet(c)
    <3>1. q \in ResultSet
      BY <2>1, ContentKinds, QuietType
    <3>2. ResultsOf[c] = <<q>>
      BY <2>1 DEF ResultsOf
    <3>3. Quiet(q) = q
      BY <2>1, ContentKinds, QuietTwice
    <3> HIDE DEF q
    <3>4. Along(ResultsOf, <<q>>) = ResultsOf[q]
      <4>1. q \in ContentSet
        BY <3>1, ContentSubsets
      <4>2. ResultsOf \in [ContentSet -> Seq(ResultSet)]
        BY ContentFunctions
      <4>3. QED
        BY <4>1, <4>2, AlongOne
    <3>5. ResultsOf[q] = <<q>>
      BY <3>1, <3>3, ContentSubsets DEF ResultsOf
    <3>6. QED
      BY <3>2, <3>4, <3>5
  <2>2. CASE c.type # "tool_result"
    BY <2>2, AlongEmpty DEF ResultsOf
  <2>3. QED
    BY <2>1, <2>2
<1>4. \A c \in ContentSet : ResultsOf[c] = Along(ResultsOf, ResultsOf[c])
  BY <1>3
<1>5. QED
  BY <1>1, <1>2, <1>4, AlongTwice

\* What contents say together.
LEMMA SaidJoined ==
  ASSUME NEW s \in Seq(ContentSet), NEW t \in Seq(ContentSet)
  PROVE  /\ Cat(s, t) \in Seq(ContentSet)
         /\ Along(TextsOf, Cat(s, t))
              = Cat(Along(TextsOf, s), Along(TextsOf, t))
         /\ Along(CallsOf, Cat(s, t))
              = Cat(Along(CallsOf, s), Along(CallsOf, t))
         /\ Along(ResultsOf, Cat(s, t))
              = Cat(Along(ResultsOf, s), Along(ResultsOf, t))
<1>1. Cat(s, t) \in Seq(ContentSet)
  BY CatType
<1>2. Along(TextsOf, Cat(s, t)) = Cat(Along(TextsOf, s), Along(TextsOf, t))
  <2>1. SeqMap(TextsOf, ContentSet, Nat)
    BY ContentFunctions DEF SeqMap
  <2>2. QED
    BY <2>1, AlongHalves
<1>3. Along(CallsOf, Cat(s, t)) = Cat(Along(CallsOf, s), Along(CallsOf, t))
  <2>1. SeqMap(CallsOf, ContentSet, CallSet)
    BY ContentFunctions DEF SeqMap
  <2>2. QED
    BY <2>1, AlongHalves
<1>4. Along(ResultsOf, Cat(s, t))
        = Cat(Along(ResultsOf, s), Along(ResultsOf, t))
  <2>1. SeqMap(ResultsOf, ContentSet, ResultSet)
    BY ContentFunctions DEF SeqMap
  <2>2. QED
    BY <2>1, AlongHalves
<1>5. QED
  BY <1>1, <1>2, <1>3, <1>4

\* Results, then texts, then calls.
LEMMA Sorted ==
  ASSUME NEW s \in Seq(ContentSet), NEW x \in Seq(TextSet),
         Along(TextsOf, x) = Along(TextsOf, s)
  PROVE  SameSaid(Cat(Along(ResultsOf, s), Cat(x, Along(CallsOf, s))), s)
<1> DEFINE rs == Along(ResultsOf, s)
           cs == Along(CallsOf, s)
           t == Cat(x, cs)
<1>1. rs \in Seq(ResultSet) /\ cs \in Seq(CallSet)
  BY SpeechTypes
<1>2. rs \in Seq(ContentSet) /\ cs \in Seq(ContentSet) /\ x \in Seq(ContentSet)
  <2>1. rs \in Seq(ContentSet)
    BY <1>1, ContentSubsets, SeqWidens
  <2>2. cs \in Seq(ContentSet)
    BY <1>1, ContentSubsets, SeqWidens
  <2>3. x \in Seq(ContentSet)
    BY ContentSubsets, SeqWidens
  <2>4. QED
    BY <2>1, <2>2, <2>3
<1>3. Along(ResultsOf, rs) = rs
  BY QuietResults
<1>4. Along(TextsOf, s) \in Seq(Nat)
  BY SpeechTypes
<1> HIDE DEF rs, cs
<1>5. /\ t \in Seq(ContentSet)
      /\ Along(TextsOf, t) = Cat(Along(TextsOf, x), Along(TextsOf, cs))
      /\ Along(CallsOf, t) = Cat(Along(CallsOf, x), Along(CallsOf, cs))
      /\ Along(ResultsOf, t) = Cat(Along(ResultsOf, x), Along(ResultsOf, cs))
  BY <1>2, SaidJoined
<1> HIDE DEF t
<1>6. /\ Along(TextsOf, Cat(rs, t)) = Cat(Along(TextsOf, rs), Along(TextsOf, t))
      /\ Along(CallsOf, Cat(rs, t)) = Cat(Along(CallsOf, rs), Along(CallsOf, t))
      /\ Along(ResultsOf, Cat(rs, t))
           = Cat(Along(ResultsOf, rs), Along(ResultsOf, t))
  BY <1>2, <1>5, SaidJoined
<1>7. Along(TextsOf, rs) = <<>> /\ Along(CallsOf, rs) = <<>>
  BY <1>1, OnlyResults
<1>8. /\ Along(TextsOf, cs) = <<>> /\ Along(ResultsOf, cs) = <<>>
      /\ Along(CallsOf, cs) = cs
  BY <1>1, OnlyCalls
<1>9. Along(CallsOf, x) = <<>> /\ Along(ResultsOf, x) = <<>>
  BY OnlyTexts
<1>10. Along(TextsOf, Cat(rs, t)) = Along(TextsOf, s)
  <2>1. Along(TextsOf, t) = Along(TextsOf, s)
    BY <1>4, <1>5, <1>8, CatEmpty
  <2>2. Along(TextsOf, Cat(rs, t)) = Cat(<<>>, Along(TextsOf, s))
    BY <1>6, <1>7, <2>1
  <2>3. QED
    BY <1>4, <2>2, CatEmpty
<1>11. Along(CallsOf, Cat(rs, t)) = cs
  <2>1. Along(CallsOf, t) = Cat(<<>>, cs)
    BY <1>5, <1>8, <1>9
  <2>2. Along(CallsOf, t) = cs
    BY <1>1, <2>1, CatEmpty
  <2>3. Along(CallsOf, Cat(rs, t)) = Cat(<<>>, cs)
    BY <1>6, <1>7, <2>2
  <2>4. QED
    BY <1>1, <2>3, CatEmpty
<1>12. Along(ResultsOf, Cat(rs, t)) = rs
  <2>1. Along(ResultsOf, t) = Cat(<<>>, <<>>)
    BY <1>5, <1>8, <1>9
  <2>2. Cat(<<>>, <<>>) = <<>>
    BY <1>4, CatEmpty, <<>> \in Seq(Nat)
  <2>3. Along(ResultsOf, Cat(rs, t)) = Cat(rs, <<>>)
    BY <1>3, <1>6, <2>1, <2>2
  <2>4. QED
    BY <1>1, <2>3, CatEmpty
<1>13. QED
  BY <1>10, <1>11, <1>12 DEF SameSaid, rs, cs, t

-----------------------------------------------------------------------------
(* Chat.                                                                   *)

ToolMessages == [c \in ResultSet |-> <<WireMessage("tool", <<Quiet(c)>>)>>]
ToolPart(m) == Along(ToolMessages, Along(Kept("tool_result"), m.content))
ChatRole(m) == IF m.role = "developer" THEN "system" ELSE m.role
ChatText(m) ==
  IF Along(TextsOf, m.content) = <<>> /\ Along(CallsOf, m.content) # <<>>
  THEN <<>> ELSE <<Text(Along(TextsOf, m.content))>>
ChatSpeaks(m) ==
  \/ Along(TextsOf, m.content) # <<>> \/ Along(CallsOf, m.content) # <<>>
  \/ m.content = <<>>
ChatPart(m) ==
  IF ChatSpeaks(m)
  THEN <<WireMessage(ChatRole(m), Cat(ChatText(m), Along(CallsOf, m.content)))>>
  ELSE <<>>

\* The messages of a message in chat.
LEMMA ChatMessagesIs ==
  ASSUME NEW m \in Canon
  PROVE  ChatMessages(m) = Cat(ToolPart(m), ChatPart(m))
<1> DEFINE s == m.content
           rr == OfType(s, "tool_result")
           w == MapSeq(LAMBDA c : WireMessage("tool", <<Quiet(c)>>), rr)
<1>1. s \in Seq(ContentSet)
  BY CanonContent
<1>2. ContentText(s) = Along(TextsOf, s)
  BY <1>1, ContentTextIs
<1>3. OfType(s, "tool_call") = Along(CallsOf, s)
  BY <1>1, OfTypeIs, KeptType
<1>4. rr = Along(Kept("tool_result"), s)
  BY <1>1, OfTypeIs
<1>5. rr \in Seq(ResultSet)
  <2> HIDE DEF s
  <2>1. Along(Kept("tool_result"), s) \in Seq(ResultSet)
    BY <1>1, KeptType, AlongType
  <2>2. QED
    BY <1>4, <2>1
<1>6. w = Along(ToolMessages, rr)
  <2> DEFINE f == [c \in ResultSet |-> WireMessage("tool", <<Quiet(c)>>)]
             Q == {f[c] : c \in ResultSet}
  <2>1. FunMap(f, ResultSet, Q)
    BY DEF FunMap
  <2>2. \A c \in ResultSet : ToolMessages[c] = <<f[c]>>
    BY DEF ToolMessages
  <2>3. \A i \in DOMAIN rr : rr[i] \in ResultSet
    BY <1>5, Elements
  <2>4. w = Each(f, rr)
    <3> HIDE DEF rr
    <3>1. QED
      BY <2>3 DEF MapSeq, Each
  <2> HIDE DEF f, Q, rr
  <2>5. Along(ToolMessages, rr) = Each(f, rr)
    BY <1>5, <2>1, <2>2, AlongEach
  <2>6. QED
    BY <2>4, <2>5
<1>7. ChatMessages(m) = w \o ChatPart(m)
  BY <1>2, <1>3
     DEF ChatMessages, ChatPart, ChatSpeaks, ChatText, ChatRole, Cat
<1>8. QED
  BY <1>4, <1>6, <1>7 DEF Cat, ToolPart

\* A message whose parts are of types that its role may hold can be read.
LEMMA ReadableAs ==
  ASSUME NEW p, NEW r \in WireRoles, r \in DOMAIN Reads[p],
         NEW K, K \subseteq ContentSet, \A c \in K : c.type \in Reads[p][r],
         NEW s \in Seq(K), NEW M, Message(CanonicalRole(r), s) \in M
  PROVE  WireMessage(r, s) \in WrittenAs(p, M)
<1> DEFINE w == WireMessage(r, s)
<1>1. s \in Seq(ContentSet)
  BY SeqWidens
<1>2. \A i \in DOMAIN s : s[i].type \in Reads[p][r]
  BY Elements
<1>3. w.role = r /\ w.parts = s /\ w \in Wires
  BY <1>1 DEF WireMessage, Wires
<1>4. Readable(p, w)
  BY <1>1, <1>2, <1>3 DEF Readable
<1>5. ReadAs(w) \in M
  BY <1>3 DEF ReadAs
<1>6. QED
  BY <1>3, <1>4, <1>5 DEF WrittenAs

\* A canonical message.
LEMMA CanonMessage ==
  /\ \A s \in Seq(TextSet), r \in {"system", "developer"} :
       Message(r, s) \in SystemMessages
  /\ \A s \in Seq(TextSet \cup ResultSet) :
       Message("user", s) \in CanonOf("user")
  /\ \A s \in Seq(TextSet \cup CallSet) :
       Message("assistant", s) \in CanonOf("assistant")
BY DEF Message, SystemMessages, UserMessages, AssistantMessages, Canon, CanonOf

\* A tool's answer in chat is read as the user's.
LEMMA ToolMessageRead ==
  ASSUME NEW c \in ResultSet
  PROVE  /\ ToolMessages[c] \in Seq(WrittenAs("chat", CanonOf("user")))
         /\ Along(Parts, ToolMessages[c]) = <<Quiet(c)>>
<1> DEFINE s == <<Quiet(c)>>
           w == WireMessage("tool", s)
<1>1. Quiet(c) \in ResultSet
  BY QuietType
<1>2. s \in Seq(ResultSet)
  BY <1>1, OneType
<1>3. s \in Seq(TextSet \cup ResultSet)
  <2>1. ResultSet \subseteq TextSet \cup ResultSet
    OBVIOUS
  <2> HIDE DEF s
  <2>2. QED
    BY <1>2, <2>1, SeqWidens
<1> HIDE DEF s
<1>4. Message(CanonicalRole("tool"), s) \in CanonOf("user")
  BY <1>3, CanonMessage DEF CanonicalRole
<1>5. w \in WrittenAs("chat", CanonOf("user"))
  <2>1. "tool" \in WireRoles
    BY DEF WireRoles
  <2>2. "tool" \in DOMAIN Reads["chat"]
    BY ReadsAre
  <2>3. \A x \in ResultSet : x.type \in Reads["chat"]["tool"]
    BY ReadsAre, ContentSubsets
  <2>4. ResultSet \subseteq ContentSet
    BY ContentSubsets
  <2>5. QED
    BY <1>2, <1>4, <2>1, <2>2, <2>3, <2>4, ReadableAs
<1>6. ToolMessages[c] = <<w>>
  BY DEF ToolMessages, s
<1>7. w \in Wires /\ Parts[w] = s
  BY <1>5 DEF WrittenAs, Parts, WireMessage
<1> HIDE DEF w
<1>8. Along(Parts, <<w>>) = Parts[w]
  <2>1. Parts \in [Wires -> Seq(ContentSet)]
    BY DEF Parts, Wires
  <2>2. QED
    BY <1>7, <2>1, AlongOne
<1>9. <<w>> \in Seq(WrittenAs("chat", CanonOf("user")))
  BY <1>5, OneType
<1>10. QED
  BY <1>6, <1>7, <1>8, <1>9 DEF s

\* The tools' answers of a message, in chat.
LEMMA ToolPartSays ==
  ASSUME NEW m \in Canon
  PROVE  /\ ToolPart(m) \in Seq(WrittenAs("chat", CanonOf("user")))
         /\ Along(Parts, ToolPart(m)) = Along(ResultsOf, m.content)
<1> DEFINE s == m.content
           rr == Along(Kept("tool_result"), s)
           W == WrittenAs("chat", CanonOf("user"))
           q == [c \in ResultSet |-> <<Quiet(c)>>]
<1>1. s \in Seq(ContentSet)
  BY CanonContent
<1> HIDE DEF s
<1>2. rr \in Seq(ResultSet)
  BY <1>1, KeptType, AlongType
<1>3. ToolPart(m) = Along(ToolMessages, rr)
  BY DEF ToolPart, s
<1> HIDE DEF rr
<1>4. Along(ToolMessages, rr) \in Seq(W)
  <2>1. \A c \in ResultSet : ToolMessages[c] \in Seq(W)
    BY ToolMessageRead
  <2> HIDE DEF W
  <2>2. QED
    BY <1>2, <2>1, AlongTypeOn
<1>5. Along(Parts, Along(ToolMessages, rr)) = Along(q, rr)
  <2>1. SeqMap(Parts, Wires, ContentSet)
    BY DEF SeqMap, Parts, Wires
  <2>2. SeqMap(ToolMessages, ResultSet, Wires)
    <3>1. W \subseteq Wires
      BY DEF WrittenAs
    <3>2. \A c \in ResultSet : ToolMessages[c] \in Seq(Wires)
      BY <3>1, ToolMessageRead, SeqWidens
    <3>3. QED
      BY <3>2 DEF SeqMap, ToolMessages
  <2>3. \A c \in ResultSet : q[c] = Along(Parts, ToolMessages[c])
    BY ToolMessageRead
  <2> HIDE DEF q
  <2>4. QED
    BY <1>2, <2>1, <2>2, <2>3, AlongTwice
<1>6. Along(q, Along(Kept("tool_result"), s)) = Along(ResultsOf, s)
  <2>1. SeqMap(q, ResultSet, ResultSet)
    <3>1. \A c \in ResultSet : <<Quiet(c)>> \in Seq(ResultSet)
      BY QuietType, OneType
    <3>2. QED
      BY <3>1 DEF SeqMap
  <2>2. SeqMap(Kept("tool_result"), ContentSet, ResultSet)
    BY KeptType DEF SeqMap
  <2>3. ASSUME NEW c \in ContentSet
        PROVE  ResultsOf[c] = Along(q, Kept("tool_result")[c])
    <3>1. CASE c.type = "tool_result"
      <4>1. c \in ResultSet
        BY <3>1, ContentKinds
      <4>2. Kept("tool_result")[c] = <<c>> /\ ResultsOf[c] = <<Quiet(c)>>
        BY <3>1 DEF Kept, ResultsOf
      <4>3. q[c] = <<Quiet(c)>>
        BY <4>1
      <4>4. q \in [ResultSet -> Seq(ResultSet)]
        BY <2>1 DEF SeqMap
      <4> HIDE DEF q
      <4>5. Along(q, <<c>>) = q[c]
        BY <4>1, <4>4, AlongOne
      <4>6. QED
        BY <4>2, <4>3, <4>5
    <3>2. CASE c.type # "tool_result"
      <4>1. Kept("tool_result")[c] = <<>> /\ ResultsOf[c] = <<>>
        BY <3>2 DEF Kept, ResultsOf
      <4>2. QED
        BY <4>1, AlongEmpty
    <3>3. QED
      BY <3>1, <3>2
  <2>4. \A c \in ContentSet : ResultsOf[c] = Along(q, Kept("tool_result")[c])
    BY <2>3
  <2> HIDE DEF q
  <2>5. QED
    BY <1>1, <2>1, <2>2, <2>4, AlongTwice
<1>7. QED
  BY <1>3, <1>4, <1>5, <1>6 DEF rr, s

\* A text of chunks.
LEMMA TextType ==
  ASSUME NEW x \in Seq(Nat)
  PROVE  /\ Text(x) \in TextSet /\ TextsOf[Text(x)] = x
         /\ <<Text(x)>> \in Seq(TextSet)
         /\ Along(TextsOf, <<Text(x)>>) = x
<1>1. Text(x) \in TextSet
  BY DEF Text, RequestContent, TextSet
<1>2. Text(x) \in ContentSet
  BY <1>1, ContentSubsets
<1>3. TextsOf[Text(x)] = x
  BY <1>2 DEF TextsOf, Text, RequestContent
<1>4. Along(TextsOf, <<Text(x)>>) = TextsOf[Text(x)]
  BY <1>2, ContentFunctions, AlongOne
<1>5. QED
  BY <1>1, <1>3, <1>4, OneType

\* No calls but the assistant's, no results but the user's.
LEMMA WhoseContents ==
  ASSUME NEW m \in Canon
  PROVE  /\ m.role # "assistant" => Along(CallsOf, m.content) = <<>>
         /\ m.role # "user" => Along(Kept("tool_result"), m.content) = <<>>
<1>1. ASSUME NEW s \in Seq(TextSet \cup ResultSet)
      PROVE  Along(CallsOf, s) = <<>>
  <2>1. \A c \in TextSet \cup ResultSet : CallsOf[c] = <<>>
    BY ContentSubsets DEF CallsOf
  <2>2. QED
    BY <2>1, AlongNothing
<1>2. ASSUME NEW s \in Seq(TextSet \cup CallSet)
      PROVE  Along(Kept("tool_result"), s) = <<>>
  <2>1. \A c \in TextSet \cup CallSet : Kept("tool_result")[c] = <<>>
    BY ContentSubsets DEF Kept
  <2>2. QED
    BY <2>1, AlongNothing
<1>3. CASE m \in SystemMessages
  <2>1. m.content \in Seq(TextSet)
    BY <1>3, CanonKinds
  <2>2. m.content \in Seq(TextSet \cup ResultSet)
    BY <2>1, SeqWidens, TextSet \subseteq TextSet \cup ResultSet
  <2>3. m.content \in Seq(TextSet \cup CallSet)
    BY <2>1, SeqWidens, TextSet \subseteq TextSet \cup CallSet
  <2>4. QED
    BY <1>1, <1>2, <2>2, <2>3
<1>4. CASE m.role = "user"
  BY <1>1, <1>4, CanonKinds
<1>5. CASE m.role = "assistant"
  BY <1>2, <1>5, CanonKinds
<1>6. QED
  BY <1>3, <1>4, <1>5, CanonKinds DEF IsSystem

\* The rest of a message, in chat: its text, and its calls.
LEMMA ChatPartSays ==
  ASSUME NEW m \in Canon
  PROVE  \E x \in Seq(TextSet) :
           /\ Along(TextsOf, x) = Along(TextsOf, m.content)
           /\ Along(Parts, ChatPart(m)) = Cat(x, Along(CallsOf, m.content))
<1> DEFINE s == m.content
           text == Along(TextsOf, s)
           cs == Along(CallsOf, s)
           x == ChatText(m)
<1>1. s \in Seq(ContentSet)
  BY CanonContent
<1>2. text \in Seq(Nat) /\ cs \in Seq(CallSet)
  BY <1>1, SpeechTypes
<1>3. <<>> \in Seq(TextSet) /\ Along(TextsOf, <<>>) = <<>>
  BY AlongEmpty
<1>4. x \in Seq(TextSet) /\ Along(TextsOf, x) = text
  <2>1. CASE text = <<>> /\ cs # <<>>
    BY <1>3, <2>1 DEF ChatText
  <2>2. CASE ~(text = <<>> /\ cs # <<>>)
    <3>1. x = <<Text(text)>>
      BY <2>2 DEF ChatText
    <3> HIDE DEF x, text
    <3>2. QED
      BY <1>2, <3>1, TextType
  <2>3. QED
    BY <2>1, <2>2
<1>5. CASE ChatSpeaks(m)
  <2> DEFINE w == WireMessage(ChatRole(m), Cat(x, cs))
  <2>1. ChatPart(m) = <<w>>
    BY <1>5 DEF ChatPart
  <2>2. Cat(x, cs) \in Seq(ContentSet)
    <3>1. x \in Seq(ContentSet)
      BY <1>4, ContentSubsets, SeqWidens
    <3>2. cs \in Seq(ContentSet)
      BY <1>2, ContentSubsets, SeqWidens
    <3>3. QED
      BY <3>1, <3>2, CatType
  <2>3. ChatRole(m) \in WireRoles
    BY CanonKinds DEF ChatRole, WireRoles
  <2> HIDE DEF x, cs
  <2>4. w \in Wires /\ Parts[w] = Cat(x, cs)
    BY <2>2, <2>3 DEF WireMessage, Wires, Parts
  <2>5. Along(Parts, <<w>>) = Parts[w]
    <3>1. Parts \in [Wires -> Seq(ContentSet)]
      BY DEF Parts, Wires
    <3> HIDE DEF w
    <3>2. QED
      BY <2>4, <3>1, AlongOne
  <2>6. QED
    BY <1>4, <2>1, <2>4, <2>5 DEF cs
<1>6. CASE ~ChatSpeaks(m)
  <2>1. text = <<>> /\ cs = <<>>
    BY <1>6 DEF ChatSpeaks
  <2>2. ChatPart(m) = <<>>
    BY <1>6 DEF ChatPart
  <2>3. Along(Parts, <<>>) = <<>>
    BY AlongEmpty
  <2>4. Cat(<<>>, <<>>) = <<>>
    BY <1>3, CatEmpty
  <2>5. QED
    BY <1>3, <2>1, <2>2, <2>3, <2>4
<1>7. QED
  BY <1>5, <1>6

\* It can be read.
LEMMA ChatPartRead ==
  ASSUME NEW m \in Canon
  PROVE  IF IsSystem(m.role)
         THEN ChatPart(m) \in Seq(WrittenAs("chat", SystemMessages))
         ELSE ChatPart(m) \in Seq(WrittenAs("chat", CanonOf(m.role)))
<1> DEFINE s == m.content
           text == Along(TextsOf, s)
           cs == Along(CallsOf, s)
           x == ChatText(m)
           y == Cat(x, cs)
           M == IF IsSystem(m.role) THEN SystemMessages ELSE CanonOf(m.role)
<1>1. text \in Seq(Nat) /\ cs \in Seq(CallSet)
  BY CanonContent, SpeechTypes
<1>2. x \in Seq(TextSet)
  <2>1. <<>> \in Seq(TextSet)
    OBVIOUS
  <2>2. <<Text(text)>> \in Seq(TextSet)
    <3> HIDE DEF text
    <3>1. QED
      BY <1>1, TextType
  <2>3. QED
    BY <2>1, <2>2 DEF ChatText
<1>3. m.role # "assistant" => y = x
  <2>1. m.role # "assistant" => cs = <<>>
    BY WhoseContents
  <2>2. Cat(x, <<>>) = x
    BY <1>2, CatEmpty
  <2>3. QED
    BY <2>1, <2>2
<1>4. /\ "system" \in WireRoles /\ "user" \in WireRoles
      /\ "assistant" \in WireRoles
  BY DEF WireRoles
<1>5. /\ "system" \in DOMAIN Reads["chat"] /\ "user" \in DOMAIN Reads["chat"]
      /\ "assistant" \in DOMAIN Reads["chat"]
  BY ReadsAre
<1>6. /\ TextSet \subseteq ContentSet
      /\ TextSet \cup CallSet \subseteq ContentSet
      /\ \A c \in TextSet : c.type \in Reads["chat"]["system"]
      /\ \A c \in TextSet : c.type \in Reads["chat"]["user"]
      /\ \A c \in TextSet \cup CallSet : c.type \in Reads["chat"]["assistant"]
  BY ContentSubsets, ReadsAre
<1>7. /\ CanonicalRole("system") = "system" /\ CanonicalRole("user") = "user"
      /\ CanonicalRole("assistant") = "assistant"
  BY DEF CanonicalRole
<1> HIDE DEF x, text, cs
<1>8. WireMessage(ChatRole(m), y) \in WrittenAs("chat", M)
  <2>1. CASE IsSystem(m.role)
    <3>1. ChatRole(m) = "system" /\ m.role # "assistant"
      BY <2>1 DEF ChatRole, IsSystem
    <3>2. Message("system", x) \in SystemMessages
      BY <1>2, CanonMessage
    <3>3. WireMessage("system", x) \in WrittenAs("chat", SystemMessages)
      BY <1>2, <1>4, <1>5, <1>6, <1>7, <3>2, ReadableAs
    <3>4. QED
      BY <1>3, <2>1, <3>1, <3>3
  <2>2. CASE m.role = "user"
    <3>1. ChatRole(m) = "user" /\ ~IsSystem(m.role)
      BY <2>2 DEF ChatRole, IsSystem
    <3>2. x \in Seq(TextSet \cup ResultSet)
      BY <1>2, SeqWidens, TextSet \subseteq TextSet \cup ResultSet
    <3>3. Message("user", x) \in CanonOf("user")
      BY <3>2, CanonMessage
    <3>4. WireMessage("user", x) \in WrittenAs("chat", CanonOf("user"))
      BY <1>2, <1>4, <1>5, <1>6, <1>7, <3>3, ReadableAs
    <3>5. QED
      BY <1>3, <2>2, <3>1, <3>4
  <2>3. CASE m.role = "assistant"
    <3>1. ChatRole(m) = "assistant" /\ ~IsSystem(m.role)
      BY <2>3 DEF ChatRole, IsSystem
    <3>2. x \in Seq(TextSet \cup CallSet)
      BY <1>2, SeqWidens, TextSet \subseteq TextSet \cup CallSet
    <3>3. cs \in Seq(TextSet \cup CallSet)
      BY <1>1, SeqWidens, CallSet \subseteq TextSet \cup CallSet
    <3>4. y \in Seq(TextSet \cup CallSet)
      BY <3>2, <3>3, CatType
    <3> HIDE DEF y
    <3>5. Message("assistant", y) \in CanonOf("assistant")
      BY <3>4, CanonMessage
    <3>6. WireMessage("assistant", y)
            \in WrittenAs("chat", CanonOf("assistant"))
      BY <1>4, <1>5, <1>6, <1>7, <3>4, <3>5, ReadableAs
    <3>7. QED
      BY <2>3, <3>1, <3>6
  <2>4. QED
    BY <2>1, <2>2, <2>3, CanonKinds DEF IsSystem
<1>9. ChatPart(m) \in Seq(WrittenAs("chat", M))
  <2>1. ChatPart(m) = <<>> \/ ChatPart(m) = <<WireMessage(ChatRole(m), y)>>
    BY DEF ChatPart, x, cs
  <2> HIDE DEF y, M
  <2>2. QED
    BY <1>8, <2>1, OneType
<1>10. QED
  BY <1>9

\* A function that writes for a decoder the system's messages, too.
LEMMA SystemRetold ==
  ASSUME NEW p, NEW g, Writes(p, g),
         \A m \in Canon : SameSaid(Along(Parts, g[m]), m.content),
         NEW s \in Seq(Canon)
  PROVE  Along(SystemSaid, Along(Rewritten(p, g), s)) = Along(SystemSaid, s)
<1> DEFINE h == Rewritten(p, g)
<1>1. Retells(h)
  BY RewrittenRetells
<1>2. ASSUME NEW u \in Seq(SystemMessages)
      PROVE  Along(SystemSaid, u) = Along(TextsOf, Along(Contents, u))
  <2> DEFINE f == [n \in SystemMessages |-> n.content]
  <2>1. SeqMap(f, SystemMessages, ContentSet)
    <3>1. \A n \in SystemMessages : n.content \in Seq(ContentSet)
      BY CanonContent DEF Canon
    <3>2. QED
      BY <3>1 DEF SeqMap
  <2>2. SeqMap(TextsOf, ContentSet, Nat)
    BY ContentFunctions DEF SeqMap
  <2>3. \A n \in SystemMessages : n \in Canon /\ IsSystem(n.role)
    BY CanonKinds DEF Canon
  <2>4. \A n \in SystemMessages : f[n] = Contents[n]
    BY <2>3 DEF Contents
  <2>5. \A n \in SystemMessages : SystemSaid[n] = Along(TextsOf, f[n])
    BY <2>3 DEF SystemSaid
  <2> HIDE DEF f
  <2>6. Along(TextsOf, Along(f, u)) = Along(SystemSaid, u)
    BY <2>1, <2>2, <2>5, AlongTwice
  <2>7. Along(f, u) = Along(Contents, u)
    BY <2>4, AlongSame
  <2>8. QED
    BY <2>6, <2>7
<1>3. ASSUME NEW m \in Canon PROVE SystemSaid[m] = Along(SystemSaid, h[m])
  <2>1. CASE IsSystem(m.role)
    <3>1. h[m] \in Seq(SystemMessages)
      BY <1>1, <2>1 DEF Retells
    <3>2. Along(Contents, h[m]) = Along(Parts, g[m])
      BY RewrittenSays
    <3>3. SameSaid(Along(Parts, g[m]), m.content)
      OBVIOUS
    <3> HIDE DEF h
    <3>4. Along(SystemSaid, h[m]) = Along(TextsOf, Along(Contents, h[m]))
      BY <1>2, <3>1
    <3>5. QED
      BY <2>1, <3>2, <3>3, <3>4 DEF SystemSaid, SameSaid
  <2>2. CASE ~IsSystem(m.role)
    <3>1. h[m] \in Seq(CanonOf(m.role))
      BY <1>1, <2>2 DEF Retells
    <3>2. \A n \in CanonOf(m.role) : SystemSaid[n] = <<>>
      BY <2>2 DEF CanonOf, SystemSaid
    <3> HIDE DEF h
    <3>3. Along(SystemSaid, h[m]) = <<>>
      BY <3>1, <3>2, AlongNothing
    <3>4. QED
      BY <2>2, <3>3 DEF SystemSaid
  <2>3. QED
    BY <2>1, <2>2
<1>4. SeqMap(h, Canon, Canon)
  BY <1>1 DEF Retells, SeqMap
<1>5. SeqMap(SystemSaid, Canon, Nat)
  BY MessageFunctions DEF SeqMap
<1>6. \A m \in Canon : SystemSaid[m] = Along(SystemSaid, h[m])
  BY <1>3
<1> HIDE DEF h
<1>7. Along(SystemSaid, Along(h, s)) = Along(SystemSaid, s)
  BY <1>4, <1>5, <1>6, AlongTwice
<1>8. QED
  BY <1>7 DEF h

ChatWrites == [m \in Canon |-> ChatMessages(m)]

\* The messages of a message in chat say what it says, and can be read.
LEMMA ChatWritten ==
  /\ Writes("chat", ChatWrites)
  /\ \A m \in Canon : SameSaid(Along(Parts, ChatWrites[m]), m.content)
<1>1. ASSUME NEW m \in Canon
      PROVE  SameSaid(Along(Parts, Cat(ToolPart(m), ChatPart(m))), m.content)
  <2> DEFINE A == ToolPart(m)
             B == ChatPart(m)
             s == m.content
  <2>1. A \in Seq(Wires)
    <3>1. A \in Seq(WrittenAs("chat", CanonOf("user")))
      BY ToolPartSays
    <3>2. WrittenAs("chat", CanonOf("user")) \subseteq Wires
      BY DEF WrittenAs
    <3> HIDE DEF A
    <3>3. QED
      BY <3>1, <3>2, SeqWidens
  <2>2. B \in Seq(Wires)
    <3>1. \/ B \in Seq(WrittenAs("chat", SystemMessages))
          \/ B \in Seq(WrittenAs("chat", CanonOf(m.role)))
      BY ChatPartRead
    <3>2. /\ WrittenAs("chat", SystemMessages) \subseteq Wires
          /\ WrittenAs("chat", CanonOf(m.role)) \subseteq Wires
      BY DEF WrittenAs
    <3> HIDE DEF B
    <3>3. QED
      BY <3>1, <3>2, SeqWidens
  <2>3. SeqMap(Parts, Wires, ContentSet)
    BY DEF SeqMap, Parts, Wires
  <2>4. Along(Parts, A) = Along(ResultsOf, s)
    BY ToolPartSays
  <2>5. PICK x \in Seq(TextSet) :
          /\ Along(TextsOf, x) = Along(TextsOf, s)
          /\ Along(Parts, B) = Cat(x, Along(CallsOf, s))
    BY ChatPartSays
  <2>6. s \in Seq(ContentSet)
    BY CanonContent
  <2> HIDE DEF A, B, s
  <2>7. Along(Parts, Cat(A, B)) = Cat(Along(Parts, A), Along(Parts, B))
    BY <2>1, <2>2, <2>3, AlongHalves
  <2>8. SameSaid(Cat(Along(ResultsOf, s), Cat(x, Along(CallsOf, s))), s)
    BY <2>5, <2>6, Sorted
  <2>9. SameSaid(Along(Parts, Cat(A, B)), s)
    BY <2>4, <2>5, <2>7, <2>8
  <2>10. QED
    BY <2>9 DEF A, B, s
<1>2. ASSUME NEW m \in Canon
      PROVE  ChatWrites[m] = Cat(ToolPart(m), ChatPart(m))
  BY ChatMessagesIs DEF ChatWrites
<1>3. ASSUME NEW m \in Canon
      PROVE  SameSaid(Along(Parts, ChatWrites[m]), m.content)
  BY <1>1, <1>2
<1>4. ASSUME NEW m \in Canon, m.role # "user"
      PROVE  ChatWrites[m] = ChatPart(m)
  <2>1. ToolPart(m) = <<>>
    BY <1>4, WhoseContents, AlongEmpty DEF ToolPart
  <2>2. \E M : ChatPart(m) \in Seq(M)
    BY ChatPartRead
  <2>3. Cat(<<>>, ChatPart(m)) = ChatPart(m)
    BY <2>2, CatEmpty
  <2>4. QED
    BY <1>2, <2>1, <2>3
<1>5. ASSUME NEW m \in Canon
      PROVE  IF IsSystem(m.role)
             THEN ChatWrites[m] \in Seq(WrittenAs("chat", SystemMessages))
             ELSE ChatWrites[m] \in Seq(WrittenAs("chat", CanonOf(m.role)))
  <2>1. CASE m.role = "user"
    <3> DEFINE W == WrittenAs("chat", CanonOf("user"))
    <3>1. ToolPart(m) \in Seq(W)
      BY ToolPartSays
    <3>2. ~IsSystem(m.role)
      BY <2>1 DEF IsSystem
    <3>3. ChatPart(m) \in Seq(W)
      BY <2>1, <3>2, ChatPartRead
    <3> HIDE DEF W
    <3>4. Cat(ToolPart(m), ChatPart(m)) \in Seq(W)
      BY <3>1, <3>3, CatType
    <3>5. QED
      BY <1>2, <2>1, <3>2, <3>4 DEF W
  <2>2. CASE m.role # "user"
    BY <1>4, <2>2, ChatPartRead
  <2>3. QED
    BY <2>1, <2>2
<1>6. Writes("chat", ChatWrites)
  BY <1>3, <1>5 DEF Writes
<1>7. QED
  BY <1>3, <1>6

\* A request in chat holds the conversation, for its decoder.
THEOREM ChatCarries ==
  ASSUME NEW s \in Seq(Canon)
  PROVE  /\ FlatMap(ChatMessages, s) \in Seq(WrittenAs("chat", Canon))
         /\ MapSeq(LAMBDA m : ReadMessage("chat", m), FlatMap(ChatMessages, s))
              \in Seq(Canon)
         /\ Transcript(MapSeq(LAMBDA m : ReadMessage("chat", m),
                              FlatMap(ChatMessages, s))) = Transcript(s)
<1> DEFINE g == ChatWrites
           h == Rewritten("chat", g)
           ws == FlatMap(ChatMessages, s)
           t == MapSeq(LAMBDA m : ReadMessage("chat", m), ws)
<1>1. Writes("chat", g)
  BY ChatWritten
<1>2. ws = Along(g, s)
  <2>1. \A i \in DOMAIN s : s[i] \in Canon
    BY Elements
  <2>2. [i \in DOMAIN s |-> ChatMessages(s[i])] = [i \in DOMAIN s |-> g[s[i]]]
    BY <2>1 DEF ChatWrites
  <2>3. QED
    BY <2>2 DEF FlatMap, MapSeq, Along
<1>3. Along(g, s) \in Seq(WrittenAs("chat", Canon)) /\ t = Along(h, s)
  <2> HIDE DEF g, h, ws
  <2>1. /\ Along(g, s) \in Seq(WrittenAs("chat", Canon))
        /\ MapSeq(LAMBDA m : ReadMessage("chat", m), Along(g, s))
             = Along(Rewritten("chat", g), s)
    BY <1>1, Reread
  <2>2. QED
    BY <1>2, <2>1 DEF h
<1>4. Retells(h)
  BY <1>1, RewrittenRetells
<1> HIDE DEF t
<1>5. /\ Along(h, s) \in Seq(Canon)
      /\ TurnFold!Fold(<<>>, Along(MessageTurns, Along(h, s)))
           = TurnFold!Fold(<<>>, Along(MessageTurns, s))
  BY <1>4, TurnsRetold
<1>6. Along(SystemSaid, Along(h, s)) = Along(SystemSaid, s)
  BY ChatWritten, SystemRetold
<1>7. t \in Seq(Canon) /\ Transcript(t) = Transcript(s)
  BY <1>3, <1>5, <1>6, TranscriptIs
<1>8. QED
  BY <1>2, <1>3, <1>7 DEF t

-----------------------------------------------------------------------------
(* Responses.                                                              *)

NonSystem == {m \in Canon : ~IsSystem(m.role)}
ItemOf == [c \in ContentSet |-> Item(c)]
NotText ==
  [c \in ContentSet |-> IF c.type = "text" THEN <<>>
                        ELSE IF c.type = "tool_call" THEN <<c>>
                        ELSE <<Quiet(c)>>]
TextItem(r, x) == IF x = <<>> THEN <<>> ELSE <<WireMessage(r, x)>>

\* A call or a result as an item.
LEMMA ItemIs ==
  ASSUME NEW c \in ContentSet
  PROVE  /\ c.type = "text" => ItemOf[c] = <<>>
         /\ c.type = "tool_call" =>
              /\ ItemOf[c] = <<WireMessage("function_call", <<c>>)>>
              /\ WireMessage("function_call", <<c>>)
                   \in WrittenAs("responses", CanonOf("assistant"))
         /\ c.type = "tool_result" =>
              /\ ItemOf[c]
                   = <<WireMessage("function_call_output", <<Quiet(c)>>)>>
              /\ WireMessage("function_call_output", <<Quiet(c)>>)
                   \in WrittenAs("responses", CanonOf("user"))
<1>1. ItemOf[c] = Item(c)
  BY DEF ItemOf
<1>2. /\ "function_call" \in WireRoles /\ "function_call_output" \in WireRoles
      /\ "function_call" \in DOMAIN Reads["responses"]
      /\ "function_call_output" \in DOMAIN Reads["responses"]
  BY ReadsAre DEF WireRoles
<1>3. /\ CallSet \subseteq ContentSet /\ ResultSet \subseteq ContentSet
      /\ \A x \in CallSet : x.type \in Reads["responses"]["function_call"]
      /\ \A x \in ResultSet :
           x.type \in Reads["responses"]["function_call_output"]
  BY ContentSubsets, ReadsAre
<1>4. /\ CanonicalRole("function_call") = "assistant"
      /\ CanonicalRole("function_call_output") = "user"
  BY DEF CanonicalRole
<1>5. c.type = "text" => ItemOf[c] = <<>>
  BY <1>1 DEF Item
<1>6. ASSUME c.type = "tool_call"
      PROVE  /\ ItemOf[c] = <<WireMessage("function_call", <<c>>)>>
             /\ WireMessage("function_call", <<c>>)
                  \in WrittenAs("responses", CanonOf("assistant"))
  <2> DEFINE s == <<c>>
  <2>1. ItemOf[c] = <<WireMessage("function_call", s)>>
    BY <1>1, <1>6 DEF Item
  <2>2. s \in Seq(CallSet)
    BY <1>6, ContentKinds, OneType
  <2> HIDE DEF s
  <2>3. s \in Seq(TextSet \cup CallSet)
    BY <2>2, SeqWidens, CallSet \subseteq TextSet \cup CallSet
  <2>4. Message(CanonicalRole("function_call"), s) \in CanonOf("assistant")
    BY <1>4, <2>3, CanonMessage
  <2>5. WireMessage("function_call", s)
          \in WrittenAs("responses", CanonOf("assistant"))
    BY <1>2, <1>3, <2>2, <2>4, ReadableAs
  <2>6. QED
    BY <2>1, <2>5 DEF s
<1>7. ASSUME c.type = "tool_result"
      PROVE  /\ ItemOf[c]
                  = <<WireMessage("function_call_output", <<Quiet(c)>>)>>
             /\ WireMessage("function_call_output", <<Quiet(c)>>)
                  \in WrittenAs("responses", CanonOf("user"))
  <2> DEFINE s == <<Quiet(c)>>
  <2>1. ItemOf[c] = <<WireMessage("function_call_output", s)>>
    BY <1>1, <1>7 DEF Item
  <2>2. Quiet(c) \in ResultSet
    BY <1>7, ContentKinds, QuietType
  <2>3. s \in Seq(ResultSet)
    BY <2>2, OneType
  <2> HIDE DEF s
  <2>4. s \in Seq(TextSet \cup ResultSet)
    BY <2>3, SeqWidens, ResultSet \subseteq TextSet \cup ResultSet
  <2>5. Message(CanonicalRole("function_call_output"), s) \in CanonOf("user")
    BY <1>4, <2>4, CanonMessage
  <2>6. WireMessage("function_call_output", s)
          \in WrittenAs("responses", CanonOf("user"))
    BY <1>2, <1>3, <2>3, <2>5, ReadableAs
  <2>7. QED
    BY <2>1, <2>6 DEF s
<1>8. QED
  BY <1>5, <1>6, <1>7

\* A message holds its parts.
LEMMA PartsOfOne ==
  ASSUME NEW p, NEW M, NEW r, NEW s, WireMessage(r, s) \in WrittenAs(p, M)
  PROVE  Along(Parts, <<WireMessage(r, s)>>) = s
<1> DEFINE w == WireMessage(r, s)
<1>1. w \in Wires /\ w.parts = s
  BY DEF WrittenAs, WireMessage
<1>2. Parts \in [Wires -> Seq(ContentSet)] /\ Parts[w] = s
  BY <1>1 DEF Parts, Wires
<1> HIDE DEF w
<1>3. Along(Parts, <<w>>) = Parts[w]
  BY <1>1, <1>2, AlongOne
<1>4. QED
  BY <1>2, <1>3 DEF w

\* An item, and what it holds.
LEMMA ItemSays ==
  ASSUME NEW c \in ContentSet
  PROVE  /\ ItemOf[c] \in Seq(Wires)
         /\ Along(Parts, ItemOf[c]) = NotText[c]
         /\ NotText[c] \in Seq(ContentSet)
<1>0. \A p, M : WrittenAs(p, M) \subseteq Wires
  BY DEF WrittenAs
<1>1. CASE c.type = "text"
  <2>1. ItemOf[c] = <<>> /\ NotText[c] = <<>>
    BY <1>1, ItemIs DEF NotText
  <2>2. QED
    BY <2>1, AlongEmpty
<1>2. CASE c.type = "tool_call"
  <2> DEFINE w == WireMessage("function_call", <<c>>)
  <2>1. ItemOf[c] = <<w>> /\ w \in WrittenAs("responses", CanonOf("assistant"))
    BY <1>2, ItemIs
  <2>2. Along(Parts, <<w>>) = <<c>>
    BY <2>1, PartsOfOne
  <2>3. NotText[c] = <<c>>
    BY <1>2 DEF NotText
  <2>4. w \in Wires
    BY <1>0, <2>1
  <2> HIDE DEF w
  <2>5. QED
    BY <2>1, <2>2, <2>3, <2>4, OneType
<1>3. CASE c.type = "tool_result"
  <2> DEFINE q == Quiet(c)
             w == WireMessage("function_call_output", <<q>>)
  <2>1. ItemOf[c] = <<w>> /\ w \in WrittenAs("responses", CanonOf("user"))
    BY <1>3, ItemIs
  <2>2. Along(Parts, <<w>>) = <<q>>
    BY <2>1, PartsOfOne
  <2>3. NotText[c] = <<q>>
    BY <1>3 DEF NotText
  <2>4. w \in Wires
    BY <1>0, <2>1
  <2>5. q \in ContentSet
    BY <1>3, ContentKinds, QuietType, ContentSubsets
  <2> HIDE DEF w, q
  <2>6. QED
    BY <2>1, <2>2, <2>3, <2>4, <2>5, OneType
<1>4. QED
  BY <1>1, <1>2, <1>3, ContentKinds

\* The items of a message hold its calls and results, and no text.
LEMMA ItemsSay ==
  ASSUME NEW s \in Seq(ContentSet)
  PROVE  /\ Along(ItemOf, s) \in Seq(Wires)
         /\ Along(Parts, Along(ItemOf, s)) = Along(NotText, s)
         /\ Along(NotText, s) \in Seq(ContentSet)
         /\ Along(TextsOf, Along(NotText, s)) = <<>>
         /\ Along(CallsOf, Along(NotText, s)) = Along(CallsOf, s)
         /\ Along(ResultsOf, Along(NotText, s)) = Along(ResultsOf, s)
<1>1. Along(ItemOf, s) \in Seq(Wires)
  BY ItemSays, AlongTypeOn
<1>2. Along(NotText, s) \in Seq(ContentSet)
  BY ItemSays, AlongTypeOn
<1>3. SeqMap(NotText, ContentSet, ContentSet)
  BY ItemSays DEF SeqMap, NotText
<1>4. Along(Parts, Along(ItemOf, s)) = Along(NotText, s)
  <2>1. SeqMap(ItemOf, ContentSet, Wires)
    BY ItemSays DEF SeqMap, ItemOf
  <2>2. SeqMap(Parts, Wires, ContentSet)
    BY DEF SeqMap, Parts, Wires
  <2>3. \A c \in ContentSet : NotText[c] = Along(Parts, ItemOf[c])
    BY ItemSays
  <2>4. QED
    BY <2>1, <2>2, <2>3, AlongTwice
<1>5. /\ SeqMap(TextsOf, ContentSet, Nat)
      /\ SeqMap(CallsOf, ContentSet, CallSet)
      /\ SeqMap(ResultsOf, ContentSet, ResultSet)
  BY ContentFunctions DEF SeqMap
<1>6. ASSUME NEW c \in ContentSet
      PROVE  /\ Along(TextsOf, NotText[c]) = <<>>
             /\ Along(CallsOf, NotText[c]) = CallsOf[c]
             /\ Along(ResultsOf, NotText[c]) = ResultsOf[c]
  <2>1. CASE c.type = "text"
    <3>1. NotText[c] = <<>> /\ CallsOf[c] = <<>> /\ ResultsOf[c] = <<>>
      BY <2>1 DEF NotText, CallsOf, ResultsOf
    <3>2. QED
      BY <3>1, AlongEmpty
  <2>2. CASE c.type = "tool_call"
    <3>1. NotText[c] = <<c>> /\ CallsOf[c] = <<c>> /\ ResultsOf[c] = <<>>
      BY <2>2 DEF NotText, CallsOf, ResultsOf
    <3>2. <<c>> \in Seq(CallSet)
      BY <2>2, ContentKinds, OneType
    <3>3. /\ Along(TextsOf, <<c>>) = <<>> /\ Along(ResultsOf, <<c>>) = <<>>
          /\ Along(CallsOf, <<c>>) = <<c>>
      BY <3>2, OnlyCalls
    <3>4. QED
      BY <3>1, <3>3
  <2>3. CASE c.type = "tool_result"
    <3> DEFINE q == Quiet(c)
    <3>1. NotText[c] = <<q>> /\ CallsOf[c] = <<>> /\ ResultsOf[c] = <<q>>
      BY <2>3 DEF NotText, CallsOf, ResultsOf
    <3>2. q \in ResultSet /\ Quiet(q) = q
      BY <2>3, ContentKinds, QuietType, QuietTwice
    <3> HIDE DEF q
    <3>3. <<q>> \in Seq(ResultSet)
      BY <3>2, OneType
    <3>4. Along(TextsOf, <<q>>) = <<>> /\ Along(CallsOf, <<q>>) = <<>>
      BY <3>3, OnlyResults
    <3>5. Along(ResultsOf, <<q>>) = ResultsOf[q]
      <4>1. q \in ContentSet
        BY <3>2, ContentSubsets
      <4>2. ResultsOf \in [ContentSet -> Seq(ResultSet)]
        BY ContentFunctions
      <4>3. QED
        BY <4>1, <4>2, AlongOne
    <3>6. ResultsOf[q] = <<q>>
      BY <3>2, ContentSubsets DEF ResultsOf
    <3>7. QED
      BY <3>1, <3>4, <3>5, <3>6
  <2>4. QED
    BY <2>1, <2>2, <2>3, ContentKinds
<1>7. Along(TextsOf, Along(NotText, s)) = <<>>
  <2> DEFINE f == [c \in ContentSet |-> <<>>]
  <2>1. \A c \in ContentSet : f[c] = <<>>
    OBVIOUS
  <2>2. \A c \in ContentSet : f[c] = Along(TextsOf, NotText[c])
    BY <1>6
  <2> HIDE DEF f
  <2>3. Along(TextsOf, Along(NotText, s)) = Along(f, s)
    BY <1>3, <1>5, <2>2, AlongTwice
  <2>4. Along(f, s) = <<>>
    BY <2>1, AlongNothing
  <2>5. QED
    BY <2>3, <2>4
<1>8. Along(CallsOf, Along(NotText, s)) = Along(CallsOf, s)
  <2>1. \A c \in ContentSet : CallsOf[c] = Along(CallsOf, NotText[c])
    BY <1>6
  <2>2. QED
    BY <1>3, <1>5, <2>1, AlongTwice
<1>9. Along(ResultsOf, Along(NotText, s)) = Along(ResultsOf, s)
  <2>1. \A c \in ContentSet : ResultsOf[c] = Along(ResultsOf, NotText[c])
    BY <1>6
  <2>2. QED
    BY <1>3, <1>5, <2>1, AlongTwice
<1>10. QED
  BY <1>1, <1>2, <1>4, <1>7, <1>8, <1>9

\* The items of a message.
LEMMA ResponsesItemsIs ==
  ASSUME NEW m \in Canon
  PROVE  ResponsesItems(m)
           = Cat(Along(ItemOf, m.content),
                 TextItem(m.role, Along(Kept("text"), m.content)))
<1> DEFINE s == m.content
<1>1. s \in Seq(ContentSet)
  BY CanonContent
<1>2. \A i \in DOMAIN s : s[i] \in ContentSet
  BY <1>1, Elements
<1> HIDE DEF s
<1>3. [i \in DOMAIN s |-> Item(s[i])] = [i \in DOMAIN s |-> ItemOf[s[i]]]
  BY <1>2 DEF ItemOf
<1>4. FlatMap(Item, s) = Along(ItemOf, s)
  BY <1>3 DEF FlatMap, MapSeq, Along
<1>5. OfType(s, "text") = Along(Kept("text"), s)
  BY <1>1, OfTypeIs
<1>6. ResponsesItems(m)
        = Cat(FlatMap(Item, s), TextItem(m.role, OfType(s, "text")))
  BY DEF ResponsesItems, Cat, TextItem, s
<1>7. QED
  BY <1>4, <1>5, <1>6 DEF s

\* The texts of a message as an item.
LEMMA TextItemSays ==
  ASSUME NEW r \in {"user", "assistant"}, NEW x \in Seq(TextSet)
  PROVE  /\ TextItem(r, x) \in Seq(WrittenAs("responses", CanonOf(r)))
         /\ Along(Parts, TextItem(r, x)) = x
<1> DEFINE w == WireMessage(r, x)
           W == WrittenAs("responses", CanonOf(r))
<1>1. Message(r, x) \in CanonOf(r)
  <2>1. CASE r = "user"
    <3>1. x \in Seq(TextSet \cup ResultSet)
      BY SeqWidens, TextSet \subseteq TextSet \cup ResultSet
    <3>2. QED
      BY <2>1, <3>1, CanonMessage
  <2>2. CASE r = "assistant"
    <3>1. x \in Seq(TextSet \cup CallSet)
      BY SeqWidens, TextSet \subseteq TextSet \cup CallSet
    <3>2. QED
      BY <2>2, <3>1, CanonMessage
  <2>3. QED
    BY <2>1, <2>2
<1>2. CanonicalRole(r) = r
  BY DEF CanonicalRole
<1>3. r \in WireRoles
  BY DEF WireRoles
<1>4. r \in DOMAIN Reads["responses"] /\ Reads["responses"][r] = {"text"}
  BY ReadsAre
<1>5. TextSet \subseteq ContentSet
      /\ \A c \in TextSet : c.type \in Reads["responses"][r]
  BY <1>4, ContentSubsets
<1>6. w \in W
  BY <1>1, <1>2, <1>3, <1>4, <1>5, ReadableAs
<1>7. Along(Parts, <<w>>) = x
  BY <1>6, PartsOfOne
<1>8. CASE x = <<>>
  <2>1. TextItem(r, x) = <<>>
    BY <1>8 DEF TextItem
  <2>2. <<>> \in Seq(W)
    OBVIOUS
  <2>3. QED
    BY <1>8, <2>1, <2>2, AlongEmpty
<1>9. CASE x # <<>>
  <2>1. TextItem(r, x) = <<w>>
    BY <1>9 DEF TextItem
  <2> HIDE DEF w, W
  <2>2. <<w>> \in Seq(W)
    BY <1>6, OneType
  <2>3. QED
    BY <1>7, <2>1, <2>2 DEF W
<1>10. QED
  BY <1>8, <1>9

\* The items of a message are read as messages of its role, and say what it
\* says.
LEMMA ResponsesItemsSay ==
  ASSUME NEW m \in NonSystem
  PROVE  /\ ResponsesItems(m) \in Seq(WrittenAs("responses", CanonOf(m.role)))
         /\ SameSaid(Along(Parts, ResponsesItems(m)), m.content)
<1> DEFINE s == m.content
           r == m.role
           x == Along(Kept("text"), s)
           W == WrittenAs("responses", CanonOf(r))
           A == Along(ItemOf, s)
           B == TextItem(r, x)
           n == Along(NotText, s)
<1>1. m \in Canon /\ r \in {"user", "assistant"}
  BY CanonKinds DEF NonSystem, IsSystem
<1>2. s \in Seq(ContentSet)
  BY <1>1, CanonContent
<1>3. ResponsesItems(m) = Cat(A, B)
  BY <1>1, ResponsesItemsIs
<1>4. A \in Seq(W)
  <2>1. CASE r = "user"
    <3>1. s \in Seq(TextSet \cup ResultSet)
      BY <1>1, <2>1, CanonKinds
    <3>2. ASSUME NEW c \in TextSet \cup ResultSet
          PROVE  ItemOf[c] \in Seq(WrittenAs("responses", CanonOf("user")))
      <4>1. c \in ContentSet
        BY ContentSubsets
      <4>2. CASE c.type = "text"
        <5>1. ItemOf[c] = <<>>
          BY <4>1, <4>2, ItemIs
        <5>2. QED
          BY <5>1
      <4>3. CASE c.type = "tool_result"
        BY <4>1, <4>3, ItemIs, OneType
      <4>4. QED
        BY <4>2, <4>3, ContentSubsets
    <3>3. \A c \in TextSet \cup ResultSet : ItemOf[c] \in Seq(W)
      BY <2>1, <3>2
    <3> HIDE DEF s, W
    <3>4. QED
      BY <3>1, <3>3, AlongTypeOn
  <2>2. CASE r = "assistant"
    <3>1. s \in Seq(TextSet \cup CallSet)
      BY <1>1, <2>2, CanonKinds
    <3>2. ASSUME NEW c \in TextSet \cup CallSet
          PROVE  ItemOf[c] \in Seq(WrittenAs("responses", CanonOf("assistant")))
      <4>1. c \in ContentSet
        BY ContentSubsets
      <4>2. CASE c.type = "text"
        <5>1. ItemOf[c] = <<>>
          BY <4>1, <4>2, ItemIs
        <5>2. QED
          BY <5>1
      <4>3. CASE c.type = "tool_call"
        BY <4>1, <4>3, ItemIs, OneType
      <4>4. QED
        BY <4>2, <4>3, ContentSubsets
    <3>3. \A c \in TextSet \cup CallSet : ItemOf[c] \in Seq(W)
      BY <2>2, <3>2
    <3> HIDE DEF s, W
    <3>4. QED
      BY <3>1, <3>3, AlongTypeOn
  <2>3. QED
    BY <1>1, <2>1, <2>2
<1>5. x \in Seq(TextSet)
  BY <1>2, KeptType, AlongType
<1>6. B \in Seq(W) /\ Along(Parts, B) = x
  <2> HIDE DEF x
  <2>1. QED
    BY <1>1, <1>5, TextItemSays
<1>7. W \subseteq Wires
  BY DEF WrittenAs
<1>8. Along(TextsOf, x) = Along(TextsOf, s)
  BY <1>2, KeptTexts
<1>9. /\ Along(Parts, A) = n
      /\ n \in Seq(ContentSet)
      /\ Along(TextsOf, n) = <<>>
      /\ Along(CallsOf, n) = Along(CallsOf, s)
      /\ Along(ResultsOf, n) = Along(ResultsOf, s)
  BY <1>2, ItemsSay
<1>10. SeqMap(Parts, Wires, ContentSet)
  BY DEF SeqMap, Parts, Wires
<1> HIDE DEF s, r, x, W, A, B, n
<1>11. A \in Seq(Wires) /\ B \in Seq(Wires)
  BY <1>4, <1>6, <1>7, SeqWidens
<1>12. Along(Parts, Cat(A, B)) = Cat(n, x)
  BY <1>6, <1>9, <1>10, <1>11, AlongHalves
<1>13. x \in Seq(ContentSet)
  BY <1>5, SeqWidens, ContentSubsets
<1>14. Along(CallsOf, x) = <<>> /\ Along(ResultsOf, x) = <<>>
  BY <1>5, OnlyTexts
<1>15. /\ Along(TextsOf, s) \in Seq(Nat) /\ Along(CallsOf, s) \in Seq(CallSet)
       /\ Along(ResultsOf, s) \in Seq(ResultSet)
  BY <1>2, SpeechTypes
<1>16. Along(TextsOf, Cat(n, x)) = Along(TextsOf, s)
  <2>1. Along(TextsOf, Cat(n, x)) = Cat(<<>>, Along(TextsOf, s))
    BY <1>8, <1>9, <1>13, SaidJoined
  <2>2. QED
    BY <1>15, <2>1, CatEmpty
<1>17. Along(CallsOf, Cat(n, x)) = Along(CallsOf, s)
  <2>1. Along(CallsOf, Cat(n, x)) = Cat(Along(CallsOf, s), <<>>)
    BY <1>9, <1>13, <1>14, SaidJoined
  <2>2. QED
    BY <1>15, <2>1, CatEmpty
<1>18. Along(ResultsOf, Cat(n, x)) = Along(ResultsOf, s)
  <2>1. Along(ResultsOf, Cat(n, x)) = Cat(Along(ResultsOf, s), <<>>)
    BY <1>9, <1>13, <1>14, SaidJoined
  <2>2. QED
    BY <1>15, <2>1, CatEmpty
<1>19. SameSaid(Along(Parts, Cat(A, B)), s)
  BY <1>12, <1>16, <1>17, <1>18 DEF SameSaid
<1>20. Cat(A, B) \in Seq(W)
  BY <1>4, <1>6, CatType
<1>21. QED
  BY <1>3, <1>19, <1>20 DEF s, W, r

\* What comes before the turns: the system's text, in a message of its own.
SystemRole(p) == IF p = "anthropic" THEN "system" ELSE "developer"

\* The system's text is a system message, if there is one.
LEMMA ReadSystemIs ==
  ASSUME NEW p, NEW x \in Seq(Nat)
  PROVE  /\ ReadSystem(p, x) \in Seq(SystemMessages)
         /\ ReadSystem(p, x) \in Seq(Canon)
         /\ Along(SystemSaid, ReadSystem(p, x)) = x
<1> DEFINE r == SystemRole(p)
           m == Message(r, <<Text(x)>>)
<1>1. r \in {"system", "developer"}
  BY DEF SystemRole
<1>2. <<Text(x)>> \in Seq(TextSet) /\ Along(TextsOf, <<Text(x)>>) = x
  BY TextType
<1>3. m \in SystemMessages
  BY <1>1, <1>2, CanonMessage
<1>4. m \in Canon /\ m.role = r /\ m.content = <<Text(x)>>
  BY <1>3 DEF Canon, Message
<1>5. SystemSaid[m] = x
  BY <1>1, <1>2, <1>4 DEF SystemSaid, IsSystem
<1>6. ReadSystem(p, x) = IF x = <<>> THEN <<>> ELSE <<m>>
  BY DEF ReadSystem, SystemRole
<1> HIDE DEF m, r
<1>7. <<m>> \in Seq(SystemMessages) /\ <<m>> \in Seq(Canon)
  BY <1>3, <1>4, OneType
<1>8. Along(SystemSaid, <<m>>) = x
  <2>1. SystemSaid \in [Canon -> Seq(Nat)]
    BY MessageFunctions
  <2>2. m \in Canon
    BY <1>4
  <2>3. Along(SystemSaid, <<m>>) = SystemSaid[m]
    BY <2>1, <2>2, AlongOne
  <2>4. QED
    BY <1>5, <2>3
<1>9. <<>> \in Seq(SystemMessages) /\ <<>> \in Seq(Canon)
  OBVIOUS
<1>10. QED
  BY <1>6, <1>7, <1>8, <1>9, AlongEmpty

\* A transcript of the system's text and of turns.
LEMMA WithSystem ==
  ASSUME NEW p, NEW x \in Seq(Nat), NEW t \in Seq(NonSystem)
  PROVE  /\ Cat(ReadSystem(p, x), t) \in Seq(Canon)
         /\ Transcript(Cat(ReadSystem(p, x), t))
              = [system |-> x,
                 turns |-> TurnFold!Fold(<<>>, Along(MessageTurns, t))]
<1> DEFINE a == ReadSystem(p, x)
           u == Cat(a, t)
<1>1. a \in Seq(SystemMessages) /\ a \in Seq(Canon) /\ Along(SystemSaid, a) = x
  BY ReadSystemIs
<1>2. t \in Seq(Canon)
  BY SeqWidens, NonSystem \subseteq Canon DEF NonSystem
<1> HIDE DEF a
<1>3. u \in Seq(Canon)
  BY <1>1, <1>2, CatType
<1>4. Along(SystemSaid, u) = x
  <2>1. \A m \in NonSystem : SystemSaid[m] = <<>>
    BY DEF NonSystem, SystemSaid
  <2>2. Along(SystemSaid, t) = <<>>
    BY <2>1, AlongNothing
  <2>3. Along(SystemSaid, u) = Cat(Along(SystemSaid, a), Along(SystemSaid, t))
    <3>1. SeqMap(SystemSaid, Canon, Nat)
      BY MessageFunctions DEF SeqMap
    <3>2. QED
      BY <1>1, <1>2, <3>1, AlongHalves
  <2>4. QED
    BY <1>1, <2>2, <2>3, CatEmpty
<1>5. Along(MessageTurns, u) = Along(MessageTurns, t)
  <2>1. Along(MessageTurns, a) = <<>>
    BY <1>1, SystemHasNoTurns
  <2>2. Along(MessageTurns, u)
          = Cat(Along(MessageTurns, a), Along(MessageTurns, t))
    <3>1. SeqMap(MessageTurns, Canon, TurnSet)
      BY MessageFunctions DEF SeqMap
    <3>2. QED
      BY <1>1, <1>2, <3>1, AlongHalves
  <2>3. Along(MessageTurns, t) \in Seq(TurnSet)
    BY <1>2, MessageFunctions, AlongType
  <2>4. QED
    BY <2>1, <2>2, <2>3, CatEmpty
<1> HIDE DEF u
<1>6. Transcript(u) = [system |-> x,
                       turns |-> TurnFold!Fold(<<>>, Along(MessageTurns, t))]
  BY <1>3, <1>4, <1>5, TranscriptIs
<1>7. QED
  BY <1>3, <1>6 DEF u, a

ResponsesOf == [m \in NonSystem |-> ResponsesItems(m)]
ResponsesWrites ==
  [m \in Canon |-> IF IsSystem(m.role) THEN <<>> ELSE ResponsesItems(m)]

\* The items of the turns are those of the messages that are not the system's.
LEMMA ResponsesOfTurns ==
  ASSUME NEW s \in Seq(Canon)
  PROVE  FlatMap(ResponsesItems, Turns(s)) = Along(ResponsesWrites, s)
<1> DEFINE t == Turns(s)
           sp == [m \in Canon |-> Spoken[m]]
<1>1. t = Along(Spoken, s)
  BY TurnsIs
<1>2. ASSUME NEW m \in Canon PROVE Spoken[m] \in Seq(NonSystem)
  <2>1. CASE IsSystem(m.role)
    <3>1. Spoken[m] = <<>>
      BY <2>1 DEF Spoken
    <3>2. QED
      BY <3>1
  <2>2. CASE ~IsSystem(m.role)
    <3>1. Spoken[m] = <<m>> /\ m \in NonSystem
      BY <2>2 DEF Spoken, NonSystem
    <3>2. QED
      BY <3>1, OneType
  <2>3. QED
    BY <2>1, <2>2
<1>3. t \in Seq(NonSystem)
  BY <1>1, <1>2, AlongTypeOn
<1>4. \A i \in DOMAIN t : t[i] \in NonSystem
  BY <1>3, Elements
<1> HIDE DEF t
<1>5. [i \in DOMAIN t |-> ResponsesItems(t[i])]
        = [i \in DOMAIN t |-> ResponsesOf[t[i]]]
  BY <1>4 DEF ResponsesOf
<1>6. FlatMap(ResponsesItems, t) = Along(ResponsesOf, t)
  BY <1>5 DEF FlatMap, MapSeq, Along
<1>7. SeqMap(Spoken, Canon, NonSystem)
  BY <1>2 DEF SeqMap, Spoken
<1>8. SeqMap(ResponsesOf, NonSystem, Wires)
  <2>1. ASSUME NEW m \in NonSystem PROVE ResponsesItems(m) \in Seq(Wires)
    <3>1. ResponsesItems(m) \in Seq(WrittenAs("responses", CanonOf(m.role)))
      BY ResponsesItemsSay
    <3>2. WrittenAs("responses", CanonOf(m.role)) \subseteq Wires
      BY DEF WrittenAs
    <3>3. QED
      BY <3>1, <3>2, SeqWidens
  <2>2. QED
    BY <2>1 DEF SeqMap, ResponsesOf
<1>9. ASSUME NEW m \in Canon
      PROVE  ResponsesWrites[m] = Along(ResponsesOf, Spoken[m])
  <2>1. CASE IsSystem(m.role)
    <3>1. Spoken[m] = <<>> /\ ResponsesWrites[m] = <<>>
      BY <2>1 DEF Spoken, ResponsesWrites
    <3>2. QED
      BY <3>1, AlongEmpty
  <2>2. CASE ~IsSystem(m.role)
    <3>1. Spoken[m] = <<m>> /\ m \in NonSystem
      BY <2>2 DEF Spoken, NonSystem
    <3>2. ResponsesWrites[m] = ResponsesOf[m]
      BY <2>2, <3>1 DEF ResponsesWrites, ResponsesOf
    <3>3. ResponsesOf \in [NonSystem -> Seq(Wires)]
      BY <1>8 DEF SeqMap
    <3>4. Along(ResponsesOf, <<m>>) = ResponsesOf[m]
      BY <3>1, <3>3, AlongOne
    <3>5. QED
      BY <3>1, <3>2, <3>4
  <2>3. QED
    BY <2>1, <2>2
<1>10. Along(ResponsesOf, Along(Spoken, s)) = Along(ResponsesWrites, s)
  <2>1. \A m \in Canon : ResponsesWrites[m] = Along(ResponsesOf, Spoken[m])
    BY <1>9
  <2>2. QED
    BY <1>7, <1>8, <2>1, AlongTwice
<1>11. QED
  BY <1>1, <1>6, <1>10 DEF t

\* The decoder of Responses reads all of them.
LEMMA ResponsesWritten == Writes("responses", ResponsesWrites)
<1>1. ASSUME NEW m \in Canon, IsSystem(m.role)
      PROVE  ResponsesWrites[m] \in Seq(WrittenAs("responses", SystemMessages))
  <2>1. ResponsesWrites[m] = <<>>
    BY <1>1 DEF ResponsesWrites
  <2>2. QED
    BY <2>1
<1>2. ASSUME NEW m \in Canon, ~IsSystem(m.role)
      PROVE  /\ ResponsesWrites[m]
                  \in Seq(WrittenAs("responses", CanonOf(m.role)))
             /\ SameSaid(Along(Parts, ResponsesWrites[m]), m.content)
  <2>1. m \in NonSystem /\ ResponsesWrites[m] = ResponsesItems(m)
    BY <1>2 DEF ResponsesWrites, NonSystem
  <2>2. QED
    BY <2>1, ResponsesItemsSay
<1>3. QED
  BY <1>1, <1>2 DEF Writes

\* A request in Responses holds the conversation, for its decoder.
LEMMA ResponsesCarries ==
  ASSUME NEW s \in Seq(Canon), NEW w, w = FlatMap(ResponsesItems, Turns(s)),
         NEW u, u = Cat(ReadSystem("responses", SystemText(s)),
                        MapSeq(LAMBDA m : ReadMessage("responses", m), w))
  PROVE  /\ \A i \in DOMAIN w : ~Unreadable("responses", w[i])
         /\ u \in Seq(Canon)
         /\ Transcript(u) = Transcript(s)
<1> DEFINE g == ResponsesWrites
           h == Rewritten("responses", g)
           t == Along(h, s)
<1>1. Writes("responses", g)
  BY ResponsesWritten
<1>2. w = Along(g, s)
  BY ResponsesOfTurns
<1>3. w \in Seq(WrittenAs("responses", Canon))
      /\ MapSeq(LAMBDA m : ReadMessage("responses", m), w) = t
  BY <1>1, <1>2, Reread, Zenon
<1>4. \A i \in DOMAIN w : ~Unreadable("responses", w[i])
  BY <1>3, ReadEach
<1>5. Retells(h)
  BY <1>1, RewrittenRetells
<1>6. ASSUME NEW m \in Canon PROVE h[m] \in Seq(NonSystem)
  <2>1. CASE IsSystem(m.role)
    <3>1. g[m] = <<>>
      BY <2>1 DEF ResponsesWrites
    <3>2. h[m] = <<>>
      BY <3>1, AlongEmpty DEF Rewritten
    <3> HIDE DEF h
    <3>3. QED
      BY <3>2
  <2>2. CASE ~IsSystem(m.role)
    <3>1. h[m] \in Seq(CanonOf(m.role))
      BY <1>5, <2>2 DEF Retells
    <3>2. CanonOf(m.role) \subseteq NonSystem
      BY <2>2 DEF CanonOf, NonSystem
    <3> HIDE DEF h
    <3>3. QED
      BY <3>1, <3>2, SeqWidens
  <2>3. QED
    BY <2>1, <2>2
<1> HIDE DEF g, h
<1>7. t \in Seq(NonSystem)
  BY <1>6, AlongTypeOn
<1>8. TurnFold!Fold(<<>>, Along(MessageTurns, t))
        = TurnFold!Fold(<<>>, Along(MessageTurns, s))
  BY <1>5, TurnsRetold
<1>9. SystemText(s) = Along(SystemSaid, s) /\ SystemText(s) \in Seq(Nat)
  BY SystemTextIs, MessageFunctions, AlongType
<1>10. u = Cat(ReadSystem("responses", SystemText(s)), t)
  BY <1>3, Zenon
<1> HIDE DEF t
<1>11. u \in Seq(Canon)
       /\ Transcript(u)
            = [system |-> SystemText(s),
               turns |-> TurnFold!Fold(<<>>, Along(MessageTurns, t))]
  BY <1>7, <1>9, <1>10, WithSystem
<1>12. Transcript(s) = [system |-> SystemText(s),
                        turns |-> TurnFold!Fold(<<>>, Along(MessageTurns, s))]
  BY <1>9, TranscriptIs
<1>13. QED
  BY <1>4, <1>8, <1>11, <1>12

-----------------------------------------------------------------------------
(* Anthropic.                                                              *)

Merging == WrittenAs("anthropic", NonSystem)
WireTurns == [w \in Merging |-> MessageTurns[ReadAs(w)]]
Holds(r) ==
  IF r = "user" THEN TextSet \cup ResultSet ELSE TextSet \cup CallSet

\* A message of the user or of the assistant, and what its role may hold.
LEMMA SpokenMessage ==
  ASSUME NEW m \in NonSystem
  PROVE  /\ m \in Canon /\ m.role \in {"user", "assistant"}
         /\ m.content \in Seq(Holds(m.role))
         /\ m = Message(m.role, m.content)
         /\ MessageTurns[m] = Along(Atoms(m.role), m.content)
<1>1. m \in Canon /\ ~IsSystem(m.role)
  BY DEF NonSystem
<1>2. m.role \in {"user", "assistant"}
  BY <1>1, CanonKinds DEF IsSystem
<1>3. m.content \in Seq(Holds(m.role))
  BY <1>1, <1>2, CanonKinds DEF Holds
<1>4. m = Message(m.role, m.content)
  BY <1>1 DEF Canon, SystemMessages, UserMessages, AssistantMessages, Message
<1>5. MessageTurns[m] = Along(Atoms(m.role), m.content)
  BY <1>1 DEF MessageTurns
<1>6. QED
  BY <1>1, <1>2, <1>3, <1>4, <1>5

\* Of what a role may hold a message can be made.
LEMMA MergingMakes ==
  ASSUME NEW r \in {"user", "assistant"}, NEW s \in Seq(Holds(r))
  PROVE  /\ WireMessage(r, s) \in Merging
         /\ WireTurns[WireMessage(r, s)] = Along(Atoms(r), s)
<1> DEFINE w == WireMessage(r, s)
           m == Message(r, s)
<1>1. m \in CanonOf(r)
  BY CanonMessage DEF Holds
<1>2. m.role = r /\ m.content = s
  BY DEF Message
<1>3. m \in NonSystem
  BY <1>1, <1>2 DEF CanonOf, NonSystem, IsSystem
<1>4. CanonicalRole(r) = r
  BY DEF CanonicalRole
<1>5. r \in WireRoles
  BY DEF WireRoles
<1>6. /\ r \in DOMAIN Reads["anthropic"]
      /\ Reads["anthropic"][r] = {"text", "tool_call", "tool_result"}
  BY ReadsAre
<1>7. Holds(r) \subseteq ContentSet
      /\ \A c \in Holds(r) : c.type \in Reads["anthropic"][r]
  BY <1>6, ContentSubsets DEF Holds
<1>8. w \in Merging
  BY <1>3, <1>4, <1>5, <1>6, <1>7, ReadableAs DEF Merging
<1>9. ReadAs(w) = m
  BY <1>4 DEF ReadAs, WireMessage
<1>10. MessageTurns[m] = Along(Atoms(r), s)
  BY <1>2, <1>3, SpokenMessage
<1>11. QED
  BY <1>8, <1>9, <1>10 DEF WireTurns

\* Every message is made so.
LEMMA MergingMade ==
  ASSUME NEW w \in Merging
  PROVE  /\ w.role \in {"user", "assistant"}
         /\ w.parts \in Seq(Holds(w.role))
         /\ w = WireMessage(w.role, w.parts)
         /\ WireTurns[w] = Along(Atoms(w.role), w.parts)
         /\ WireTurns[w] \in Seq(TurnSet)
<1>1. w \in Wires /\ w.role \in DOMAIN Reads["anthropic"]
      /\ ReadAs(w) \in NonSystem
  BY DEF Merging, WrittenAs, Readable
<1>2. w.role \in {"user", "assistant"}
  BY <1>1, ReadsAre
<1>3. CanonicalRole(w.role) = w.role
  BY <1>2 DEF CanonicalRole
<1>4. ReadAs(w).role = w.role /\ ReadAs(w).content = w.parts
  BY <1>3 DEF ReadAs, Message
<1>5. w.parts \in Seq(Holds(w.role))
      /\ MessageTurns[ReadAs(w)] = Along(Atoms(w.role), w.parts)
      /\ ReadAs(w) \in Canon
  BY <1>1, <1>4, SpokenMessage
<1>6. w = WireMessage(w.role, w.parts)
  BY <1>1 DEF Wires, WireMessage
<1>7. WireTurns[w] = MessageTurns[ReadAs(w)]
  BY DEF WireTurns
<1>8. MessageTurns[ReadAs(w)] \in Seq(TurnSet)
  BY <1>5, MessageFunctions
<1>9. QED
  BY <1>2, <1>5, <1>6, <1>7, <1>8

\* The last message of several, with more parts.
LEMMA LastExtended ==
  ASSUME NEW s \in Seq(Wires), s # <<>>, NEW c \in Seq(ContentSet)
  PROVE  [s EXCEPT ![Len(s)].parts = @ \o c]
           = Append(Front(s), WireMessage(Last(s).role, Cat(Last(s).parts, c)))
<1> DEFINE n == Len(s)
           x == Last(s)
           y == WireMessage(x.role, Cat(x.parts, c))
           t == Front(s)
           u == [s EXCEPT ![n] = y]
<1>1. t \in Seq(Wires) /\ x \in Wires /\ s = Append(t, x)
  BY FrontAndLast
<1>2. n \in Nat \ {0} /\ s[n] = x
  BY DEF Last
<1>3. [x EXCEPT !.parts = x.parts \o c] = y
  <2>1. ASSUME NEW z \in Wires
        PROVE  [z EXCEPT !.parts = z.parts \o c]
                 = WireMessage(z.role, Cat(z.parts, c))
    <3> DEFINE v == z.parts \o c
    <3>1. z = [role |-> z.role, parts |-> z.parts]
      BY DEF Wires
    <3> HIDE DEF v
    <3>2. [z EXCEPT !.parts = v] = [role |-> z.role, parts |-> v]
      BY <3>1
    <3>3. QED
      BY <3>2 DEF WireMessage, Cat, v
  <2> HIDE DEF x
  <2>2. QED
    BY <1>1, <2>1
<1>4. [s EXCEPT ![n].parts = @ \o c] = u
  BY <1>2, <1>3
<1>5. y \in Wires
  <2>1. x.role \in WireRoles /\ x.parts \in Seq(ContentSet)
    BY <1>1 DEF Wires
  <2>2. Cat(x.parts, c) \in Seq(ContentSet)
    BY <2>1, CatType
  <2>3. QED
    BY <2>1, <2>2 DEF Wires, WireMessage
<1> HIDE DEF x, y, t
<1>6. u \in Seq(Wires) /\ Len(u) = n
  BY <1>5
<1>7. Append(t, y) \in Seq(Wires) /\ Len(Append(t, y)) = n
  BY <1>1, <1>5
<1>8. ASSUME NEW i \in 1..n PROVE u[i] = Append(t, y)[i]
  <2>1. n = Len(t) + 1 /\ Len(t) \in Nat
    BY <1>1
  <2>2. CASE i = n
    <3>1. u[i] = y
      BY <1>2, <2>2
    <3>2. Append(t, y)[i] = y
      BY <1>1, <2>1, <2>2
    <3>3. QED
      BY <3>1, <3>2
  <2>3. CASE i # n
    <3>1. u[i] = s[i]
      BY <2>3
    <3>2. s[i] = t[i]
      BY <1>1, <2>1, <2>3
    <3>3. Append(t, y)[i] = t[i]
      BY <1>1, <2>1, <2>3
    <3>4. QED
      BY <3>1, <3>2, <3>3
  <2>4. QED
    BY <2>2, <2>3
<1> HIDE DEF u, n
<1>9. u = Append(t, y)
  BY <1>6, <1>7, <1>8, SeqEqual
<1>10. QED
  BY <1>4, <1>9 DEF x, y, t, n

\* What a message adds to the turns of those before it.
LEMMA MessageMerged ==
  ASSUME NEW w \in Seq(Merging), Alternate(w), NEW m \in NonSystem
  PROVE  /\ AppendMessage(w, m) \in Seq(Merging)
         /\ Alternate(AppendMessage(w, m))
         /\ Along(WireTurns, AppendMessage(w, m))
              = Cat(Along(WireTurns, w), MessageTurns[m])
<1> DEFINE r == m.role
           s == m.content
           W == Along(WireTurns, w)
<1>1. /\ r \in {"user", "assistant"} /\ s \in Seq(Holds(r))
      /\ MessageTurns[m] = Along(Atoms(r), s)
  BY SpokenMessage
<1>2. WireTurns \in [Merging -> Seq(TurnSet)]
  BY MergingMade DEF WireTurns
<1>3. W \in Seq(TurnSet)
  BY <1>2, AlongType
<1>4. Merging \subseteq Wires
  BY DEF Merging, WrittenAs
<1>5. s \in Seq(ContentSet)
  BY SpokenMessage, CanonContent
<1>6. r \in RoleSet
  BY <1>1 DEF RoleSet
<1>7. SeqMap(Atoms(r), ContentSet, TurnSet)
  BY <1>6, AtomsType DEF SeqMap
<1> HIDE DEF W, r, s
<1>8. CASE s = <<>>
  <2>1. AppendMessage(w, m) = w
    BY <1>8 DEF AppendMessage, s
  <2>2. MessageTurns[m] = <<>>
    BY <1>1, <1>8, AlongEmpty
  <2>3. QED
    BY <1>3, <2>1, <2>2, CatEmpty DEF W
<1>9. CASE s # <<>> /\ w # <<>> /\ Last(w).role = r
  <2> DEFINE t == Front(w)
             x == Last(w)
             p == Cat(x.parts, s)
             y == WireMessage(r, p)
             a == Along(Atoms(r), x.parts)
             b == Along(Atoms(r), s)
  <2>1. t \in Seq(Merging) /\ x \in Merging /\ w = Append(t, x)
    BY <1>9, FrontAndLast
  <2>2. x.role = r
    BY <1>9
  <2>3. x.parts \in Seq(Holds(r)) /\ WireTurns[x] = a
    BY <2>1, <2>2, MergingMade
  <2>4. AppendMessage(w, m) = Append(t, y)
    <3>1. w \in Seq(Wires)
      BY <1>4, SeqWidens
    <3>2. Len(w) \in Nat /\ Len(w) # 0 /\ w[Len(w)].role = r
      BY <1>9 DEF Last
    <3>3. AppendMessage(w, m) = [w EXCEPT ![Len(w)].parts = @ \o s]
      BY <1>9, <3>2 DEF AppendMessage, r, s
    <3>4. QED
      BY <1>5, <1>9, <2>2, <3>1, <3>3, LastExtended
  <2> HIDE DEF x, t
  <2>5. p \in Seq(Holds(r))
    BY <1>1, <2>3, CatType
  <2>6. y \in Merging /\ WireTurns[y] = Along(Atoms(r), p)
    <3> HIDE DEF p
    <3>1. QED
      BY <1>1, <2>5, MergingMakes
  <2>7. x.parts \in Seq(ContentSet)
    <3>1. Holds(r) \subseteq ContentSet
      BY ContentSubsets DEF Holds
    <3>2. QED
      BY <2>3, <3>1, SeqWidens
  <2>8. Along(Atoms(r), p) = Cat(a, b)
    BY <1>5, <1>7, <2>7, AlongHalves
  <2>9. a \in Seq(TurnSet) /\ b \in Seq(TurnSet)
    <3>1. Atoms(r) \in [ContentSet -> Seq(TurnSet)]
      BY <1>7 DEF SeqMap
    <3>2. QED
      BY <1>5, <2>7, <3>1, AlongType
  <2>10. p # <<>>
    BY <1>5, <1>9, <2>7, CatNothing
  <2>11. y.role = r /\ y.parts = p
    BY DEF WireMessage
  <2> HIDE DEF p, y, a, b
  <2>12. Append(t, y) \in Seq(Merging)
    BY <2>1, <2>6
  <2>13. Alternate(Append(t, y))
    <3>1. /\ Len(Append(t, y)) = Len(w) /\ Len(w) = Len(t) + 1
          /\ Len(t) \in Nat
      BY <2>1
    <3>2. DOMAIN Append(t, y) = 1..Len(w)
      BY <2>12, <3>1
    <3>3. \A i \in 1..Len(w) : i # Len(w) => Append(t, y)[i] = w[i]
      BY <2>1, <3>1
    <3>4. Append(t, y)[Len(w)] = y /\ w[Len(w)] = x
      BY <2>1, <3>1
    <3>5. \A i \in 1..Len(w) : /\ w[i].parts # <<>>
                               /\ i > 1 => w[i].role # w[i - 1].role
      BY DEF Alternate
    <3> DEFINE v == Append(t, y)
    <3> HIDE DEF v
    <3>6. \A i \in 1..Len(w) : v[i].role = w[i].role /\ v[i].parts # <<>>
      BY <2>2, <2>10, <2>11, <3>3, <3>4, <3>5 DEF v
    <3>7. \A i \in 1..Len(w) : i > 1 => v[i].role # v[i - 1].role
      BY <3>1, <3>5, <3>6
    <3>8. QED
      BY <3>2, <3>6, <3>7 DEF Alternate, v
  <2>14. Along(WireTurns, Append(t, y)) = Cat(Along(WireTurns, t), Cat(a, b))
    <3>1. Along(WireTurns, Append(t, y))
            = Cat(Along(WireTurns, t), WireTurns[y])
      BY <1>2, <2>1, <2>6, AlongAppend
    <3>2. QED
      BY <2>6, <2>8, <3>1
  <2>15. W = Cat(Along(WireTurns, t), a)
    <3>1. Along(WireTurns, Append(t, x))
            = Cat(Along(WireTurns, t), WireTurns[x])
      BY <1>2, <2>1, AlongAppend
    <3>2. QED
      BY <2>1, <2>3, <3>1 DEF W
  <2>16. Along(WireTurns, t) \in Seq(TurnSet)
    BY <1>2, <2>1, AlongType
  <2>17. Cat(Cat(Along(WireTurns, t), a), b)
           = Cat(Along(WireTurns, t), Cat(a, b))
    BY <2>9, <2>16, CatAssoc
  <2>18. MessageTurns[m] = b
    BY <1>1 DEF b
  <2>19. QED
    BY <2>4, <2>12, <2>13, <2>14, <2>15, <2>17, <2>18 DEF W
<1>10. CASE s # <<>> /\ (w = <<>> \/ Last(w).role # r)
  <2> DEFINE y == WireMessage(r, s)
             v == Append(w, y)
  <2>1. AppendMessage(w, m) = v
    BY <1>10 DEF AppendMessage, Last, r, s
  <2>2. y \in Merging /\ WireTurns[y] = MessageTurns[m]
    BY <1>1, MergingMakes
  <2>3. y.role = r /\ y.parts = s
    BY DEF WireMessage
  <2> HIDE DEF y
  <2>4. v \in Seq(Merging) /\ Along(WireTurns, v) = Cat(W, WireTurns[y])
    BY <1>2, <2>2, AlongAppend DEF W
  <2>5. Alternate(v)
    <3>1. /\ DOMAIN v = 1..(Len(w) + 1) /\ Len(w) \in Nat
          /\ DOMAIN w = 1..Len(w)
      BY <2>2
    <3>2. v[Len(w) + 1] = y /\ \A i \in 1..Len(w) : v[i] = w[i]
      BY <2>2
    <3>3. Len(w) # 0 => w[Len(w)].role # r
      BY <1>10 DEF Last
    <3>4. \A i \in 1..Len(w) : /\ w[i].parts # <<>>
                               /\ i > 1 => w[i].role # w[i - 1].role
      BY <3>1 DEF Alternate
    <3> HIDE DEF v
    <3>5. QED
      BY <1>10, <2>3, <3>1, <3>2, <3>3, <3>4 DEF Alternate
  <2>6. QED
    BY <2>1, <2>2, <2>4, <2>5 DEF W
<1>11. QED
  BY <1>8, <1>9, <1>10

\* The messages that are not the system's hold the turns.
LEMMA TurnsType ==
  ASSUME NEW s \in Seq(Canon)
  PROVE  /\ Turns(s) \in Seq(NonSystem)
         /\ Along(MessageTurns, Turns(s)) = Along(MessageTurns, s)
<1>1. Turns(s) = Along(Spoken, s)
  BY TurnsIs
<1>2. ASSUME NEW m \in Canon
      PROVE  /\ Spoken[m] \in Seq(NonSystem)
             /\ MessageTurns[m] = Along(MessageTurns, Spoken[m])
  <2>1. CASE IsSystem(m.role)
    <3>1. Spoken[m] = <<>> /\ MessageTurns[m] = <<>>
      BY <2>1 DEF Spoken, MessageTurns
    <3>2. <<>> \in Seq(NonSystem)
      OBVIOUS
    <3>3. QED
      BY <3>1, <3>2, AlongEmpty
  <2>2. CASE ~IsSystem(m.role)
    <3>1. Spoken[m] = <<m>> /\ m \in NonSystem
      BY <2>2 DEF Spoken, NonSystem
    <3>2. MessageTurns \in [Canon -> Seq(TurnSet)]
      BY MessageFunctions
    <3>3. Along(MessageTurns, <<m>>) = MessageTurns[m]
      BY <3>2, AlongOne
    <3>4. <<m>> \in Seq(NonSystem)
      BY <3>1, OneType
    <3>5. QED
      BY <3>1, <3>3, <3>4
  <2>3. QED
    BY <2>1, <2>2
<1>3. Along(Spoken, s) \in Seq(NonSystem)
  BY <1>2, AlongTypeOn
<1>4. SeqMap(Spoken, Canon, Canon) /\ SeqMap(MessageTurns, Canon, TurnSet)
  BY SpokenFunctions, MessageFunctions DEF SeqMap
<1>5. \A m \in Canon : MessageTurns[m] = Along(MessageTurns, Spoken[m])
  BY <1>2
<1>6. Along(MessageTurns, Along(Spoken, s)) = Along(MessageTurns, s)
  BY <1>4, <1>5, AlongTwice
<1>7. QED
  BY <1>1, <1>3, <1>6

\* The messages that Anthropic's encoder makes of turns alternate, and hold
\* them.
LEMMA MessagesMerged ==
  ASSUME NEW t \in Seq(NonSystem)
  PROVE  /\ FoldLeft(AppendMessage, <<>>, t) \in Seq(Merging)
         /\ Alternate(FoldLeft(AppendMessage, <<>>, t))
         /\ Along(WireTurns, FoldLeft(AppendMessage, <<>>, t))
              = Along(MessageTurns, t)
<1> DEFINE F(u) == MessageFold!Fold(<<>>, u)
           T == {u \in Seq(NonSystem) :
                   /\ F(u) \in Seq(Merging) /\ Alternate(F(u))
                   /\ Along(WireTurns, F(u)) = Along(MessageTurns, u)}
<1>1. <<>> \in T
  <2>1. F(<<>>) = <<>>
    BY MessageFold!FoldEmpty
  <2>2. Alternate(<<>>)
    BY DEF Alternate
  <2>3. Along(WireTurns, <<>>) = <<>> /\ Along(MessageTurns, <<>>) = <<>>
    BY AlongEmpty
  <2>4. <<>> \in Seq(Merging) /\ <<>> \in Seq(NonSystem)
    OBVIOUS
  <2> HIDE DEF F
  <2>5. QED
    BY <2>1, <2>2, <2>3, <2>4
<1>2. ASSUME NEW u \in Seq(NonSystem), NEW m \in NonSystem, u \in T
      PROVE  Append(u, m) \in T
  <2>1. F(Append(u, m)) = AppendMessage(F(u), m)
    BY MessageFold!FoldAppend
  <2> HIDE DEF F
  <2>2. /\ AppendMessage(F(u), m) \in Seq(Merging)
        /\ Alternate(AppendMessage(F(u), m))
        /\ Along(WireTurns, AppendMessage(F(u), m))
             = Cat(Along(WireTurns, F(u)), MessageTurns[m])
    BY <1>2, MessageMerged
  <2>3. Along(MessageTurns, Append(u, m))
          = Cat(Along(MessageTurns, u), MessageTurns[m])
    <3>1. MessageTurns \in [Canon -> Seq(TurnSet)]
      BY MessageFunctions
    <3>2. u \in Seq(Canon) /\ m \in Canon
      BY SeqWidens, NonSystem \subseteq Canon DEF NonSystem
    <3>3. QED
      BY <3>1, <3>2, AlongAppend
  <2>4. Append(u, m) \in Seq(NonSystem)
    OBVIOUS
  <2>5. QED
    BY <1>2, <2>1, <2>2, <2>3, <2>4
<1> HIDE DEF T, F
<1>3. Seq(NonSystem) \subseteq T
  BY <1>1, <1>2, MessageFold!EverySequence
<1>4. F(t) = FoldLeft(AppendMessage, <<>>, t)
  BY SameFold DEF F
<1>5. t \in T
  BY <1>3
<1>6. /\ F(t) \in Seq(Merging) /\ Alternate(F(t))
      /\ Along(WireTurns, F(t)) = Along(MessageTurns, t)
  BY <1>5 DEF T
<1>7. QED
  BY <1>4, <1>6

\* Its decoder reads all of them, as messages with the same turns.
LEMMA MergedRead ==
  ASSUME NEW w \in Seq(Merging),
         NEW t, t = MapSeq(LAMBDA m : ReadMessage("anthropic", m), w)
  PROVE  /\ \A i \in DOMAIN w : ~Unreadable("anthropic", w[i])
         /\ t \in Seq(NonSystem)
         /\ Along(MessageTurns, t) = Along(WireTurns, w)
<1> DEFINE f == [x \in Merging |-> ReadAs(x)]
           h == [x \in Merging |-> <<ReadAs(x)>>]
<1>1. /\ [i \in DOMAIN w |-> ReadMessage("anthropic", w[i])]
           = [i \in DOMAIN w |-> ReadAs(w[i])]
      /\ \A i \in DOMAIN w : ~Unreadable("anthropic", w[i])
  BY ReadEach DEF Merging
<1>2. t = [i \in DOMAIN w |-> ReadAs(w[i])]
  BY <1>1 DEF MapSeq
<1>3. \A i \in DOMAIN w : w[i] \in Merging
  BY Elements
<1>4. t = Each(f, w)
  BY <1>2, <1>3 DEF Each
<1>5. \A x \in Merging : ReadAs(x) \in NonSystem
  BY DEF Merging, WrittenAs
<1>6. FunMap(f, Merging, NonSystem)
  BY <1>5 DEF FunMap
<1>7. \A x \in Merging : h[x] = <<f[x]>>
  OBVIOUS
<1>8. SeqMap(h, Merging, Canon)
  <2>1. ASSUME NEW x \in Merging PROVE <<ReadAs(x)>> \in Seq(Canon)
    <3>1. ReadAs(x) \in Canon
      BY <1>5 DEF NonSystem
    <3>2. QED
      BY <3>1, OneType
  <2>2. QED
    BY <2>1 DEF SeqMap
<1>9. SeqMap(MessageTurns, Canon, TurnSet)
  BY MessageFunctions DEF SeqMap
<1>10. ASSUME NEW x \in Merging
       PROVE  WireTurns[x] = Along(MessageTurns, h[x])
  <2>1. h[x] = <<ReadAs(x)>> /\ WireTurns[x] = MessageTurns[ReadAs(x)]
    BY DEF WireTurns
  <2>2. ReadAs(x) \in Canon
    BY <1>5 DEF NonSystem
  <2>3. MessageTurns \in [Canon -> Seq(TurnSet)]
    BY MessageFunctions
  <2>4. Along(MessageTurns, <<ReadAs(x)>>) = MessageTurns[ReadAs(x)]
    BY <2>2, <2>3, AlongOne
  <2>5. QED
    BY <2>1, <2>4
<1> HIDE DEF f, h
<1>11. Each(f, w) \in Seq(NonSystem) /\ Along(h, w) = Each(f, w)
  BY <1>6, <1>7, AlongEach
<1>12. \A x \in Merging : WireTurns[x] = Along(MessageTurns, h[x])
  BY <1>10
<1>13. Along(MessageTurns, Along(h, w)) = Along(WireTurns, w)
  BY <1>8, <1>9, <1>12, AlongTwice
<1>14. QED
  BY <1>1, <1>4, <1>11, <1>13

\* A request in Anthropic holds the conversation, for its decoder.
LEMMA AnthropicCarries ==
  ASSUME NEW s \in Seq(Canon),
         NEW w, w = FoldLeft(AppendMessage, <<>>, Turns(s)),
         NEW u, u = Cat(ReadSystem("anthropic", SystemText(s)),
                        MapSeq(LAMBDA m : ReadMessage("anthropic", m), w))
  PROVE  /\ \A i \in DOMAIN w : ~Unreadable("anthropic", w[i])
         /\ Alternate(w)
         /\ u \in Seq(Canon)
         /\ Transcript(u) = Transcript(s)
<1> DEFINE t == MapSeq(LAMBDA m : ReadMessage("anthropic", m), w)
<1>1. Turns(s) \in Seq(NonSystem)
      /\ Along(MessageTurns, Turns(s)) = Along(MessageTurns, s)
  BY TurnsType
<1>2. /\ w \in Seq(Merging) /\ Alternate(w)
      /\ Along(WireTurns, w) = Along(MessageTurns, s)
  BY <1>1, MessagesMerged
<1>3. /\ \A i \in DOMAIN w : ~Unreadable("anthropic", w[i])
      /\ t \in Seq(NonSystem)
      /\ Along(MessageTurns, t) = Along(WireTurns, w)
  BY <1>2, MergedRead, Zenon
<1>4. SystemText(s) = Along(SystemSaid, s) /\ SystemText(s) \in Seq(Nat)
  BY SystemTextIs, MessageFunctions, AlongType
<1>5. u = Cat(ReadSystem("anthropic", SystemText(s)), t)
  BY Zenon
<1> HIDE DEF t
<1>6. u \in Seq(Canon)
      /\ Transcript(u)
           = [system |-> SystemText(s),
              turns |-> TurnFold!Fold(<<>>, Along(MessageTurns, t))]
  BY <1>3, <1>4, <1>5, WithSystem
<1>7. Transcript(s) = [system |-> SystemText(s),
                       turns |-> TurnFold!Fold(<<>>, Along(MessageTurns, s))]
  BY <1>4, TranscriptIs
<1>8. QED
  BY <1>2, <1>3, <1>6, <1>7

-----------------------------------------------------------------------------
(* What clients say, and what is read of it.                               *)

UnreadSet ==
  [type : {"bad", "thinking"}, id : Nat, text : Seq(Nat), error : BOOLEAN]
InPartsSet ==
  [type : {"result_parts"}, id : Nat, text : Seq(Nat), error : BOOLEAN]

\* What a client of a protocol puts in a message of a role.
MayHold(p) ==
  CASE p = "anthropic" ->
         [user |-> TextSet \cup ResultSet \cup UnreadSet,
          assistant |-> TextSet \cup CallSet \cup UnreadSet]
    [] p = "responses" ->
         [developer |-> TextSet, user |-> TextSet \cup UnreadSet,
          assistant |-> TextSet, function_call |-> CallSet,
          function_call_output |-> ResultSet, reasoning |-> UnreadSet]
    [] p = "chat" ->
         [system |-> TextSet, user |-> TextSet \cup UnreadSet,
          assistant |-> TextSet \cup CallSet,
          tool |-> ResultSet \cup InPartsSet, unknown |-> TextSet]
SaidParts == ContentSet \cup UnreadSet \cup InPartsSet
Writable(p) ==
  {w \in [role : DOMAIN MayHold(p), parts : Seq(SaidParts)] :
     w.parts \in Seq(MayHold(p)[w.role])}

\* What a canonical message of a role may hold.
CanonHolds(r) == IF IsSystem(r) THEN TextSet ELSE Holds(r)

\* The roles of the clients' messages, protocol by protocol.
LEMMA HeldBy ==
  /\ DOMAIN MayHold("anthropic") = {"user", "assistant"}
  /\ DOMAIN MayHold("responses")
       = {"developer", "user", "assistant", "function_call",
          "function_call_output", "reasoning"}
  /\ DOMAIN MayHold("chat")
       = {"system", "user", "assistant", "tool", "unknown"}
BY DEF MayHold

\* What the clients' messages may hold is of these types.
LEMMA SaidKinds ==
  ASSUME NEW p \in Protocols, NEW r \in DOMAIN MayHold(p)
  PROVE  MayHold(p)[r] \subseteq SaidParts
<1>1. CASE p = "anthropic"
  BY <1>1, HeldBy DEF MayHold, SaidParts, ContentSet
<1>2. CASE p = "responses"
  BY <1>2, HeldBy DEF MayHold, SaidParts, ContentSet
<1>3. CASE p = "chat"
  BY <1>3, HeldBy DEF MayHold, SaidParts, ContentSet
<1>4. QED
  BY <1>1, <1>2, <1>3 DEF Protocols

\* A part of each type.
LEMMA SaidPartKinds ==
  /\ \A c \in TextSet : c.type = "text" /\ ReadPart(c) = c
  /\ \A c \in CallSet : c.type = "tool_call" /\ ReadPart(c) = c
  /\ \A c \in ResultSet : c.type = "tool_result" /\ ReadPart(c) = c
  /\ \A c \in UnreadSet : c.type \in {"bad", "thinking"}
  /\ \A c \in InPartsSet : c.type = "result_parts" /\ ReadPart(c) \in ResultSet
<1>1. ASSUME NEW c \in InPartsSet
      PROVE  c.type = "result_parts" /\ ReadPart(c) \in ResultSet
  <2>1. c.type = "result_parts" /\ c.id \in Nat
    BY DEF InPartsSet
  <2>2. ToolResult(c.id, <<>>, FALSE) \in ResultSet
    BY <2>1 DEF ToolResult, RequestContent, ResultSet
  <2>3. QED
    BY <2>1, <2>2 DEF ReadPart
<1>2. /\ \A c \in TextSet : c.type = "text" /\ ReadPart(c) = c
      /\ \A c \in CallSet : c.type = "tool_call" /\ ReadPart(c) = c
      /\ \A c \in ResultSet : c.type = "tool_result" /\ ReadPart(c) = c
  BY ContentSubsets, ReadPartIs
<1>3. \A c \in UnreadSet : c.type \in {"bad", "thinking"}
  BY DEF UnreadSet
<1>4. QED
  BY <1>1, <1>2, <1>3

\* The roles that a decoder reads.
LEMMA RoleRead ==
  ASSUME NEW p \in Protocols, NEW r \in DOMAIN Reads[p]
  PROVE  CanonicalRole(r) \in {"system", "developer", "user", "assistant"}
<1>1. r \in {"system", "developer", "user", "assistant", "tool",
            "function_call", "function_call_output"}
  BY ReadsAre DEF Protocols
<1>2. QED
  BY <1>1 DEF CanonicalRole

\* What a decoder reads of a part is what a canonical message of the role may
\* hold.
LEMMA ReadPartType ==
  ASSUME NEW p \in Protocols, NEW r \in DOMAIN MayHold(p),
         r \in DOMAIN Reads[p], NEW c \in MayHold(p)[r],
         c.type \in Reads[p][r]
  PROVE  ReadPart(c) \in CanonHolds(CanonicalRole(r))
<1> USE SaidPartKinds DEF CanonHolds, Holds, CanonicalRole, IsSystem
<1>1. CASE p = "anthropic"
  <2>1. r \in {"user", "assistant"}
        /\ Reads[p][r] = {"text", "tool_call", "tool_result"}
    BY <1>1, ReadsAre
  <2>2. CASE r = "user"
    <3>1. c \in TextSet \cup ResultSet \cup UnreadSet
      BY <1>1, <2>2 DEF MayHold
    <3>2. QED
      BY <2>1, <2>2, <3>1
  <2>3. CASE r = "assistant"
    <3>1. c \in TextSet \cup CallSet \cup UnreadSet
      BY <1>1, <2>3 DEF MayHold
    <3>2. QED
      BY <2>1, <2>3, <3>1
  <2>4. QED
    BY <2>1, <2>2, <2>3
<1>2. CASE p = "responses"
  <2>1. r \in {"developer", "user", "assistant", "function_call",
               "function_call_output"}
    BY <1>2, HeldBy, ReadsAre
  <2>2. CASE r \in {"developer", "user", "assistant"}
    <3>1. Reads[p][r] = {"text"} /\ c \in TextSet \cup UnreadSet
      BY <1>2, <2>2, ReadsAre DEF MayHold
    <3>2. QED
      BY <2>2, <3>1
  <2>3. CASE r = "function_call"
    <3>1. c \in CallSet
      BY <1>2, <2>3 DEF MayHold
    <3>2. QED
      BY <2>3, <3>1
  <2>4. CASE r = "function_call_output"
    <3>1. c \in ResultSet
      BY <1>2, <2>4 DEF MayHold
    <3>2. QED
      BY <2>4, <3>1
  <2>5. QED
    BY <2>1, <2>2, <2>3, <2>4
<1>3. CASE p = "chat"
  <2>1. r \in {"system", "user", "assistant", "tool"}
    BY <1>3, HeldBy, ReadsAre
  <2>2. CASE r \in {"system", "user"}
    <3>1. Reads[p][r] = {"text"} /\ c \in TextSet \cup UnreadSet
      BY <1>3, <2>2, ReadsAre DEF MayHold
    <3>2. QED
      BY <2>2, <3>1
  <2>3. CASE r = "assistant"
    <3>1. c \in TextSet \cup CallSet
      BY <1>3, <2>3 DEF MayHold
    <3>2. QED
      BY <2>3, <3>1
  <2>4. CASE r = "tool"
    <3>1. c \in ResultSet \cup InPartsSet
      BY <1>3, <2>4 DEF MayHold
    <3>2. QED
      BY <2>4, <3>1
  <2>5. QED
    BY <2>1, <2>2, <2>3, <2>4
<1>4. QED
  BY <1>1, <1>2, <1>3 DEF Protocols

\* A message that need not be refused is read as a canonical one.
LEMMA ReadMessageType ==
  ASSUME NEW p \in Protocols, NEW w \in Writable(p), ~Unreadable(p, w)
  PROVE  ReadMessage(p, w) \in Canon
<1> DEFINE s == w.parts
           r == w.role
           H == MayHold(p)[r]
           K == {c \in H : c.type \in Reads[p][r]}
           k == Keep(s, LAMBDA x : Severity(p, w, x) = "none")
           f == [c \in H |-> IF c.type \in Reads[p][r] THEN <<c>> ELSE <<>>]
           C == CanonHolds(CanonicalRole(r))
           m == MapSeq(ReadPart, k)
<1>1. s \in Seq(H) /\ r \in DOMAIN MayHold(p)
  BY DEF Writable
<1>2. r \in DOMAIN Reads[p]
  BY DEF Unreadable
<1>3. \A i \in DOMAIN s : s[i] \in H
  BY <1>1, Elements
<1>4. k \in Seq(K)
  <2>1. ASSUME NEW i \in DOMAIN s
        PROVE  Severity(p, w, s[i]) = "none" <=> s[i].type \in Reads[p][r]
    BY DEF Severity
  <2>2. [i \in DOMAIN s |-> IF Severity(p, w, s[i]) = "none" THEN <<s[i]>>
                            ELSE <<>>]
          = [i \in DOMAIN s |-> f[s[i]]]
    BY <1>3, <2>1
  <2>3. k = Along(f, s)
    BY <2>2 DEF Keep, FlatMap, MapSeq, Along
  <2>4. ASSUME NEW c \in H PROVE f[c] \in Seq(K)
    <3>1. CASE c.type \in Reads[p][r]
      <4>1. c \in K /\ f[c] = <<c>>
        BY <3>1
      <4> HIDE DEF K
      <4>2. QED
        BY <4>1, OneType
    <3>2. CASE c.type \notin Reads[p][r]
      <4>1. f[c] = <<>>
        BY <3>2
      <4>2. QED
        BY <4>1
    <3>3. QED
      BY <3>1, <3>2
  <2> HIDE DEF f, s, H, K
  <2>5. QED
    BY <1>1, <2>3, <2>4, AlongTypeOn
<1>5. ASSUME NEW c \in K PROVE ReadPart(c) \in C
  BY <1>1, <1>2, ReadPartType
<1>6. m \in Seq(C)
  <2> HIDE DEF k, K, C
  <2>1. \A i \in DOMAIN k : ReadPart(k[i]) \in C
    BY <1>4, <1>5, Elements
  <2>2. m = [i \in DOMAIN k |-> ReadPart(k[i])]
    BY DEF MapSeq
  <2> HIDE DEF m
  <2>3. QED
    BY <1>4, <2>1, <2>2
<1>7. ReadMessage(p, w) = Message(CanonicalRole(r), m)
  BY Zenon DEF ReadMessage
<1> HIDE DEF m
<1>8. ASSUME NEW q \in {"system", "developer", "user", "assistant"},
             NEW x \in Seq(CanonHolds(q))
      PROVE  Message(q, x) \in Canon
  <2>1. CASE q \in {"system", "developer"}
    <3>1. x \in Seq(TextSet)
      BY <2>1 DEF CanonHolds, IsSystem
    <3>2. QED
      BY <2>1, <3>1, CanonMessage DEF Canon
  <2>2. CASE q = "user"
    <3>1. x \in Seq(TextSet \cup ResultSet)
      BY <2>2 DEF CanonHolds, IsSystem, Holds
    <3>2. QED
      BY <2>2, <3>1, CanonMessage DEF CanonOf
  <2>3. CASE q = "assistant"
    <3>1. x \in Seq(TextSet \cup CallSet)
      BY <2>3 DEF CanonHolds, IsSystem, Holds
    <3>2. QED
      BY <2>3, <3>1, CanonMessage DEF CanonOf
  <2>4. QED
    BY <2>1, <2>2, <2>3
<1>9. QED
  BY <1>2, <1>6, <1>7, <1>8, RoleRead

\* A request that need not be refused is decoded to canonical messages.
LEMMA Decoded ==
  ASSUME NEW p \in Protocols, NEW b, b.system \in Seq(Nat),
         b.messages \in Seq(Writable(p)), ~Refuses(p, b)
  PROVE  DecodeRequest(p, b).messages \in Seq(Canon)
<1> DEFINE w == b.messages
           t == MapSeq(LAMBDA m : ReadMessage(p, m), w)
<1>1. \A i \in DOMAIN w : ~Unreadable(p, w[i])
  BY DEF Refuses
<1>2. \A i \in DOMAIN w : w[i] \in Writable(p)
  BY Elements
<1>3. \A i \in DOMAIN w : ReadMessage(p, w[i]) \in Canon
  BY <1>1, <1>2, ReadMessageType
<1> HIDE DEF w
<1>4. t = [i \in DOMAIN w |-> ReadMessage(p, w[i])]
  BY DEF MapSeq
<1>5. w \in Seq(Writable(p))
  BY DEF w
<1> HIDE DEF t
<1>6. t \in Seq(Canon)
  BY <1>3, <1>4, <1>5
<1>7. ReadSystem(p, b.system) \in Seq(Canon)
  BY ReadSystemIs
<1>8. DecodeRequest(p, b).messages = Cat(ReadSystem(p, b.system), t)
  BY Zenon DEF DecodeRequest, Cat, t, w
<1>9. QED
  BY <1>6, <1>7, <1>8, CatType

-----------------------------------------------------------------------------
(* Options.                                                                *)

\* A tool that is not strict, for the protocols that do not have that.
LEMMA UnsetTools ==
  ASSUME NEW T \in SUBSET ToolSet
  PROVE  /\ Unset(T) \in SUBSET ToolSet
         /\ Unset(Unset(T)) = Unset(T)
         /\ ToolsRefused(Unset(T)) <=> ToolsRefused(T)
<1> DEFINE u(t) == [t EXCEPT !.strict = "unset"]
<1>1. ASSUME NEW t \in ToolSet
      PROVE  u(t) \in ToolSet /\ u(u(t)) = u(t) /\ u(t).name = t.name
  BY DEF ToolSet
<1>2. \A S : Unset(S) = {u(t) : t \in S}
  BY DEF Unset
<1> HIDE DEF u
<1>3. Unset(T) \in SUBSET ToolSet
  BY <1>1, <1>2
<1>4. Unset(Unset(T)) = Unset(T)
  <2>1. \A s \in Unset(T) : u(s) = s
    BY <1>1, <1>2
  <2>2. Unset(Unset(T)) = {u(s) : s \in Unset(T)}
    BY <1>2
  <2>3. QED
    BY <2>1, <2>2
<1>5. ToolsRefused(Unset(T)) <=> ToolsRefused(T)
  <2>1. ASSUME NEW t \in T, t.name = "bad"
        PROVE  ToolsRefused(Unset(T))
    <3>1. u(t) \in Unset(T)
      BY <1>2
    <3>2. u(t).name = "bad"
      BY <1>1, <2>1
    <3>3. QED
      BY <3>1, <3>2 DEF ToolsRefused
  <2>2. ASSUME NEW s \in Unset(T), s.name = "bad"
        PROVE  ToolsRefused(T)
    <3>1. PICK t \in T : s = u(t)
      BY <1>2
    <3>2. t.name = "bad"
      BY <1>1, <2>2, <3>1
    <3>3. QED
      BY <3>2 DEF ToolsRefused
  <2>3. QED
    BY <2>1, <2>2 DEF ToolsRefused
<1>6. QED
  BY <1>3, <1>4, <1>5

\* What is read of options.
LEMMA ReadOptionsIs ==
  ASSUME NEW p, NEW o \in OptionSet
  PROVE  /\ ReadOptions(p, o) \in OptionSet
         /\ ReadOptions(p, o).max = o.max
         /\ ReadOptions(p, o).stream = o.stream
         /\ ReadOptions(p, o).stop = o.stop
         /\ ReadOptions(p, o).choice = o.choice
         /\ ReadOptions(p, o).keys = {}
         /\ ReadOptions(p, o).tools
              = IF p = "anthropic" THEN Unset(o.tools) ELSE o.tools
<1> DEFINE T == IF p = "anthropic" THEN Unset(o.tools) ELSE o.tools
<1>1. o.tools \in SUBSET ToolSet
  BY DEF OptionSet
<1>2. T \in SUBSET ToolSet
  BY <1>1, UnsetTools
<1>3. ReadOptions(p, o) = [o EXCEPT !.keys = {}, !.tools = T]
  BY DEF ReadOptions, Unset
<1> HIDE DEF T
<1>4. [o EXCEPT !.keys = {}, !.tools = T] \in OptionSet
  BY <1>2 DEF OptionSet
<1>5. QED
  BY <1>3, <1>4 DEF OptionSet, T

\* What is written of options.
Offered(q, o, x) ==
  /\ x \in OptionSet
  /\ x.stream = o.stream /\ x.choice = o.choice
  /\ Unset(x.tools) = Unset(o.tools)
  /\ x.max = IF o.max > 0 THEN o.max
             ELSE IF q = "anthropic" THEN DefaultMaxTokens ELSE 0
  /\ x.stop = IF q = "responses" THEN FALSE ELSE o.stop
  /\ "unknown" \notin x.keys

\* The options of each of the encoders.
LEMMA EncodedOptions ==
  ASSUME NEW q \in Protocols, NEW r, r.options \in OptionSet,
         r.options.keys = {}
  PROVE  Offered(q, r.options, EncodeRequest(q, r).options)
<1> DEFINE o == r.options
           x == EncodeRequest(q, r).options
           T == Unset(o.tools)
<1>1. o.tools \in SUBSET ToolSet /\ o.max \in Int
  BY DEF OptionSet
<1>2. T \in SUBSET ToolSet /\ Unset(T) = T
  BY <1>1, UnsetTools
<1>3. CASE q = "anthropic"
  <2> DEFINE n == IF o.max > 0 THEN o.max ELSE DefaultMaxTokens
  <2>1. x = [o EXCEPT !.max = n, !.tools = T]
    BY <1>3, Zenon DEF EncodeRequest, EncodeAnthropicRequest, Body, Unset
  <2>2. n \in Int
    BY <1>1 DEF DefaultMaxTokens
  <2> HIDE DEF n, T, o
  <2>3. [o EXCEPT !.max = n, !.tools = T] \in OptionSet
    BY <1>2, <2>2 DEF OptionSet, o
  <2>4. /\ [o EXCEPT !.max = n, !.tools = T].max = n
        /\ [o EXCEPT !.max = n, !.tools = T].tools = T
        /\ [o EXCEPT !.max = n, !.tools = T].stop = o.stop
        /\ [o EXCEPT !.max = n, !.tools = T].stream = o.stream
        /\ [o EXCEPT !.max = n, !.tools = T].choice = o.choice
        /\ [o EXCEPT !.max = n, !.tools = T].keys = {}
    BY DEF OptionSet, o
  <2> HIDE DEF x
  <2>5. QED
    BY <1>2, <1>3, <2>1, <2>3, <2>4 DEF Offered, n, x, o, T
<1>4. CASE q = "responses"
  <2> DEFINE n == Positive(o.max)
  <2>1. x = [o EXCEPT !.max = n, !.stop = FALSE]
    BY <1>4, Zenon DEF EncodeRequest, EncodeResponsesRequest, Body
  <2>2. n \in Int /\ n = IF o.max > 0 THEN o.max ELSE 0
    BY <1>1 DEF Positive
  <2> HIDE DEF n, o
  <2>3. [o EXCEPT !.max = n, !.stop = FALSE] \in OptionSet
    BY <2>2 DEF OptionSet, o
  <2>4. /\ [o EXCEPT !.max = n, !.stop = FALSE].max = n
        /\ [o EXCEPT !.max = n, !.stop = FALSE].tools = o.tools
        /\ [o EXCEPT !.max = n, !.stop = FALSE].stop = FALSE
        /\ [o EXCEPT !.max = n, !.stop = FALSE].stream = o.stream
        /\ [o EXCEPT !.max = n, !.stop = FALSE].choice = o.choice
        /\ [o EXCEPT !.max = n, !.stop = FALSE].keys = {}
    BY DEF OptionSet, o
  <2> HIDE DEF x
  <2>5. QED
    BY <1>4, <2>1, <2>2, <2>3, <2>4 DEF Offered, x, o
<1>5. CASE q = "chat"
  <2> DEFINE n == Positive(o.max)
             k == IF o.stream THEN {"hint"} ELSE {}
  <2>1. x = [o EXCEPT !.max = n, !.keys = k]
    BY <1>5, Zenon DEF EncodeRequest, EncodeChatRequest, Body
  <2>2. n \in Int /\ n = IF o.max > 0 THEN o.max ELSE 0
    BY <1>1 DEF Positive
  <2>3. k \in SUBSET {"hint", "unknown"} /\ "unknown" \notin k
    OBVIOUS
  <2> HIDE DEF n, k, o
  <2>4. [o EXCEPT !.max = n, !.keys = k] \in OptionSet
    BY <2>2, <2>3 DEF OptionSet, o
  <2>5. /\ [o EXCEPT !.max = n, !.keys = k].max = n
        /\ [o EXCEPT !.max = n, !.keys = k].tools = o.tools
        /\ [o EXCEPT !.max = n, !.keys = k].stop = o.stop
        /\ [o EXCEPT !.max = n, !.keys = k].stream = o.stream
        /\ [o EXCEPT !.max = n, !.keys = k].choice = o.choice
        /\ [o EXCEPT !.max = n, !.keys = k].keys = k
    BY DEF OptionSet, o
  <2> HIDE DEF x
  <2>6. QED
    BY <1>5, <2>1, <2>2, <2>3, <2>4, <2>5 DEF Offered, x, o
<1>6. QED
  BY <1>3, <1>4, <1>5 DEF Protocols

\* Tools are refused for their names only.
LEMMA SameTools ==
  ASSUME NEW T \in SUBSET ToolSet, NEW U \in SUBSET ToolSet,
         Unset(T) = Unset(U)
  PROVE  ToolsRefused(T) <=> ToolsRefused(U)
BY UnsetTools

\* The options that an encoder writes its decoder does not refuse, and reads as
\* they were, but for what its protocol does not have.
LEMMA OptionsCarried ==
  ASSUME NEW q \in Protocols, NEW o \in OptionSet, NEW x, Offered(q, o, x),
         ~ToolsRefused(o.tools), ~ChoiceRefused(o.choice)
  PROVE  /\ ~FieldsRefused(q, x)
         /\ ~ToolsRefused(x.tools) /\ ~ChoiceRefused(x.choice)
         /\ ReadOptions(q, x).choice = o.choice
         /\ ReadOptions(q, x).stream = o.stream
         /\ Unset(ReadOptions(q, x).tools) = Unset(o.tools)
         /\ ReadOptions(q, x).max =
              IF o.max > 0 THEN o.max
              ELSE IF q = "anthropic" THEN DefaultMaxTokens ELSE 0
         /\ q # "responses" => ReadOptions(q, x).stop = o.stop
<1>1. /\ x \in OptionSet
      /\ x.stream = o.stream /\ x.choice = o.choice
      /\ Unset(x.tools) = Unset(o.tools)
      /\ x.max = IF o.max > 0 THEN o.max
                 ELSE IF q = "anthropic" THEN DefaultMaxTokens ELSE 0
      /\ x.stop = IF q = "responses" THEN FALSE ELSE o.stop
      /\ "unknown" \notin x.keys
  BY DEF Offered
<1>2. x.tools \in SUBSET ToolSet /\ o.tools \in SUBSET ToolSet /\ o.max \in Int
  BY <1>1 DEF OptionSet
<1>3. ~FieldsRefused(q, x)
  <2>1. q = "anthropic" => x.max > 0
    BY <1>1, <1>2 DEF DefaultMaxTokens
  <2>2. q = "responses" => ~x.stop
    BY <1>1
  <2>3. q = "anthropic" => ~(x.max <= 0)
    <3>1. x.max \in Int
      BY <1>1 DEF OptionSet
    <3>2. QED
      BY <2>1, <3>1
  <2>4. QED
    BY <1>1, <2>2, <2>3 DEF FieldsRefused
<1>4. ~ToolsRefused(x.tools)
  BY <1>1, <1>2, SameTools
<1>5. ~ChoiceRefused(x.choice)
  BY <1>1 DEF ChoiceRefused
<1>6. Unset(ReadOptions(q, x).tools) = Unset(o.tools)
  <2>1. ReadOptions(q, x).tools
          = IF q = "anthropic" THEN Unset(x.tools) ELSE x.tools
    BY <1>1, ReadOptionsIs
  <2>2. Unset(Unset(x.tools)) = Unset(x.tools)
    BY <1>2, UnsetTools
  <2>3. QED
    BY <1>1, <2>1, <2>2
<1>7. /\ ReadOptions(q, x).max = x.max
      /\ ReadOptions(q, x).stream = x.stream
      /\ ReadOptions(q, x).stop = x.stop
      /\ ReadOptions(q, x).choice = x.choice
  <2>1. x \in OptionSet
    BY <1>1
  <2>2. QED
    BY <2>1, ReadOptionsIs
<1>8. QED
  BY <1>1, <1>3, <1>4, <1>5, <1>6, <1>7

-----------------------------------------------------------------------------
(* The invariant of the translation of requests.                           *)

RequestTypes ==
  /\ from \in Protocols /\ to \in Protocols \ {from}
  /\ body \in [system : Seq(Nat), messages : Seq(Writable(from)),
               options : Options]

\* What TranslateRequest has made of the request that there is.
Translation ==
  \/ translated = NotYet
  \/ translated = Refused /\ Refuses(from, body)
  \/ /\ ~Refuses(from, body)
     /\ translated = Sent(DecodeRequest(from, body),
                          EncodeRequest(to, DecodeRequest(from, body)))

RequestInv == RequestTypes /\ Translation

\* A new part has a number, and the calls that there are have one.
LEMMA Numbered ==
  ASSUME RequestTypes
  PROVE  PartsSaid \in Nat /\ Asked \subseteq Nat
<1> DEFINE s == body.messages
           f == [w \in Writable(from) |-> w.parts]
<1>1. s \in Seq(Writable(from))
  BY DEF RequestTypes
<1>2. \A i \in DOMAIN s : s[i] \in Writable(from)
  BY <1>1, Elements
<1>3. \A w \in Writable(from) : w.parts \in Seq(SaidParts)
  BY DEF Writable
<1>4. PartsSaid \in Nat
  <2>1. [i \in DOMAIN s |-> s[i].parts] = [i \in DOMAIN s |-> f[s[i]]]
    BY <1>2
  <2>2. FlatMap(LAMBDA m : m.parts, s) = Along(f, s)
    BY <2>1 DEF FlatMap, MapSeq, Along
  <2>3. PartsSaid = Len(Along(f, s))
    BY <2>2 DEF PartsSaid
  <2>4. \A w \in Writable(from) : f[w] \in Seq(SaidParts)
    BY <1>3
  <2> HIDE DEF f, s
  <2>5. Along(f, s) \in Seq(SaidParts)
    BY <1>1, <2>4, AlongTypeOn
  <2>6. QED
    BY <2>3, <2>5
<1>5. ASSUME NEW i \in DOMAIN s, NEW c \in ToSet(s[i].parts)
      PROVE  c.id \in Nat
  <2>1. s[i].parts \in Seq(SaidParts)
    BY <1>2, <1>3
  <2>2. c \in SaidParts
    BY <2>1, Elements DEF ToSet
  <2>3. QED
    BY <2>2 DEF SaidParts, ContentSet, TextSet, CallSet, ResultSet, UnreadSet,
                InPartsSet
<1>6. Asked \subseteq Nat
  BY <1>5 DEF Asked
<1>7. QED
  BY <1>4, <1>6

\* What a client may add is what its protocol's messages may hold.
LEMMA Uttered ==
  ASSUME RequestTypes
  PROVE  /\ DOMAIN Utterances = DOMAIN MayHold(from)
         /\ \A r \in DOMAIN Utterances :
              Utterances[r] \subseteq MayHold(from)[r]
<1>1. PartsSaid \in Nat /\ Asked \subseteq Nat
  BY Numbered
<1>2. <<PartsSaid + 1>> \in Seq(Nat) /\ <<>> \in Seq(Nat)
  <2> DEFINE n == PartsSaid + 1
  <2>1. n \in Nat
    BY <1>1
  <2> HIDE DEF n
  <2>2. <<n>> \in Seq(Nat)
    BY <2>1
  <2>3. QED
    BY <2>2 DEF n
<1>3. Texts \subseteq TextSet
  BY <1>2 DEF Texts, Text, RequestContent, TextSet
<1>4. Calls \subseteq CallSet
  BY <1>1, <1>2 DEF Calls, ToolCall, RequestContent, CallSet
<1>5. ASSUME NEW E, E \subseteq BOOLEAN PROVE Results(E) \subseteq ResultSet
  <2> DEFINE x == <<PartsSaid + 1>>
  <2>1. ASSUME NEW i \in Asked, NEW e \in E
        PROVE  ToolResult(i, x, e) \in ResultSet
    <3>1. i \in Nat /\ e \in BOOLEAN /\ x \in Seq(Nat)
      BY <1>1, <1>2, <1>5
    <3> HIDE DEF x
    <3>2. QED
      BY <3>1 DEF ToolResult, RequestContent, ResultSet
  <2>2. Results(E) = {ToolResult(i, x, e) : i \in Asked, e \in E}
    BY DEF Results
  <2> HIDE DEF x
  <2>3. QED
    BY <2>1, <2>2
<1>6. Other("bad") \subseteq UnreadSet /\ Other("thinking") \subseteq UnreadSet
  BY <1>2 DEF Other, RequestContent, UnreadSet
<1>7. InParts \subseteq InPartsSet
  <2>1. \A r \in ResultSet : [r EXCEPT !.type = "result_parts"] \in InPartsSet
    BY DEF ResultSet, InPartsSet
  <2>2. {FALSE} \subseteq BOOLEAN
    OBVIOUS
  <2>3. Results({FALSE}) \subseteq ResultSet
    BY <1>5, <2>2
  <2>4. QED
    BY <2>1, <2>3 DEF InParts
<1>8. /\ Results({FALSE}) \subseteq ResultSet
      /\ Results(BOOLEAN) \subseteq ResultSet
  <2>1. {FALSE} \subseteq BOOLEAN
    OBVIOUS
  <2>2. QED
    BY <1>5, <2>1
<1>9. CASE from = "anthropic"
  BY <1>3, <1>4, <1>6, <1>8, <1>9 DEF Utterances, MayHold
<1>10. CASE from = "responses"
  BY <1>3, <1>4, <1>6, <1>8, <1>10 DEF Utterances, MayHold
<1>11. CASE from = "chat"
  BY <1>3, <1>4, <1>6, <1>7, <1>8, <1>11 DEF Utterances, MayHold
<1>12. QED
  BY <1>9, <1>10, <1>11 DEF Protocols, RequestTypes

\* A request with another part is one.
LEMMA Composed ==
  ASSUME RequestTypes, NEW role \in DOMAIN Utterances,
         NEW part \in Utterances[role], Compose(role, part)
  PROVE  RequestTypes'
<1> DEFINE s == body.messages
           H == MayHold(from)[role]
           w == WireMessage(role, <<part>>)
           last == Len(s)
<1>1. /\ from \in Protocols /\ to \in Protocols \ {from}
      /\ body \in [system : Seq(Nat), messages : Seq(Writable(from)),
                   options : Options]
  BY DEF RequestTypes
<1>2. s \in Seq(Writable(from))
  BY <1>1
<1>3. role \in DOMAIN MayHold(from) /\ part \in H
  BY Uttered
<1>4. H \subseteq SaidParts
  BY <1>1, <1>3, SaidKinds
<1>5. from' = from /\ to' = to
  BY DEF Compose
<1> HIDE DEF H
<1>6. w \in Writable(from)
  <2>1. <<part>> \in Seq(H) /\ <<part>> \in Seq(SaidParts)
    BY <1>3, <1>4, OneType
  <2>2. QED
    BY <1>3, <2>1 DEF Writable, WireMessage, H
<1>7. \E t \in Seq(Writable(from)) : body' = [body EXCEPT !.messages = t]
  <2>1. CASE body' = [body EXCEPT !.messages = Append(@, w)]
    <3>1. Append(s, w) \in Seq(Writable(from))
      BY <1>2, <1>6, CatAppend
    <3>2. QED
      BY <2>1, <3>1
  <2>2. CASE /\ last > 0 /\ s[last].role = role
             /\ body' = [body EXCEPT !.messages[last].parts = Append(@, part)]
    <3> DEFINE x == s[last]
               y == [x EXCEPT !.parts = Append(@, part)]
               t == [s EXCEPT ![last] = y]
    <3>1. last \in Nat /\ last \in DOMAIN s
      BY <1>2, <2>2
    <3>2. x \in Writable(from) /\ x.role = role
      BY <1>2, <2>2, <3>1, Elements
    <3>3. x.parts \in Seq(H) /\ x.parts \in Seq(SaidParts)
      BY <3>2 DEF Writable, H
    <3>4. Append(x.parts, part) \in Seq(H)
          /\ Append(x.parts, part) \in Seq(SaidParts)
      BY <1>3, <1>4, <3>3
    <3>5. y \in Writable(from)
      <4> DEFINE q == Append(x.parts, part)
      <4>1. q \in Seq(H) /\ q \in Seq(SaidParts)
        BY <3>4
      <4>2. x \in [role : DOMAIN MayHold(from), parts : Seq(SaidParts)]
        BY <3>2 DEF Writable
      <4> HIDE DEF q, x
      <4>3. [x EXCEPT !.parts = q] \in Writable(from)
        BY <3>2, <4>1, <4>2 DEF Writable, H
      <4>4. QED
        BY <4>3 DEF q, x
    <3>6. t \in Seq(Writable(from))
      <4> HIDE DEF y, s, x
      <4>1. s \in Seq(Writable(from))
        BY <1>2
      <4>2. QED
        BY <3>1, <3>5, <4>1
    <3>7. body' = [body EXCEPT !.messages = t]
      BY <2>2
    <3>8. QED
      BY <3>6, <3>7
  <2>3. QED
    BY <2>1, <2>2 DEF Compose
<1>8. PICK t \in Seq(Writable(from)) : body' = [body EXCEPT !.messages = t]
  BY <1>7
<1>9. body' \in [system : Seq(Nat), messages : Seq(Writable(from)),
                 options : Options]
  BY <1>1, <1>8
<1>10. QED
  BY <1>1, <1>5, <1>9 DEF RequestTypes

\* An encoder has nothing to refuse in canonical messages.
LEMMA EncoderAccepts ==
  ASSUME NEW q, NEW r, r.messages \in Seq(Canon)
  PROVE  ~EncodeRefuses(q, r)
<1>1. ASSUME NEW m \in Canon, IsSystem(m.role)
      PROVE  OfType(m.content, "text") = m.content
  <2> DEFINE s == m.content
  <2>1. s \in Seq(TextSet)
    BY <1>1, CanonKinds
  <2>2. \A c \in TextSet : Kept("text")[c] = <<c>>
    BY ContentSubsets DEF Kept
  <2> HIDE DEF s
  <2>3. Along(Kept("text"), s) = s
    BY <2>1, <2>2, AlongItself
  <2>4. s \in Seq(ContentSet)
    BY <2>1, SeqWidens, ContentSubsets
  <2>5. OfType(s, "text") = Along(Kept("text"), s)
    BY <2>4, OfTypeIs
  <2>6. QED
    BY <2>3, <2>5 DEF s
<1>2. \A i \in DOMAIN r.messages : r.messages[i] \in Canon
  BY Elements
<1>3. QED
  BY <1>1, <1>2 DEF EncodeRefuses

\* Reading messages, as an operator that the provers leave alone.
ReadAll(p, w) == MapSeq(LAMBDA m : ReadMessage(p, m), w)

\* What each encoder writes its decoder reads, whole, as the same conversation.
LEMMA EncodingCarries ==
  ASSUME NEW q \in Protocols, NEW r, r.messages \in Seq(Canon),
         NEW x, x = EncodeRequest(q, r)
  PROVE  /\ \A i \in DOMAIN x.messages : ~Unreadable(q, x.messages[i])
         /\ q = "anthropic" => Alternate(x.messages)
         /\ DecodeRequest(q, x).messages \in Seq(Canon)
         /\ Transcript(DecodeRequest(q, x).messages) = Transcript(r.messages)
<1> DEFINE s == r.messages
           w == x.messages
           t == ReadAll(q, w)
           u == Cat(ReadSystem(q, x.system), t)
<1>1. DecodeRequest(q, x).messages = u
  BY Zenon DEF DecodeRequest, Cat, ReadAll
<1>2. s \in Seq(Canon)
  OBVIOUS
<1> HIDE DEF u
<1>3. CASE q = "anthropic"
  <2>1. x.system = SystemText(s) /\ w = FoldLeft(AppendMessage, <<>>, Turns(s))
    BY <1>3, Zenon DEF EncodeRequest, EncodeAnthropicRequest, Body
  <2>2. u = Cat(ReadSystem("anthropic", SystemText(s)),
                MapSeq(LAMBDA m : ReadMessage("anthropic", m), w))
    <3>1. u = Cat(ReadSystem("anthropic", SystemText(s)),
                  ReadAll("anthropic", w))
      BY <1>3, <2>1 DEF u
    <3>2. QED
      BY <3>1, Zenon DEF ReadAll
  <2> HIDE DEF w, s
  <2>3. /\ \A i \in DOMAIN w : ~Unreadable("anthropic", w[i])
        /\ Alternate(w)
        /\ u \in Seq(Canon)
        /\ Transcript(u) = Transcript(s)
    BY <1>2, <2>1, <2>2, AnthropicCarries, Zenon
  <2>4. QED
    BY <1>1, <1>3, <2>3 DEF w, s
<1>4. CASE q = "responses"
  <2>1. x.system = SystemText(s) /\ w = FlatMap(ResponsesItems, Turns(s))
    BY <1>4, Zenon DEF EncodeRequest, EncodeResponsesRequest, Body
  <2>2. u = Cat(ReadSystem("responses", SystemText(s)),
                MapSeq(LAMBDA m : ReadMessage("responses", m), w))
    <3>1. u = Cat(ReadSystem("responses", SystemText(s)),
                  ReadAll("responses", w))
      BY <1>4, <2>1 DEF u
    <3>2. QED
      BY <3>1, Zenon DEF ReadAll
  <2> HIDE DEF w, s
  <2>3. /\ \A i \in DOMAIN w : ~Unreadable("responses", w[i])
        /\ u \in Seq(Canon)
        /\ Transcript(u) = Transcript(s)
    BY <1>2, <2>1, <2>2, ResponsesCarries, Zenon
  <2>4. QED
    BY <1>1, <1>4, <2>3 DEF w, s
<1>5. CASE q = "chat"
  <2>1. x.system = <<>> /\ w = FlatMap(ChatMessages, s)
    BY <1>5, Zenon DEF EncodeRequest, EncodeChatRequest, Body
  <2>2. t = MapSeq(LAMBDA m : ReadMessage("chat", m), FlatMap(ChatMessages, s))
    <3>1. t = ReadAll("chat", FlatMap(ChatMessages, s))
      BY <1>5, <2>1
    <3>2. QED
      BY <3>1, Zenon DEF ReadAll
  <2> HIDE DEF w, s, t
  <2>3. /\ w \in Seq(WrittenAs("chat", Canon))
        /\ t \in Seq(Canon)
        /\ Transcript(t) = Transcript(s)
    BY <1>2, <2>1, <2>2, ChatCarries, Zenon
  <2>4. \A i \in DOMAIN w : ~Unreadable("chat", w[i])
    BY <2>3, ReadEach
  <2>5. u = t
    <3>1. u = Cat(<<>>, t)
      BY <2>1 DEF u, ReadSystem
    <3>2. QED
      BY <2>3, <3>1, CatEmpty
  <2>6. QED
    BY <1>1, <1>5, <2>3, <2>4, <2>5 DEF w, s
<1>6. QED
  BY <1>3, <1>4, <1>5 DEF Protocols

\* The hooks are shown the same conversation.
LEMMA HooksShown ==
  ASSUME NEW r, r.messages \in Seq(Canon)
  PROVE  Transcript(DecodeRequest("chat", ForHooks(r)).messages)
           = Transcript(r.messages)
<1> DEFINE s == r.messages
           t == MapSeq(LAMBDA m : ReadMessage("chat", m),
                       FlatMap(ChatMessages, s))
<1>1. s \in Seq(Canon)
  OBVIOUS
<1>2. /\ ForHooks(r).system = <<>>
      /\ ForHooks(r).messages = FlatMap(ChatMessages, s)
  BY Zenon DEF ForHooks, Body
<1>3. DecodeRequest("chat", ForHooks(r)).messages
        = Cat(ReadSystem("chat", <<>>), t)
  BY <1>2, Zenon DEF DecodeRequest, Cat
<1> HIDE DEF s
<1>4. t \in Seq(Canon) /\ Transcript(t) = Transcript(s)
  BY <1>1, ChatCarries, Zenon
<1>5. ReadSystem("chat", <<>>) = <<>>
  BY DEF ReadSystem
<1> HIDE DEF t
<1>6. Cat(<<>>, t) = t
  BY <1>4, CatEmpty
<1>7. QED
  BY <1>3, <1>4, <1>5, <1>6 DEF s

\* Every step keeps the invariant.
LEMMA RequestStep ==
  ASSUME RequestInv, [RequestNext]_requestVars
  PROVE  RequestInv'
<1>1. ASSUME NEW role \in DOMAIN Utterances, NEW part \in Utterances[role],
             Compose(role, part)
      PROVE  RequestInv'
  <2>1. RequestTypes'
    BY <1>1, Composed DEF RequestInv
  <2>2. translated' = NotYet
    BY <1>1 DEF Compose
  <2>3. QED
    BY <2>1, <2>2 DEF RequestInv, Translation
<1>2. CASE TranslateRequest
  <2> DEFINE r == DecodeRequest(from, body)
  <2>1. from' = from /\ to' = to /\ body' = body
    BY <1>2 DEF TranslateRequest
  <2>2. RequestTypes'
    BY <1>2 DEF RequestInv, RequestTypes, TranslateRequest
  <2>3. translated' = IF Refuses(from, body) \/ EncodeRefuses(to, r)
                      THEN Refused ELSE Sent(r, EncodeRequest(to, r))
    BY <1>2, Zenon DEF TranslateRequest
  <2>4. ~Refuses(from, body) => ~EncodeRefuses(to, r)
    <3>1. /\ from \in Protocols /\ body.system \in Seq(Nat)
          /\ body.messages \in Seq(Writable(from))
      BY DEF RequestInv, RequestTypes
    <3>2. ~Refuses(from, body) => r.messages \in Seq(Canon)
      BY <3>1, Decoded
    <3>3. QED
      BY <3>2, EncoderAccepts
  <2> HIDE DEF r
  <2>5. \/ translated' = Refused /\ Refuses(from, body)
        \/ ~Refuses(from, body) /\ translated' = Sent(r, EncodeRequest(to, r))
    <3>1. CASE Refuses(from, body)
      BY <2>3, <3>1
    <3>2. CASE ~Refuses(from, body)
      BY <2>3, <2>4, <3>2
    <3>3. QED
      BY <3>1, <3>2
  <2>6. Translation'
    <3>1. CASE translated' = Refused /\ Refuses(from, body)
      BY <2>1, <3>1 DEF Translation
    <3>2. CASE /\ ~Refuses(from, body)
               /\ translated' = Sent(r, EncodeRequest(to, r))
      BY <2>1, <3>2 DEF Translation, r
    <3>3. QED
      BY <2>5, <3>1, <3>2
  <2>7. QED
    BY <2>2, <2>6 DEF RequestInv
<1>3. CASE UNCHANGED requestVars
  BY <1>3 DEF RequestInv, RequestTypes, Translation, requestVars
<1>4. QED
  BY <1>1, <1>2, <1>3 DEF RequestNext

\* TranslateRequest makes of a request what its decoder and the encoder of the
\* provider make of it, whole, or refuses it for what its decoder finds in it
\* (proxy/codec).
THEOREM RequestInvariant == RequestSpec => []RequestInv
<1>1. RequestInit => RequestInv
  <2> SUFFICES ASSUME RequestInit PROVE RequestInv
    OBVIOUS
  <2>1. PICK o \in Options,
             x \in IF from = "chat" THEN {<<>>} ELSE {<<>>, <<0>>} :
          body = Body(x, <<>>, o)
    BY DEF RequestInit
  <2>2. x \in Seq(Nat)
    <3>1. <<0>> \in Seq(Nat) /\ <<>> \in Seq(Nat)
      BY OneType, 0 \in Nat
    <3>2. QED
      BY <3>1
  <2>3. RequestTypes
    BY <2>1, <2>2 DEF RequestInit, RequestTypes, Body
  <2>4. QED
    BY <2>3 DEF RequestInit, RequestInv, Translation
<1>2. RequestInv /\ [RequestNext]_requestVars => RequestInv'
  BY RequestStep
<1>3. QED
  BY <1>1, <1>2, PTL DEF RequestSpec

\* An encoder has nothing left to refuse: TranslateRequest refuses a request if
\* and only if its client has put something in it that the decoder of its own
\* protocol refuses (BlockingDiagnostics in proxy/codec).
THEOREM RefusalIsFromDecoding == RequestSpec => []RefusalIsTheClients
<1>1. RequestInv => RefusalIsTheClients
  BY DEF RequestInv, Translation, RefusalIsTheClients, NotYet, Refused, Sent
<1>2. QED
  BY <1>1, RequestInvariant, PTL

\* Whatever a client says in its protocol, TranslateRequest sends the provider a
\* request of its own that it need not refuse, and that holds of each turn the
\* texts, the calls and the results, each of the three in order, and the options
\* that the provider's protocol has.  That a result is an error, stop sequences
\* towards Responses, and the place of a call among texts are not claimed.  What
\* requestForHooks shows the hooks has the same turns.
THEOREM ConversationCarried == RequestSpec => []RequestCarried
<1>1. ASSUME RequestInv, translated.status = "sent" PROVE RequestCarried
  <2> DEFINE was == translated.request
             x == translated.wire
             o == was.options
  <2>1. /\ ~Refuses(from, body)
        /\ was = DecodeRequest(from, body) /\ x = EncodeRequest(to, was)
    BY <1>1 DEF RequestInv, Translation, NotYet, Refused, Sent
  <2>2. /\ from \in Protocols /\ to \in Protocols /\ body.system \in Seq(Nat)
        /\ body.messages \in Seq(Writable(from)) /\ body.options \in OptionSet
    BY <1>1, OptionsAssumption DEF RequestInv, RequestTypes
  <2>3. was.messages \in Seq(Canon)
    BY <2>1, <2>2, Decoded
  <2>4. o = ReadOptions(from, body.options)
    <3>1. DecodeRequest(from, body).options = ReadOptions(from, body.options)
      BY Zenon DEF DecodeRequest
    <3>2. QED
      BY <2>1, <3>1
  <2>5. /\ o \in OptionSet /\ o.keys = {}
        /\ ~ToolsRefused(o.tools) /\ ~ChoiceRefused(o.choice)
    <3>1. /\ ~ToolsRefused(body.options.tools)
          /\ ~ChoiceRefused(body.options.choice)
      BY <2>1 DEF Refuses
    <3>2. body.options.tools \in SUBSET ToolSet
      BY <2>2 DEF OptionSet
    <3>3. /\ o \in OptionSet /\ o.keys = {} /\ o.choice = body.options.choice
          /\ o.tools = IF from = "anthropic" THEN Unset(body.options.tools)
                       ELSE body.options.tools
      BY <2>2, <2>4, ReadOptionsIs
    <3>4. QED
      BY <3>1, <3>2, <3>3, UnsetTools
  <2> HIDE DEF was
  <2>6. Offered(to, o, x.options)
    BY <2>1, <2>2, <2>5, EncodedOptions
  <2> HIDE DEF x, o
  <2>7. /\ ~FieldsRefused(to, x.options)
        /\ ~ToolsRefused(x.options.tools) /\ ~ChoiceRefused(x.options.choice)
        /\ ReadOptions(to, x.options).choice = o.choice
        /\ ReadOptions(to, x.options).stream = o.stream
        /\ Unset(ReadOptions(to, x.options).tools) = Unset(o.tools)
        /\ ReadOptions(to, x.options).max =
             IF o.max > 0 THEN o.max
             ELSE IF to = "anthropic" THEN DefaultMaxTokens ELSE 0
        /\ to # "responses" => ReadOptions(to, x.options).stop = o.stop
    BY <2>2, <2>5, <2>6, OptionsCarried
  <2>8. /\ \A i \in DOMAIN x.messages : ~Unreadable(to, x.messages[i])
        /\ to = "anthropic" => Alternate(x.messages)
        /\ Transcript(DecodeRequest(to, x).messages) = Transcript(was.messages)
    BY <2>1, <2>2, <2>3, EncodingCarries
  <2>9. ~Refuses(to, x)
    BY <2>7, <2>8 DEF Refuses
  <2>10. DecodeRequest(to, x).options = ReadOptions(to, x.options)
    BY Zenon DEF DecodeRequest
  <2>11. Transcript(DecodeRequest("chat", ForHooks(was)).messages)
           = Transcript(was.messages)
    BY <2>3, HooksShown
  <2>12. QED
    BY <2>7, <2>8, <2>9, <2>10, <2>11 DEF RequestCarried, was, x, o
<1>2. RequestInv => RequestCarried
  BY <1>1 DEF RequestCarried
<1>3. QED
  BY <1>2, RequestInvariant, PTL
=============================================================================

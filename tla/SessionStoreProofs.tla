-------------------------- MODULE SessionStoreProofs --------------------------
(***************************************************************************)
(* Theorems about the session files, for every set of sessions and of      *)
(* prompts, with deletions, crashes and saves that fail.                   *)
(***************************************************************************)
EXTENDS SessionStore, TLAPS

\* A sequence with one element more.
LEMMA Appended ==
  ASSUME NEW S, NEW s \in Seq(S), NEW e \in S
  PROVE  /\ Append(s, e) \in Seq(S)
         /\ Len(s) \in Nat /\ Len(Append(s, e)) = Len(s) + 1
         /\ \A i \in 1..Len(s) : Append(s, e)[i] = s[i]
         /\ Append(s, e)[Len(s) + 1] = e
         /\ \A i \in 1..Len(Append(s, e)) : i \in 1..Len(s) \/ i = Len(s) + 1
OBVIOUS

\* An event is among those of a session.
Holds(s, e) == \E i \in 1..Len(s) : s[i] = e

Events == [kind : {"user", "agent"}, of : Prompts]
Files == [state : {"absent", "whole", "torn"}, events : Seq(Events)]

StoreTypeOK ==
  /\ file \in [Sessions -> Files]
  /\ born \in [Sessions -> {"no", "saving", "answered", "lost"}]
  /\ pc \in [Prompts -> Pcs]
  /\ copy \in [Prompts -> Seq(Events)]
  /\ holds \subseteq Prompts

\* Turns of session s: each event at most once, an answer behind its question.
Turns(s, events) ==
  \A i \in 1..Len(events) :
    /\ SessionOf[events[i].of] = s
    /\ \A j \in 1..Len(events) : events[j] = events[i] => j = i
    /\ events[i].kind = "agent" =>
         i > 1 /\ events[i - 1] = Event("user", events[i].of)

TurnInv ==
  /\ \A s \in Sessions : file[s].state = "whole" => Turns(s, file[s].events)
  /\ \A p \in Prompts : Turns(SessionOf[p], copy[p])

\* What a prompt has still to record is in no file and in no copy.
Nowhere(e) ==
  /\ \A s \in Sessions : file[s].state = "whole" => ~Holds(file[s].events, e)
  /\ \A q \in Prompts : ~Holds(copy[q], e)

NewInv ==
  \A p \in Prompts :
    /\ pc[p] = "unsent" => Nowhere(Event("user", p))
    /\ pc[p] \in {"unsent", "loaded", "saving", "running"} =>
         Nowhere(Event("agent", p))

\* A prompt's copy ends with its message until the agent has answered.
LastInv ==
  \A p \in Prompts : pc[p] \in {"loaded", "saving", "running"} =>
    copy[p] # <<>> /\ copy[p][Len(copy[p])] = Event("user", p)

\* Only a session that the client knows is prompted.
BornInv ==
  \A p \in Prompts : pc[p] # "unsent" => born[SessionOf[p]] = "answered"

AloneInv ==
  \A p, q \in Prompts :
    p # q /\ Active(p) /\ Active(q) /\ SessionOf[p] = SessionOf[q] =>
      SessionOf[p] \in shared

\* Between the halves of a save a file is empty, unless another prompt writes.
SaveInv ==
  \A p \in Prompts :
    /\ pc[p] \in {"saving", "finishing", "rescuing"}
    /\ SessionOf[p] \notin shared
    =>
      /\ file[SessionOf[p]] \in {Absent, Torn(<<>>)}
      /\ SessionOf[p] \notin deleted => p \in holds

\* The turn of p is among the events.
Turn(p, events) ==
  \E i \in 1..(Len(events) - 1) : /\ events[i] = Event("user", p)
                                  /\ events[i + 1] = Event("agent", p)

\* An answered turn is in every copy that may come to replace the file.
AnswerInv ==
  /\ \A p \in Prompts : pc[p] \in {"replied", "finishing", "end_turn"} =>
       Turn(p, copy[p])
  /\ \A p, q \in Prompts :
       /\ pc[p] = "end_turn" /\ Active(q)
       /\ SessionOf[p] = SessionOf[q] /\ SessionOf[p] \notin shared
       => Turn(p, copy[q])

\* A list has found, or has still to look at, what has been whole so far.
ListInv ==
  /\ \A s, t \in loaded : s = t
  /\ listing = "reading" => steady \subseteq found \cup left \cup loaded

IInv ==
  /\ StoreTypeOK
  /\ TurnInv /\ NewInv /\ LastInv
  /\ BornInv /\ AloneInv /\ SaveInv
  /\ AnswerInv /\ AnsweredInTurnIsRecorded
  /\ ReadableUnlessSaving
  /\ ListInv /\ ListIsComplete

-----------------------------------------------------------------------------
(* Sequences of events.                                                    *)

\* What a sequence holds when an event has been appended.
LEMMA HoldsAppended ==
  ASSUME NEW events \in Seq(Events), NEW e \in Events, NEW f
  PROVE  Holds(Append(events, e), f) <=> Holds(events, f) \/ e = f
<1>1. /\ Len(events) \in Nat /\ Len(Append(events, e)) = Len(events) + 1
      /\ \A i \in 1..Len(events) : Append(events, e)[i] = events[i]
      /\ Append(events, e)[Len(events) + 1] = e
  BY Appended
<1>2. QED
  BY <1>1 DEF Holds

\* A new event extends the turns: a message, or the answer to the last one.
LEMMA TurnsAppended ==
  ASSUME NEW s, NEW events \in Seq(Events), Turns(s, events), NEW e \in Events,
         SessionOf[e.of] = s, ~Holds(events, e),
         e.kind = "agent" => /\ events # <<>>
                             /\ events[Len(events)] = Event("user", e.of)
  PROVE  Turns(s, Append(events, e))
<1> DEFINE t == Append(events, e)
<1>1. /\ Len(events) \in Nat /\ Len(t) = Len(events) + 1
      /\ \A i \in 1..Len(events) : t[i] = events[i]
      /\ t[Len(events) + 1] = e
  BY Appended
<1>2. events # <<>> => Len(events) # 0
  OBVIOUS
<1> HIDE DEF t
<1>3. ASSUME NEW i \in 1..Len(events)
      PROVE  /\ SessionOf[t[i].of] = s
             /\ \A j \in 1..Len(t) : t[j] = t[i] => j = i
             /\ t[i].kind = "agent" =>
                  i > 1 /\ t[i - 1] = Event("user", t[i].of)
  <2>1. t[i] = events[i] /\ t[i] # e
    BY <1>1 DEF Holds
  <2>2. ASSUME NEW j \in 1..Len(t), t[j] = t[i] PROVE j = i
    <3>1. j \in 1..Len(events)
      BY <1>1, <2>1, <2>2
    <3>2. QED
      BY <1>1, <2>1, <2>2, <3>1 DEF Turns
  <2>3. ASSUME t[i].kind = "agent"
        PROVE  i > 1 /\ t[i - 1] = Event("user", t[i].of)
    <3>1. i > 1 /\ events[i - 1] = Event("user", events[i].of)
      BY <2>1, <2>3 DEF Turns
    <3>2. i - 1 \in 1..Len(events)
      BY <1>1, <3>1
    <3>3. QED
      BY <1>1, <2>1, <3>1, <3>2
  <2>4. QED
    BY <2>1, <2>2, <2>3 DEF Turns
<1>4. /\ \A j \in 1..Len(t) : t[j] = e => j = Len(events) + 1
      /\ e.kind = "agent" =>
           /\ Len(events) + 1 > 1
           /\ t[(Len(events) + 1) - 1] = Event("user", e.of)
  BY <1>1, <1>2 DEF Holds
<1>5. ASSUME NEW i \in 1..Len(t)
      PROVE  i \in 1..Len(events) \/ i = Len(events) + 1
  BY <1>1
<1>6. Turns(s, t)
  BY <1>1, <1>3, <1>4, <1>5 DEF Turns
<1>7. QED
  BY <1>6 DEF t

\* Appending keeps a turn, and makes one of a message and its answer.
LEMMA TurnAppended ==
  ASSUME NEW events \in Seq(Events), NEW e \in Events, NEW p
  PROVE  /\ Turn(p, events) => Turn(p, Append(events, e))
         /\ /\ events # <<>> /\ events[Len(events)] = Event("user", p)
            /\ e = Event("agent", p)
            => Turn(p, Append(events, e))
<1> DEFINE t == Append(events, e)
<1>1. /\ Len(events) \in Nat /\ Len(t) = Len(events) + 1
      /\ \A i \in 1..Len(events) : t[i] = events[i]
      /\ t[Len(events) + 1] = e
  BY Appended
<1>2. events # <<>> => Len(events) # 0
  OBVIOUS
<1> HIDE DEF t
<1>3. ASSUME Turn(p, events) PROVE Turn(p, t)
  <2>1. PICK i \in 1..(Len(events) - 1) : /\ events[i] = Event("user", p)
                                          /\ events[i + 1] = Event("agent", p)
    BY <1>3 DEF Turn
  <2>2. i \in 1..(Len(t) - 1) /\ i \in 1..Len(events)
        /\ i + 1 \in 1..Len(events)
    BY <1>1
  <2>3. QED
    BY <1>1, <2>1, <2>2 DEF Turn
<1>4. ASSUME events # <<>>, events[Len(events)] = Event("user", p),
             e = Event("agent", p)
      PROVE  Turn(p, t)
  <2>1. Len(events) \in 1..(Len(t) - 1) /\ Len(events) \in 1..Len(events)
    BY <1>1, <1>2, <1>4
  <2>2. QED
    BY <1>1, <1>4, <2>1 DEF Turn
<1>5. QED
  BY <1>3, <1>4 DEF t

-----------------------------------------------------------------------------
(* The steps.                                                              *)

Truncates(p) == \/ Truncate(p, "loaded", "saving")
                \/ Truncate(p, "replied", "finishing")
                \/ Truncate(p, "failed", "rescuing")
Completes(p) == \/ Write(p, "saving", "running")
                \/ Write(p, "finishing", "end_turn")
                \/ Write(p, "rescuing", "error")
Cuts(p) == \/ WriteFails(p, "saving", "error")
           \/ WriteFails(p, "finishing", "failed")
           \/ WriteFails(p, "rescuing", "error")
Writes(p) == Completes(p) \/ Cuts(p)
\* A step that touches nothing but the prompt's place.
Moves(p) == \/ Refuse(p)
            \/ OpenFails(p, "loaded", "error")
            \/ OpenFails(p, "replied", "failed")
            \/ OpenFails(p, "failed", "error")
Runs(p) == Run(p) \/ LoopFails(p)
Sets(s) == Create(s) \/ AnswerNew(s) \/ NewFails(s) \/ Delete(s)

Lists == UNCHANGED <<file, born, pc, copy, holds, deleted, history>>

\* What changes anything but the list.
LEMMA NextKinds ==
  ASSUME Next
  PROVE  \/ Lists
         \/ \E s \in Sessions : Sets(s)
         \/ \E p \in Prompts :
              Load(p) \/ Truncates(p) \/ Writes(p) \/ Runs(p) \/ Moves(p)
         \/ Crash
<1>1. CASE ReadDir \/ ListStep
  BY <1>1 DEF ReadDir, ListStep, LoadListed, StatListed, AnswerList, Lists
<1>2. ASSUME NEW p \in Prompts, PromptStep(p)
      PROVE  Load(p) \/ Truncates(p) \/ Writes(p) \/ Runs(p) \/ Moves(p)
  BY <1>2 DEF PromptStep, SavePrompt, SaveReply, Rescue, SaveFails, Truncates,
              Writes, Completes, Cuts, Runs, Moves
<1>3. QED
  BY <1>1, <1>2 DEF Next, Step, Sets

\* An event of a prompt is one.
LEMMA EventType ==
  \A p \in Prompts :
    /\ Event("user", p) \in Events /\ Event("agent", p) \in Events
    /\ Event("user", p) # Event("agent", p)
    /\ Event("user", p).of = p /\ Event("agent", p).of = p
    /\ Event("user", p).kind = "user" /\ Event("agent", p).kind = "agent"
    /\ \A q : Event("user", p) # Event("agent", q)
    /\ \A q \in Prompts : q # p => /\ Event("user", p) # Event("user", q)
                                   /\ Event("agent", p) # Event("agent", q)
<1>1. \A p : Event("user", p).kind = "user" /\ Event("agent", p).kind = "agent"
             /\ Event("user", p).of = p /\ Event("agent", p).of = p
  BY DEF Event
<1>2. \A p \in Prompts :
        Event("user", p) \in Events /\ Event("agent", p) \in Events
  BY DEF Event, Events
<1>3. QED
  BY <1>1, <1>2

\* What is on a disk is a file.
LEMMA FileTypes ==
  /\ Absent \in Files /\ Absent.state = "absent" /\ Absent.events = <<>>
  /\ \A ev \in Seq(Events) :
       /\ Whole(ev) \in Files /\ Whole(ev).state = "whole"
       /\ Whole(ev).events = ev
       /\ Torn(ev) \in Files /\ Torn(ev).state = "torn" /\ Torn(ev).events = ev
  /\ <<>> \in Seq(Events)
BY DEF Absent, Whole, Torn, Files

\* Three of them are empty.
LEMMA EmptyFiles ==
  /\ Absent \in Files /\ Absent.state = "absent"
  /\ Torn(<<>>) \in Files /\ Torn(<<>>).state = "torn"
  /\ Whole(<<>>) \in Files /\ Whole(<<>>).state = "whole"
  /\ Absent.events = <<>> /\ Torn(<<>>).events = <<>>
  /\ Whole(<<>>).events = <<>>
BY FileTypes

\* Loading: a prompt that finds a whole file takes a copy and adds its message.
LEMMA LoadEffect ==
  ASSUME StoreTypeOK, StoreAssumption, NEW p \in Prompts, Load(p)
  PROVE  /\ UNCHANGED <<file, born, holds, deleted, cutShort>>
         /\ pc[p] = "unsent" /\ born[SessionOf[p]] = "answered"
         /\ SessionOf[p] \notin deleted
         /\ shared \subseteq shared'
         /\ (\E q \in Prompts : SessionOf[q] = SessionOf[p] /\ Active(q)) =>
              SessionOf[p] \in shared'
         /\ \A q \in Prompts \ {p} : pc'[q] = pc[q] /\ copy'[q] = copy[q]
         /\ \/ /\ file[SessionOf[p]].state = "whole" /\ pc'[p] = "loaded"
               /\ copy'[p] = Append(file[SessionOf[p]].events,
                                    Event("user", p))
            \/ pc'[p] = "error" /\ copy' = copy
         /\ SessionOf[p] \in Sessions
         /\ file[SessionOf[p]].events \in Seq(Events)
<1>1. SessionOf[p] \in Sessions
  BY DEF StoreAssumption
<1>2. file[SessionOf[p]] \in Files
  BY <1>1 DEF StoreTypeOK
<1>3. file[SessionOf[p]].events \in Seq(Events)
  BY <1>2 DEF Files
<1>4. /\ UNCHANGED <<file, born, holds, deleted, cutShort>>
      /\ pc[p] = "unsent" /\ born[SessionOf[p]] = "answered"
      /\ SessionOf[p] \notin deleted
      /\ shared \subseteq shared'
      /\ (\E q \in Prompts : SessionOf[q] = SessionOf[p] /\ Active(q)) =>
           SessionOf[p] \in shared'
  BY DEF Load
<1>5. CASE file[SessionOf[p]].state = "whole"
  <2>1. /\ pc' = [pc EXCEPT ![p] = "loaded"]
        /\ copy' = [copy EXCEPT ![p] = Append(file[SessionOf[p]].events,
                                              Event("user", p))]
    BY <1>5 DEF Load, Go
  <2>2. QED
    BY <1>1, <1>3, <1>4, <1>5, <2>1 DEF StoreTypeOK
<1>6. CASE file[SessionOf[p]].state # "whole"
  <2>1. pc' = [pc EXCEPT ![p] = "error"] /\ copy' = copy
    BY <1>6 DEF Load, Go
  <2>2. QED
    BY <1>1, <1>3, <1>4, <1>6, <2>1 DEF StoreTypeOK
<1>7. QED
  BY <1>5, <1>6

\* The first half of a save.
LEMMA TruncateEffect ==
  ASSUME StoreTypeOK, StoreAssumption, NEW p \in Prompts, Truncates(p)
  PROVE  /\ UNCHANGED <<born, copy, deleted, shared, cutShort>>
         /\ \/ pc[p] = "loaded" /\ pc'[p] = "saving"
            \/ pc[p] = "replied" /\ pc'[p] = "finishing"
            \/ pc[p] = "failed" /\ pc'[p] = "rescuing"
         /\ \A q \in Prompts \ {p} : pc'[q] = pc[q]
         /\ SessionOf[p] \in Sessions /\ file'[SessionOf[p]] = Torn(<<>>)
         /\ \A s \in Sessions \ {SessionOf[p]} : file'[s] = file[s]
         /\ holds' = holds \cup {p}
BY DEF Truncates, Truncate, Go, StoreTypeOK, StoreAssumption, history

\* The second half, completed.
LEMMA CompleteEffect ==
  ASSUME StoreTypeOK, StoreAssumption, NEW p \in Prompts, Completes(p)
  PROVE  /\ UNCHANGED <<born, copy, deleted, shared>>
         /\ \/ pc[p] = "saving" /\ pc'[p] = "running"
            \/ pc[p] = "finishing" /\ pc'[p] = "end_turn"
            \/ pc[p] = "rescuing" /\ pc'[p] = "error"
         /\ \A q \in Prompts \ {p} : pc'[q] = pc[q]
         /\ SessionOf[p] \in Sessions
         /\ \A s \in Sessions \ {SessionOf[p]} : file'[s] = file[s]
         /\ holds' = holds \ {p}
         /\ cutShort' = cutShort \ {SessionOf[p]}
         /\ \/ p \in holds /\ file'[SessionOf[p]] = Whole(copy[p])
            \/ /\ p \in holds /\ file[SessionOf[p]].events # <<>>
               /\ file'[SessionOf[p]] = Torn(file[SessionOf[p]].events)
            \/ p \notin holds /\ file' = file
BY DEF Completes, Write, Go, StoreTypeOK, StoreAssumption

\* The second half, cut by a fault.
LEMMA CutEffect ==
  ASSUME StoreTypeOK, StoreAssumption, NEW p \in Prompts, Cuts(p)
  PROVE  /\ UNCHANGED <<born, copy, deleted, shared>>
         /\ \/ pc[p] = "saving" /\ pc'[p] = "error"
            \/ pc[p] = "finishing" /\ pc'[p] = "failed"
            \/ pc[p] = "rescuing" /\ pc'[p] = "error"
         /\ \A q \in Prompts \ {p} : pc'[q] = pc[q]
         /\ SessionOf[p] \in Sessions
         /\ \A s \in Sessions \ {SessionOf[p]} : file'[s] = file[s]
         /\ holds' = holds \ {p}
         /\ cutShort' = cutShort \cup {SessionOf[p]}
         /\ \/ file'[SessionOf[p]] = file[SessionOf[p]]
            \/ file'[SessionOf[p]] = Torn(copy[p])
            \/ file'[SessionOf[p]] = Whole(copy[p])
BY DEF Cuts, WriteFails, Go, StoreTypeOK, StoreAssumption

\* Either way: the file stays, or gets the prompt's copy, or cannot be read.
LEMMA WriteEffect ==
  ASSUME StoreTypeOK, StoreAssumption, NEW p \in Prompts, Writes(p)
  PROVE  /\ UNCHANGED <<born, copy, deleted, shared>>
         /\ \/ pc[p] = "saving" /\ pc'[p] \in {"running", "error"}
            \/ pc[p] = "finishing" /\ pc'[p] \in {"end_turn", "failed"}
            \/ pc[p] = "rescuing" /\ pc'[p] = "error"
         /\ \A q \in Prompts \ {p} : pc'[q] = pc[q]
         /\ SessionOf[p] \in Sessions
         /\ \A s \in Sessions \ {SessionOf[p]} :
              file'[s] = file[s] /\ (s \in cutShort => s \in cutShort')
         /\ holds' = holds \ {p}
         /\ copy[p] \in Seq(Events)
         /\ \/ file'[SessionOf[p]] = file[SessionOf[p]]
            \/ file'[SessionOf[p]] = Whole(copy[p])
            \/ /\ file'[SessionOf[p]] \in Files
               /\ file'[SessionOf[p]].state = "torn"
<1>1. SessionOf[p] \in Sessions /\ copy[p] \in Seq(Events)
  BY DEF StoreTypeOK, StoreAssumption
<1>2. file[SessionOf[p]] \in Files
  BY <1>1 DEF StoreTypeOK
<1>3. file[SessionOf[p]].events \in Seq(Events)
  BY <1>2 DEF Files
<1>4. /\ Torn(file[SessionOf[p]].events) \in Files
      /\ Torn(file[SessionOf[p]].events).state = "torn"
      /\ Torn(copy[p]) \in Files /\ Torn(copy[p]).state = "torn"
  BY <1>1, <1>3, FileTypes
<1>5. CASE Completes(p)
  BY <1>1, <1>4, <1>5, CompleteEffect
<1>6. CASE Cuts(p)
  BY <1>1, <1>4, <1>6, CutEffect
<1>7. QED
  BY <1>5, <1>6 DEF Writes

\* A refusal, or a save that fails before it has opened the file.
LEMMA MoveEffect ==
  ASSUME StoreTypeOK, NEW p \in Prompts, Moves(p)
  PROVE  /\ UNCHANGED <<file, born, copy, holds, deleted, shared, cutShort>>
         /\ \/ pc[p] \in {"loaded", "failed"} /\ pc'[p] = "error"
            \/ pc[p] = "replied" /\ pc'[p] = "failed"
         /\ \A q \in Prompts \ {p} : pc'[q] = pc[q]
BY DEF Moves, Refuse, OpenFails, Go, StoreTypeOK, history

\* The agent's answer, or its failure.
LEMMA RunEffect ==
  ASSUME StoreTypeOK, NEW p \in Prompts, Runs(p)
  PROVE  /\ UNCHANGED <<file, born, holds, deleted, shared, cutShort>>
         /\ pc[p] = "running" /\ pc'[p] \in {"replied", "failed"}
         /\ \A q \in Prompts \ {p} : pc'[q] = pc[q] /\ copy'[q] = copy[q]
         /\ \/ copy'[p] = Append(copy[p], Event("agent", p))
            \/ pc'[p] = "failed" /\ copy' = copy
BY DEF Runs, Run, LoopFails, Go, StoreTypeOK, history

\* A new session's file, and a deletion.
LEMMA SessionEffect ==
  ASSUME StoreTypeOK, NEW s \in Sessions, Sets(s)
  PROVE  /\ UNCHANGED <<pc, copy, shared, cutShort>>
         /\ \A t \in Sessions \ {s} : file'[t] = file[t] /\ born'[t] = born[t]
         /\ \/ /\ born[s] = "no" /\ born'[s] = "saving"
               /\ file'[s] = Torn(<<>>)
               /\ holds' = holds /\ deleted' = deleted
            \/ /\ born[s] = "saving" /\ born'[s] = "answered"
               /\ file'[s] = Whole(<<>>)
               /\ holds' = holds /\ deleted' = deleted
            \/ /\ born[s] \in {"no", "saving"} /\ born'[s] = "lost"
               /\ file'[s] \in {file[s], Torn(<<>>), Whole(<<>>)}
               /\ holds' = holds /\ deleted' = deleted
            \/ /\ born[s] = "answered" /\ born' = born /\ file'[s] = Absent
               /\ holds' = {p \in holds : SessionOf[p] # s}
               /\ deleted' = deleted \cup {s}
BY DEF Sets, Create, AnswerNew, NewFails, Delete, StoreTypeOK, history

\* A crash.
LEMMA CrashEffect ==
  ASSUME StoreTypeOK, Crash
  PROVE  /\ UNCHANGED <<file, copy, deleted, shared>>
         /\ \A p \in Prompts :
              \/ Active(p) /\ pc'[p] = "error"
              \/ ~Active(p) /\ pc'[p] = pc[p]
         /\ \A s \in Sessions :
              \/ born[s] = "saving" /\ born'[s] = "lost"
              \/ born[s] # "saving" /\ born'[s] = born[s]
         /\ cutShort' = cutShort \cup {s \in Sessions : Saving(s)}
         /\ holds' = {}
BY DEF Crash, StoreTypeOK

-----------------------------------------------------------------------------
(* Every step keeps every part.                                            *)

\* Every step keeps the types of the files, the copies and the prompts.
LEMMA TypeStep ==
  ASSUME StoreAssumption, StoreTypeOK, Next
  PROVE  StoreTypeOK'
<1> USE DEF StoreTypeOK
<1>1. CASE Lists
  BY <1>1 DEF Lists
<1>2. ASSUME NEW s \in Sessions, Sets(s)
      PROVE  StoreTypeOK'
  <2>1. Torn(<<>>) \in Files /\ Whole(<<>>) \in Files /\ Absent \in Files
    BY EmptyFiles
  <2>2. UNCHANGED <<pc, copy>>
    BY <1>2 DEF Sets, Create, AnswerNew, NewFails, Delete
  <2>3. holds' \subseteq Prompts
    BY <1>2 DEF Sets, Create, AnswerNew, NewFails, Delete
  <2>4. file' \in [Sessions -> Files]
    BY <1>2, <2>1 DEF Sets, Create, AnswerNew, NewFails, Delete
  <2>5. born' \in [Sessions -> {"no", "saving", "answered", "lost"}]
    BY <1>2 DEF Sets, Create, AnswerNew, NewFails, Delete
  <2>6. QED
    BY <2>2, <2>3, <2>4, <2>5
<1>3. ASSUME NEW p \in Prompts PROVE SessionOf[p] \in Sessions
  BY DEF StoreAssumption
<1>4. ASSUME NEW p \in Prompts, Load(p) PROVE StoreTypeOK'
  <2>1. file[SessionOf[p]].events \in Seq(Events)
    BY <1>4, LoadEffect
  <2>2. Append(file[SessionOf[p]].events, Event("user", p)) \in Seq(Events)
    BY <2>1, EventType
  <2>3. UNCHANGED <<file, born, holds>>
    BY <1>4 DEF Load
  <2>4. pc' \in [Prompts -> Pcs]
    BY <1>4 DEF Load, Go, Pcs
  <2>5. copy' \in [Prompts -> Seq(Events)]
    BY <1>4, <2>2 DEF Load
  <2>6. QED
    BY <2>3, <2>4, <2>5
<1>5. ASSUME NEW p \in Prompts, Truncates(p) PROVE StoreTypeOK'
  <2>1. file' \in [Sessions -> Files]
    BY <1>3, <1>5, EmptyFiles DEF Truncates, Truncate
  <2>2. pc' \in [Prompts -> Pcs]
    BY <1>5 DEF Truncates, Truncate, Go, Pcs
  <2>3. QED
    BY <1>5, <2>1, <2>2 DEF Truncates, Truncate
<1>6. ASSUME NEW p \in Prompts, Writes(p) PROVE StoreTypeOK'
  <2>1. file[SessionOf[p]] \in Files /\ copy[p] \in Seq(Events)
    BY <1>3, <1>6
  <2>2. file[SessionOf[p]].events \in Seq(Events)
    BY <2>1 DEF Files
  <2>3. /\ Whole(copy[p]) \in Files /\ Torn(copy[p]) \in Files
        /\ Torn(file[SessionOf[p]].events) \in Files
    BY <2>1, <2>2, FileTypes
  <2>4. file' \in [Sessions -> Files]
    <3>1. CASE Completes(p)
      BY <1>3, <2>3, <3>1 DEF Completes, Write
    <3>2. CASE Cuts(p)
      BY <1>3, <2>1, <2>3, <3>2 DEF Cuts, WriteFails
    <3>3. QED
      BY <1>6, <3>1, <3>2 DEF Writes
  <2>5. pc' \in [Prompts -> Pcs]
    BY <1>6 DEF Writes, Completes, Cuts, Write, WriteFails, Go, Pcs
  <2>6. QED
    BY <1>6, <2>4, <2>5, WriteEffect
<1>7. ASSUME NEW p \in Prompts, Runs(p) PROVE StoreTypeOK'
  <2>1. Append(copy[p], Event("agent", p)) \in Seq(Events)
    BY <1>7, EventType
  <2>2. QED
    BY <1>7, <2>1 DEF Runs, Run, LoopFails, Go, Pcs
<1>8. ASSUME NEW p \in Prompts, Moves(p) PROVE StoreTypeOK'
  BY <1>8 DEF Moves, Refuse, OpenFails, Go, Pcs
<1>9. CASE Crash
  BY <1>9 DEF Crash, Pcs
<1>10. QED
  BY <1>1, <1>2, <1>4, <1>5, <1>6, <1>7, <1>8, <1>9, NextKinds

\* A whole file comes from an empty session or from a copy.
LEMMA FileSource ==
  ASSUME StoreAssumption, StoreTypeOK, Next, NEW s \in Sessions,
         file'[s].state = "whole"
  PROVE  \/ file'[s] = file[s]
         \/ file'[s].events = <<>>
         \/ \E p \in Prompts : /\ SessionOf[p] = s /\ copy' = copy
                               /\ file'[s].events = copy[p]
<1> USE DEF StoreTypeOK
<1>1. CASE UNCHANGED file
  BY <1>1
<1>2. ASSUME NEW t \in Sessions, Sets(t)
      PROVE  file'[s] = file[s] \/ file'[s].events = <<>>
  <2>1. CASE s # t
    BY <1>2, <2>1, SessionEffect
  <2>2. CASE s = t
    <3>1. file'[s] \in {file[s], Absent, Torn(<<>>), Whole(<<>>)}
      BY <1>2, <2>2, SessionEffect
    <3>2. QED
      BY <3>1, EmptyFiles
  <2>3. QED
    BY <2>1, <2>2
<1>3. ASSUME NEW p \in Prompts, Truncates(p)
      PROVE  file'[s] = file[s] \/ file'[s].events = <<>>
  <2>1. file'[s] = file[s] \/ file'[s] = Torn(<<>>)
    BY <1>3, TruncateEffect
  <2>2. QED
    BY <2>1, EmptyFiles
<1>4. ASSUME NEW p \in Prompts, Writes(p)
      PROVE  \/ file'[s] = file[s]
             \/ /\ SessionOf[p] = s /\ copy' = copy
                /\ file'[s].events = copy[p]
  <2>1. CASE s # SessionOf[p]
    BY <1>4, <2>1, WriteEffect
  <2>2. CASE s = SessionOf[p]
    <3>1. \/ file'[s] = file[s]
          \/ file'[s] = Whole(copy[p]) /\ copy[p] \in Seq(Events)
      BY <1>4, <2>2, WriteEffect
    <3>2. copy' = copy
      BY <1>4, WriteEffect
    <3>3. QED
      BY <2>2, <3>1, <3>2, FileTypes
  <2>3. QED
    BY <2>1, <2>2
<1>5. ASSUME NEW p \in Prompts, Load(p) \/ Runs(p) \/ Moves(p)
      PROVE  UNCHANGED file
  BY <1>5, LoadEffect, RunEffect, MoveEffect
<1>6. QED
  BY <1>1, <1>2, <1>3, <1>4, <1>5, NextKinds DEF Lists, Crash

\* A copy changes when it is taken and when the answer is recorded.
LEMMA CopySource ==
  ASSUME StoreAssumption, StoreTypeOK, Next, NEW p \in Prompts
  PROVE  \/ copy'[p] = copy[p]
         \/ /\ pc[p] = "unsent" /\ pc'[p] = "loaded" /\ Load(p)
            /\ file[SessionOf[p]].state = "whole" /\ SessionOf[p] \in Sessions
            /\ file[SessionOf[p]].events \in Seq(Events)
            /\ copy'[p] = Append(file[SessionOf[p]].events, Event("user", p))
         \/ /\ pc[p] = "running" /\ pc'[p] \in {"replied", "failed"} /\ Runs(p)
            /\ copy'[p] = Append(copy[p], Event("agent", p))
<1>1. ASSUME NEW q \in Prompts, Truncates(q) \/ Writes(q) \/ Moves(q)
      PROVE  copy' = copy
  BY <1>1, TruncateEffect, WriteEffect, MoveEffect
<1>2. ASSUME NEW q \in Prompts, q # p, Load(q) \/ Runs(q)
      PROVE  copy'[p] = copy[p]
  BY <1>2, LoadEffect, RunEffect
<1>3. CASE Load(p)
  BY <1>3, LoadEffect
<1>4. CASE Runs(p)
  BY <1>4, RunEffect
<1>5. CASE Lists \/ Crash
  BY <1>5 DEF Lists, Crash
<1>6. ASSUME NEW s \in Sessions, Sets(s)
      PROVE  copy' = copy
  BY <1>6 DEF Sets, Create, AnswerNew, NewFails, Delete
<1>7. QED
  BY <1>1, <1>2, <1>3, <1>4, <1>5, <1>6, NextKinds

\* A prompt goes its way, step by step, or is cut off.
LEMMA PcStep ==
  ASSUME StoreAssumption, StoreTypeOK, Next, NEW p \in Prompts
  PROVE  \/ pc'[p] = pc[p]
         \/ pc[p] = "unsent" /\ pc'[p] \in {"loaded", "error"} /\ Load(p)
         \/ pc[p] = "loaded" /\ pc'[p] = "saving" /\ Truncates(p)
         \/ pc[p] = "saving" /\ pc'[p] \in {"running", "error"} /\ Writes(p)
         \/ pc[p] = "running" /\ pc'[p] \in {"replied", "failed"} /\ Runs(p)
         \/ pc[p] = "replied" /\ pc'[p] = "finishing" /\ Truncates(p)
         \/ /\ pc[p] = "finishing" /\ pc'[p] \in {"end_turn", "failed"}
            /\ Writes(p)
         \/ pc[p] = "failed" /\ pc'[p] = "rescuing" /\ Truncates(p)
         \/ pc[p] = "rescuing" /\ pc'[p] = "error" /\ Writes(p)
         \/ pc[p] \in {"loaded", "failed"} /\ pc'[p] = "error" /\ Moves(p)
         \/ pc[p] = "replied" /\ pc'[p] = "failed" /\ Moves(p)
         \/ Active(p) /\ pc'[p] = "error" /\ Crash
<1>1. ASSUME NEW q \in Prompts, q # p,
             Load(q) \/ Truncates(q) \/ Writes(q) \/ Runs(q) \/ Moves(q)
      PROVE  pc'[p] = pc[p]
  BY <1>1, LoadEffect, TruncateEffect, WriteEffect, RunEffect, MoveEffect
<1>2. CASE Load(p)
  BY <1>2, LoadEffect
<1>3. CASE Truncates(p)
  BY <1>3, TruncateEffect
<1>4. CASE Writes(p)
  BY <1>4, WriteEffect
<1>5. CASE Runs(p)
  BY <1>5, RunEffect
<1>6. CASE Moves(p)
  BY <1>6, MoveEffect
<1>7. CASE Crash
  BY <1>7, CrashEffect
<1>8. CASE Lists
  BY <1>8 DEF Lists
<1>9. ASSUME NEW s \in Sessions, Sets(s) PROVE pc' = pc
  BY <1>9, SessionEffect
<1>10. QED
  BY <1>1, <1>2, <1>3, <1>4, <1>5, <1>6, <1>7, <1>8, <1>9, NextKinds

\* What nobody has recorded stays so, unless its prompt records it now.
LEMMA NowhereStep ==
  ASSUME StoreAssumption, StoreTypeOK, Next, NEW e, Nowhere(e),
         \A p \in Prompts :
           /\ Load(p) /\ pc'[p] = "loaded" => e # Event("user", p)
           /\ Runs(p) => e # Event("agent", p)
  PROVE  Nowhere(e)'
<1>1. ASSUME NEW s \in Sessions, file'[s].state = "whole"
      PROVE  ~Holds(file'[s].events, e)
  <2>1. ~Holds(<<>>, e)
    BY DEF Holds
  <2>2. QED
    BY <1>1, <2>1, FileSource DEF Nowhere
<1>2. ASSUME NEW q \in Prompts PROVE ~Holds(copy'[q], e)
  <2>1. CASE copy'[q] = copy[q]
    BY <1>2, <2>1 DEF Nowhere
  <2>2. CASE Load(q) /\ pc'[q] = "loaded"
    <3>1. /\ file[SessionOf[q]].events \in Seq(Events)
          /\ file[SessionOf[q]].state = "whole" /\ SessionOf[q] \in Sessions
          /\ copy'[q] = Append(file[SessionOf[q]].events, Event("user", q))
      BY <2>2, LoadEffect
    <3>2. ~Holds(file[SessionOf[q]].events, e) /\ Event("user", q) # e
      BY <2>2, <3>1 DEF Nowhere
    <3>3. QED
      BY <3>1, <3>2, HoldsAppended, EventType
  <2>3. CASE Runs(q) /\ copy'[q] # copy[q]
    <3>1. copy[q] \in Seq(Events)
          /\ copy'[q] = Append(copy[q], Event("agent", q))
      BY <2>3, RunEffect DEF StoreTypeOK
    <3>2. ~Holds(copy[q], e) /\ Event("agent", q) # e
      BY <2>3 DEF Nowhere
    <3>3. QED
      BY <3>1, <3>2, HoldsAppended, EventType
  <2>4. QED
    BY <2>1, <2>2, <2>3, CopySource
<1>3. QED
  BY <1>1, <1>2 DEF Nowhere

\* A message is recorded once, when its prompt has loaded the session.
LEMMA NewStep ==
  ASSUME StoreAssumption, StoreTypeOK, NewInv, Next
  PROVE  NewInv'
<1>1. SUFFICES ASSUME NEW p \in Prompts
               PROVE  /\ pc'[p] = "unsent" => Nowhere(Event("user", p))'
                      /\ pc'[p] \in {"unsent", "loaded", "saving", "running"}
                           => Nowhere(Event("agent", p))'
  BY DEF NewInv
<1>2. ASSUME pc'[p] = "unsent" PROVE Nowhere(Event("user", p))'
  <2>1. pc[p] = "unsent" /\ ~(pc'[p] = "loaded")
    BY <1>2, PcStep
  <2>2. Nowhere(Event("user", p))
    BY <2>1 DEF NewInv
  <2>3. QED
    BY <1>2, <2>1, <2>2, NowhereStep, EventType
<1>3. ASSUME pc'[p] \in {"unsent", "loaded", "saving", "running"}
      PROVE  Nowhere(Event("agent", p))'
  <2>1. pc[p] \in {"unsent", "loaded", "saving", "running"} /\ ~Runs(p)
    <3>1. ~Runs(p)
      BY <1>3, RunEffect
    <3>2. QED
      BY <1>3, <3>1, PcStep
  <2>2. Nowhere(Event("agent", p))
    BY <2>1 DEF NewInv
  <2>3. QED
    BY <2>1, <2>2, NowhereStep, EventType
<1>4. QED
  BY <1>2, <1>3

\* Between its message and the answer nobody appends to a prompt's copy.
LEMMA LastStep ==
  ASSUME StoreAssumption, StoreTypeOK, LastInv, Next
  PROVE  LastInv'
<1>1. SUFFICES ASSUME NEW p \in Prompts,
                      pc'[p] \in {"loaded", "saving", "running"}
               PROVE  /\ copy'[p] # <<>>
                      /\ copy'[p][Len(copy'[p])] = Event("user", p)
  BY DEF LastInv
<1>2. CASE pc[p] = "unsent"
  <2>1. Load(p) /\ pc'[p] = "loaded"
    BY <1>1, <1>2, PcStep
  <2>2. /\ file[SessionOf[p]].events \in Seq(Events)
        /\ copy'[p] = Append(file[SessionOf[p]].events, Event("user", p))
    BY <2>1, LoadEffect
  <2>3. QED
    BY <2>2, EventType
<1>3. CASE pc[p] # "unsent"
  <2>1. pc[p] \in {"loaded", "saving", "running"}
    BY <1>1, <1>3, PcStep
  <2>2. copy'[p] = copy[p]
    BY <1>1, <1>3, CopySource
  <2>3. QED
    BY <2>1, <2>2 DEF LastInv
<1>4. QED
  BY <1>2, <1>3

\* Files and copies get whole turns only: an answer is appended behind its
\* own question.
LEMMA TurnStep ==
  ASSUME StoreAssumption, StoreTypeOK, TurnInv, NewInv, LastInv, Next
  PROVE  TurnInv'
<1>1. ASSUME NEW s \in Sessions, file'[s].state = "whole"
      PROVE  Turns(s, file'[s].events)
  <2>1. Turns(s, <<>>)
    BY DEF Turns
  <2>2. QED
    BY <1>1, <2>1, FileSource DEF TurnInv
<1>2. ASSUME NEW p \in Prompts PROVE Turns(SessionOf[p], copy'[p])
  <2>1. CASE copy'[p] = copy[p]
    BY <2>1 DEF TurnInv
  <2>2. CASE Load(p) /\ pc'[p] = "loaded"
    <3>1. /\ file[SessionOf[p]].events \in Seq(Events)
          /\ file[SessionOf[p]].state = "whole" /\ SessionOf[p] \in Sessions
          /\ copy'[p] = Append(file[SessionOf[p]].events, Event("user", p))
          /\ pc[p] = "unsent"
      BY <2>2, LoadEffect
    <3>2. /\ Turns(SessionOf[p], file[SessionOf[p]].events)
          /\ ~Holds(file[SessionOf[p]].events, Event("user", p))
      BY <3>1 DEF TurnInv, NewInv, Nowhere
    <3>3. /\ Event("user", p) \in Events
          /\ SessionOf[Event("user", p).of] = SessionOf[p]
          /\ Event("user", p).kind # "agent"
      BY EventType
    <3>4. QED
      BY <3>1, <3>2, <3>3, TurnsAppended
  <2>3. CASE Runs(p) /\ copy'[p] # copy[p]
    <3>1. /\ copy[p] \in Seq(Events) /\ pc[p] = "running"
          /\ copy'[p] = Append(copy[p], Event("agent", p))
      BY <2>3, RunEffect DEF StoreTypeOK
    <3>2. /\ Turns(SessionOf[p], copy[p])
          /\ ~Holds(copy[p], Event("agent", p))
          /\ copy[p] # <<>> /\ copy[p][Len(copy[p])] = Event("user", p)
      BY <3>1 DEF TurnInv, NewInv, Nowhere, LastInv
    <3>3. /\ Event("agent", p) \in Events
          /\ SessionOf[Event("agent", p).of] = SessionOf[p]
          /\ Event("agent", p).of = p
      BY EventType
    <3>4. QED
      BY <3>1, <3>2, <3>3, TurnsAppended
  <2>4. QED
    BY <2>1, <2>2, <2>3, CopySource
<1>3. QED
  BY <1>1, <1>2 DEF TurnInv

\* A prompt starts only in a session whose session/new was answered.
LEMMA BornStep ==
  ASSUME StoreAssumption, StoreTypeOK, BornInv, Next
  PROVE  BornInv'
<1>1. SUFFICES ASSUME NEW p \in Prompts, pc'[p] # "unsent"
               PROVE  born'[SessionOf[p]] = "answered"
  BY DEF BornInv
<1>2. SessionOf[p] \in Sessions
  BY DEF StoreAssumption
<1>3. born[SessionOf[p]] = "answered"
  BY <1>1, PcStep, LoadEffect DEF BornInv, Active
<1>4. ASSUME NEW s \in Sessions, Sets(s)
      PROVE  born'[SessionOf[p]] = "answered"
  BY <1>2, <1>3, <1>4, SessionEffect
<1>5. ASSUME NEW q \in Prompts,
             Load(q) \/ Truncates(q) \/ Writes(q) \/ Runs(q) \/ Moves(q)
      PROVE  born' = born
  BY <1>5, LoadEffect, TruncateEffect, WriteEffect, RunEffect, MoveEffect
<1>6. CASE Crash
  BY <1>2, <1>3, <1>6, CrashEffect
<1>7. QED
  BY <1>3, <1>4, <1>5, <1>6, NextKinds DEF Lists

\* The sessions that two prompts share are never fewer; one that a save has left
\* damaged is made good only by a save.
LEMMA Grows ==
  ASSUME StoreAssumption, StoreTypeOK, Next
  PROVE  /\ shared \subseteq shared' /\ deleted \subseteq deleted'
         /\ \A s \in Sessions :
              /\ s \in cutShort
              /\ \A p \in Prompts : Writes(p) => SessionOf[p] # s
              => s \in cutShort'
<1>1. ASSUME NEW p \in Prompts, Load(p) \/ Truncates(p) \/ Runs(p) \/ Moves(p)
      PROVE  shared \subseteq shared' /\ deleted' = deleted
             /\ cutShort' = cutShort
  BY <1>1, LoadEffect, TruncateEffect, RunEffect, MoveEffect
<1>2. ASSUME NEW p \in Prompts, Writes(p)
      PROVE  /\ shared' = shared /\ deleted' = deleted
             /\ \A s \in Sessions :
                  s \in cutShort /\ SessionOf[p] # s => s \in cutShort'
  BY <1>2, WriteEffect
<1>3. ASSUME NEW s \in Sessions, Sets(s)
      PROVE  shared' = shared /\ deleted \subseteq deleted'
             /\ cutShort' = cutShort
  BY <1>3, SessionEffect
<1>4. CASE Crash
  BY <1>4, CrashEffect
<1>5. CASE Lists
  BY <1>5 DEF Lists, history
<1>6. QED
  BY <1>1, <1>2, <1>3, <1>4, <1>5, NextKinds

\* Two prompts of one session at a time make it shared for good.
LEMMA AloneStep ==
  ASSUME StoreAssumption, StoreTypeOK, AloneInv, Next
  PROVE  AloneInv'
<1>1. SUFFICES ASSUME NEW p \in Prompts, NEW q \in Prompts, p # q,
                      Active(p)', Active(q)', SessionOf[p] = SessionOf[q]
               PROVE  SessionOf[p] \in shared'
  BY DEF AloneInv
<1>2. ASSUME NEW r \in Prompts, Active(r)', ~Active(r) PROVE Load(r)
  BY <1>2, PcStep DEF Active, Answers
<1>3. CASE Active(p) /\ Active(q)
  BY <1>1, <1>3, Grows DEF AloneInv
<1>4. CASE Load(p)
  <2>1. Active(q)
    <3>1. pc'[q] = pc[q]
      BY <1>1, <1>4, LoadEffect
    <3>2. QED
      BY <1>1, <3>1 DEF Active
  <2>2. QED
    BY <1>1, <1>4, <2>1, LoadEffect
<1>5. CASE Load(q)
  <2>1. Active(p)
    <3>1. pc'[p] = pc[p]
      BY <1>1, <1>5, LoadEffect
    <3>2. QED
      BY <1>1, <3>1 DEF Active
  <2>2. QED
    BY <1>1, <1>5, <2>1, LoadEffect
<1>6. QED
  BY <1>1, <1>2, <1>3, <1>4, <1>5

\* The other handlers leave the file alone that a prompt is saving alone.
LEMMA SaveStep ==
  ASSUME StoreAssumption, StoreTypeOK, BornInv, AloneInv, SaveInv, Next
  PROVE  SaveInv'
<1>1. SUFFICES ASSUME NEW p \in Prompts,
                      pc'[p] \in {"saving", "finishing", "rescuing"},
                      SessionOf[p] \notin shared'
               PROVE  /\ file'[SessionOf[p]] \in {Absent, Torn(<<>>)}
                      /\ SessionOf[p] \notin deleted' => p \in holds'
  BY DEF SaveInv
<1> DEFINE s == SessionOf[p]
<1>2. s \in Sessions /\ s \notin shared
  BY <1>1, Grows DEF StoreAssumption
<1>3. CASE Truncates(p)
  BY <1>3, TruncateEffect
<1>4. CASE ~Truncates(p)
  <2>1. pc[p] \in {"saving", "finishing", "rescuing"}
    BY <1>1, <1>4, PcStep
  <2>2. /\ file[s] \in {Absent, Torn(<<>>)}
        /\ s \notin deleted => p \in holds
        /\ Active(p) /\ born[s] = "answered"
    BY <1>2, <2>1 DEF SaveInv, BornInv, Active, Answers
  <2>3. ASSUME NEW q \in Prompts, Truncates(q) \/ Writes(q)
        PROVE  file'[s] = file[s] /\ (p \in holds => p \in holds')
               /\ deleted' = deleted
    <3>1. Active(q)
      BY <2>3, TruncateEffect, WriteEffect DEF Active, Answers
    <3>2. p # q
      BY <1>1, <1>4, <2>3, WriteEffect
    <3>3. SessionOf[q] # s
      BY <1>2, <2>2, <3>1, <3>2 DEF AloneInv
    <3>4. QED
      BY <1>2, <2>3, <3>2, <3>3, TruncateEffect, WriteEffect
  <2>4. ASSUME NEW q \in Prompts, Load(q) \/ Runs(q) \/ Moves(q)
        PROVE  file' = file /\ holds' = holds /\ deleted' = deleted
    BY <2>4, LoadEffect, RunEffect, MoveEffect
  <2>5. ASSUME NEW t \in Sessions, Sets(t)
        PROVE  /\ file'[s] \in {Absent, Torn(<<>>)}
               /\ s \notin deleted' => p \in holds'
    <3>1. CASE t = s
      BY <1>2, <2>2, <2>5, <3>1, SessionEffect
    <3>2. CASE t # s
      BY <1>2, <2>2, <2>5, <3>2, SessionEffect
    <3>3. QED
      BY <3>1, <3>2
  <2>6. ~Crash
    BY <1>1, CrashEffect DEF Active, Answers
  <2>7. QED
    BY <2>2, <2>3, <2>4, <2>5, <2>6, NextKinds DEF Lists
<1>5. QED
  BY <1>3, <1>4

\* A file that a save leaves behind can be read, unless it was interfered with.
LEMMA ReadableStep ==
  ASSUME StoreAssumption, StoreTypeOK, SaveInv, ReadableUnlessSaving, Next
  PROVE  ReadableUnlessSaving'
<1>1. SUFFICES ASSUME NEW s \in Sessions,
                      s \notin deleted' \cup shared' \cup cutShort',
                      born'[s] = "answered"
               PROVE  file'[s].state = "whole" \/ Saving(s)'
  BY DEF ReadableUnlessSaving
<1>2. /\ s \notin deleted \cup shared
      /\ \/ s \notin cutShort
         \/ \E p \in Prompts : Writes(p) /\ SessionOf[p] = s
  BY <1>1, Grows
<1>3. s \notin cutShort /\ born[s] = "answered" =>
        file[s].state = "whole" \/ Saving(s)
  BY <1>2 DEF ReadableUnlessSaving
<1>4. ASSUME s \notin cutShort, born[s] = "answered", file'[s] = file[s],
             \A q \in Prompts :
               /\ SessionOf[q] = s
               /\ pc[q] \in {"saving", "finishing", "rescuing"}
               => pc'[q] = pc[q]
      PROVE  file'[s].state = "whole" \/ Saving(s)'
  BY <1>3, <1>4 DEF Saving
<1>5. CASE Lists
  BY <1>1, <1>4, <1>5 DEF Lists, history
<1>6. ASSUME NEW t \in Sessions, Sets(t)
      PROVE  file'[s].state = "whole" \/ Saving(s)'
  <2>1. CASE t = s
    BY <1>1, <1>6, <2>1, SessionEffect, EmptyFiles
  <2>2. CASE t # s
    BY <1>1, <1>4, <1>6, <2>2, SessionEffect
  <2>3. QED
    BY <2>1, <2>2
<1>7. ASSUME NEW p \in Prompts, Load(p) \/ Runs(p) \/ Moves(p)
      PROVE  file'[s].state = "whole" \/ Saving(s)'
  <2>1. /\ file' = file /\ born' = born /\ cutShort' = cutShort
        /\ pc[p] \notin {"saving", "finishing", "rescuing"}
        /\ \A q \in Prompts \ {p} : pc'[q] = pc[q]
    BY <1>7, LoadEffect, RunEffect, MoveEffect
  <2>2. QED
    BY <1>1, <1>4, <2>1
<1>8. ASSUME NEW p \in Prompts, Truncates(p)
      PROVE  file'[s].state = "whole" \/ Saving(s)'
  <2>1. CASE SessionOf[p] = s
    BY <1>8, <2>1, TruncateEffect DEF Saving
  <2>2. CASE SessionOf[p] # s
    BY <1>1, <1>4, <1>8, <2>2, TruncateEffect
  <2>3. QED
    BY <2>1, <2>2
<1>9. ASSUME NEW p \in Prompts, Writes(p)
      PROVE  file'[s].state = "whole" \/ Saving(s)'
  <2>1. CASE SessionOf[p] = s
    <3>1. p \in holds /\ file[s].events = <<>>
      BY <1>2, <1>9, <2>1, WriteEffect, EmptyFiles DEF SaveInv
    <3>2. Completes(p)
      BY <1>1, <1>9, <2>1, CutEffect DEF Writes
    <3>3. file'[s] = Whole(copy[p]) /\ copy[p] \in Seq(Events)
      BY <2>1, <3>1, <3>2, CompleteEffect DEF StoreTypeOK
    <3>4. QED
      BY <3>3, FileTypes
  <2>2. CASE SessionOf[p] # s
    BY <1>1, <1>4, <1>9, <2>2, WriteEffect
  <2>3. QED
    BY <2>1, <2>2
<1>10. CASE Crash
  <2>1. /\ ~Saving(s) /\ born[s] = "answered" /\ file' = file
        /\ s \notin cutShort
    BY <1>1, <1>10, CrashEffect
  <2>2. QED
    BY <1>3, <2>1
<1>11. QED
  BY <1>5, <1>6, <1>7, <1>8, <1>9, <1>10, NextKinds

\* A prompt's copy keeps the turns it has, and gets its own with the answer.
LEMMA AnswerStep ==
  ASSUME StoreAssumption, StoreTypeOK, LastInv, BornInv, AloneInv, SaveInv,
         AnswerInv, AnsweredInTurnIsRecorded, Next
  PROVE  AnswerInv' /\ AnsweredInTurnIsRecorded'
<1>1. ASSUME NEW p \in Prompts, NEW q \in Prompts, Turn(p, copy[q]),
             pc[q] # "unsent"
      PROVE  Turn(p, copy'[q])
  <2>1. copy'[q] = copy[q] \/ copy'[q] = Append(copy[q], Event("agent", q))
    BY <1>1, CopySource
  <2>2. copy[q] \in Seq(Events) /\ Event("agent", q) \in Events
    BY EventType DEF StoreTypeOK
  <2>3. QED
    BY <1>1, <2>1, <2>2, TurnAppended
<1>2. ASSUME NEW p \in Prompts,
             pc'[p] \in {"replied", "finishing", "end_turn"}
      PROVE  Turn(p, copy'[p])
  <2>1. CASE Runs(p)
    <3>1. /\ copy[p] \in Seq(Events) /\ pc[p] = "running"
          /\ copy'[p] = Append(copy[p], Event("agent", p))
      BY <1>2, <2>1, RunEffect DEF StoreTypeOK
    <3>2. copy[p] # <<>> /\ copy[p][Len(copy[p])] = Event("user", p)
      BY <3>1 DEF LastInv
    <3>3. QED
      BY <3>1, <3>2, TurnAppended, EventType
  <2>2. CASE ~Runs(p)
    <3>1. pc[p] \in {"replied", "finishing", "end_turn"}
      BY <1>2, <2>2, PcStep
    <3>2. QED
      BY <1>1, <3>1 DEF AnswerInv
  <2>3. QED
    BY <2>1, <2>2
<1>3. ASSUME NEW p \in Prompts, pc'[p] = "end_turn"
      PROVE  pc[p] = "end_turn" \/ (pc[p] = "finishing" /\ Writes(p))
  BY <1>3, PcStep
<1>4. ASSUME NEW p \in Prompts, NEW q \in Prompts, pc'[p] = "end_turn",
             Active(q)', SessionOf[p] = SessionOf[q],
             SessionOf[p] \notin shared'
      PROVE  Turn(p, copy'[q])
  <2>1. SessionOf[p] \notin shared /\ p # q
    BY <1>4, Grows DEF Active, Answers
  <2>2. CASE Active(q)
    <3>1. pc[p] = "end_turn"
      BY <1>3, <1>4, <2>1, <2>2 DEF AloneInv, Active, Answers
    <3>2. Turn(p, copy[q]) /\ pc[q] # "unsent"
      BY <1>4, <2>1, <2>2, <3>1 DEF AnswerInv, Active
    <3>3. QED
      BY <1>1, <3>2
  <2>3. CASE ~Active(q)
    <3>1. Load(q) /\ pc'[q] = "loaded"
      BY <1>4, <2>3, PcStep, LoadEffect DEF Active, Answers
    <3>2. /\ file[SessionOf[q]].events \in Seq(Events)
          /\ file[SessionOf[q]].state = "whole" /\ pc'[p] = pc[p]
          /\ copy'[q] = Append(file[SessionOf[q]].events, Event("user", q))
      BY <2>1, <3>1, LoadEffect
    <3>3. Turn(p, file[SessionOf[q]].events)
      BY <1>4, <2>1, <3>2 DEF AnsweredInTurnIsRecorded, Recorded, Turn
    <3>4. QED
      BY <3>2, <3>3, TurnAppended, EventType
  <2>4. QED
    BY <2>2, <2>3
<1>5. ASSUME NEW p \in Prompts, pc'[p] = "end_turn",
             SessionOf[p] \notin shared',
             file'[SessionOf[p]].state = "whole"
      PROVE  Turn(p, file'[SessionOf[p]].events)
  <2> DEFINE s == SessionOf[p]
  <2>1. s \in Sessions /\ s \notin shared
    BY <1>5, Grows DEF StoreAssumption
  <2>2. ASSUME pc[p] = "end_turn", file'[s] = file[s]
        PROVE  Turn(p, file'[s].events)
    BY <1>5, <2>1, <2>2 DEF AnsweredInTurnIsRecorded, Recorded, Turn
  <2>3. ASSUME NEW q \in Prompts, Writes(q), SessionOf[q] = s
        PROVE  Turn(p, file'[s].events)
    <3>1. copy[q] \in Seq(Events) /\ file[s].events \in Seq(Events)
      BY <2>1 DEF StoreTypeOK, Files
    <3>2. Active(q) /\ pc[q] \in {"saving", "finishing", "rescuing"}
      BY <2>3, WriteEffect DEF Active, Answers
    <3>3. file[s].state # "whole"
      BY <2>1, <2>3, <3>2, EmptyFiles DEF SaveInv
    <3>4. file'[s] = Whole(copy[q])
      BY <1>5, <2>3, <3>1, <3>3, WriteEffect, FileTypes
    <3>5. Turn(p, copy[q])
      <4>1. CASE p = q
        <5>1. pc[p] = "finishing"
          BY <1>3, <1>5, <3>2, <4>1
        <5>2. QED
          BY <4>1, <5>1 DEF AnswerInv
      <4>2. CASE p # q
        <5>1. pc'[p] = pc[p]
          BY <2>3, <4>2, WriteEffect
        <5>2. QED
          BY <1>5, <2>1, <2>3, <3>2, <5>1 DEF AnswerInv
      <4>3. QED
        BY <4>1, <4>2
    <3>6. QED
      BY <3>1, <3>4, <3>5, FileTypes
  <2>4. CASE \E q \in Prompts : Writes(q) /\ SessionOf[q] = s
    BY <2>3, <2>4
  <2>5. CASE ~\E q \in Prompts : Writes(q) /\ SessionOf[q] = s
    <3>1. pc[p] = "end_turn"
      BY <1>3, <1>5, <2>5
    <3>2. ASSUME NEW t \in Sessions, Sets(t)
          PROVE  file'[s] = file[s] \/ file'[s] \in {Absent, Torn(<<>>)}
                 \/ born[s] # "answered"
      BY <2>1, <3>2, SessionEffect
    <3>3. ASSUME NEW q \in Prompts,
                 Load(q) \/ Truncates(q) \/ Writes(q) \/ Runs(q) \/ Moves(q)
          PROVE  file'[s] = file[s] \/ file'[s] = Torn(<<>>)
      BY <2>1, <2>5, <3>3, LoadEffect, TruncateEffect, WriteEffect, RunEffect,
         MoveEffect
    <3>4. \/ file'[s] = file[s] \/ file'[s] \in {Absent, Torn(<<>>)}
          \/ born[s] # "answered"
      BY <3>2, <3>3, NextKinds, CrashEffect DEF Lists
    <3>5. born[s] = "answered"
      BY <3>1 DEF BornInv
    <3>6. QED
      BY <1>5, <2>2, <3>1, <3>4, <3>5, EmptyFiles
  <2>6. QED
    BY <2>4, <2>5
<1>6. AnswerInv'
  BY <1>2, <1>4 DEF AnswerInv
<1>7. AnsweredInTurnIsRecorded'
  BY <1>5 DEF AnsweredInTurnIsRecorded, Recorded, Turn
<1>8. QED
  BY <1>6, <1>7

\* A session that stays whole is not dropped from a list.
LEMMA ListKept ==
  ASSUME StoreTypeOK, ListInv, ListIsComplete, Next
  PROVE  ListInv' /\ ListIsComplete'
<1> USE DEF ListInv, ListIsComplete
<1>1. CASE ReadDir /\ steady' = AllWhole
  BY <1>1 DEF ReadDir, AllWhole
<1>2. CASE Step /\ steady' = IF listing = "reading" THEN steady \cap AllWhole
                             ELSE steady
  <2>1. ASSUME NEW s \in Sessions, LoadListed(s)
        PROVE  ListInv' /\ ListIsComplete'
    <3>1. /\ s \in left /\ loaded = {} /\ left' = left \ {s}
          /\ loaded' = {t \in {s} : file[t].state = "whole"}
          /\ found' = found /\ listing' = listing /\ file' = file
      BY <2>1 DEF LoadListed
    <3>2. listing = "reading" =>
            steady' \subseteq found' \cup left' \cup loaded'
      BY <1>2, <3>1 DEF AllWhole
    <3>3. QED
      BY <1>2, <3>1, <3>2
  <2>2. ASSUME NEW s \in Sessions, StatListed(s)
        PROVE  ListInv' /\ ListIsComplete'
    <3>1. /\ s \in loaded /\ loaded' = {} /\ left' = left
          /\ found' = found \cup {t \in {s} : file[t].state # "absent"}
          /\ listing' = listing /\ file' = file
      BY <2>2 DEF StatListed
    <3>2. listing = "reading" =>
            steady' \subseteq found' \cup left' \cup loaded'
      BY <1>2, <3>1 DEF AllWhole
    <3>3. QED
      BY <1>2, <3>1, <3>2
  <2>3. CASE AnswerList
    BY <1>2, <2>3 DEF AnswerList
  <2>4. CASE Crash
    BY <1>2, <2>4 DEF Crash
  <2>5. CASE UNCHANGED list
    BY <1>2, <2>5 DEF list
  <2>6. QED
    BY <1>2, <2>1, <2>2, <2>3, <2>4, <2>5
       DEF Step, ListStep, PromptStep, SavePrompt, SaveReply, Rescue,
           SaveFails, Create, AnswerNew, NewFails, Delete, Load, Refuse,
           Truncate, Write, OpenFails, WriteFails, Run, LoopFails
<1>3. QED
  BY <1>1, <1>2 DEF Next

-----------------------------------------------------------------------------
(* The theorems.                                                           *)

\* The invariant holds at the start and after every step.
THEOREM Inductive == Spec => []IInv
<1>1. Init => IInv
  <2>1. SUFFICES ASSUME Init PROVE IInv
    OBVIOUS
  <2>2. StoreTypeOK
    BY <2>1, EmptyFiles, FileTypes DEF Init, StoreTypeOK, Pcs
  <2>3. TurnInv /\ NewInv
    BY <2>1, EmptyFiles, StoreAssumption
       DEF Init, TurnInv, NewInv, Nowhere, Turns, Holds, StoreAssumption
  <2>4. /\ LastInv /\ BornInv /\ AloneInv /\ SaveInv
        /\ AnswerInv /\ AnsweredInTurnIsRecorded
    BY <2>1 DEF Init, LastInv, BornInv, AloneInv, SaveInv, AnswerInv, Active,
                AnsweredInTurnIsRecorded
  <2>5. ReadableUnlessSaving /\ ListInv /\ ListIsComplete
    BY <2>1 DEF Init, ReadableUnlessSaving, ListInv, ListIsComplete
  <2>6. QED
    BY <2>2, <2>3, <2>4, <2>5 DEF IInv
<1>2. ASSUME IInv, [Next]_vars PROVE IInv'
  <2>1. CASE Next
    BY <1>2, <2>1, StoreAssumption, TypeStep, TurnStep, NewStep, LastStep,
       BornStep, AloneStep, SaveStep, AnswerStep, ReadableStep, ListKept
       DEF IInv
  <2>2. CASE UNCHANGED vars
    BY <1>2, <2>2
       DEF vars, list, history, IInv, StoreTypeOK, TurnInv, NewInv, Nowhere,
           LastInv, BornInv, AloneInv, Active, SaveInv, AnswerInv,
           AnsweredInTurnIsRecorded, Recorded, ReadableUnlessSaving, Saving,
           ListInv, ListIsComplete
  <2>3. QED
    BY <1>2, <2>1, <2>2
<1>3. QED
  BY <1>1, <1>2, PTL DEF Spec

\* A file that can be read holds whole turns of its own session, each once
\* (session.go:200-206, agent/manager.go:305-400).
THEOREM TurnsCorrect == Spec => []TurnsInPlace
<1>1. IInv => TurnsInPlace
  BY DEF IInv, TurnInv, Turns, TurnsInPlace
<1>2. QED
  BY <1>1, Inductive, PTL

\* Where prompts come one at a time, a file that can be read has what each
\* answered prompt has recorded, whichever saves fail or are cut by a crash
\* (agent/manager.go:310-316, session.go:206).
THEOREM AnswersStay == Spec => []AnsweredInTurnIsRecorded
<1>1. IInv => AnsweredInTurnIsRecorded
  BY DEF IInv
<1>2. QED
  BY <1>1, Inductive, PTL

\* Where prompts come one at a time, only a save that is under way, or one that
\* a crash or a fault has cut behind its truncation and no later one has made
\* good, leaves a file that cannot be read (session.go:206, manager.go:314).
THEOREM FilesReadable == Spec => []ReadableUnlessSaving
<1>1. IInv => ReadableUnlessSaving
  BY DEF IInv
<1>2. QED
  BY <1>1, Inductive, PTL

\* A list misses no session that could be read all along (session.List).
THEOREM ListsComplete == Spec => []ListIsComplete
<1>1. IInv => ListIsComplete
  BY DEF IInv
<1>2. QED
  BY <1>1, Inductive, PTL
=============================================================================

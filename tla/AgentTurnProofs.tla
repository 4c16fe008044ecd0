-------------------------- MODULE AgentTurnProofs --------------------------
(***************************************************************************)
(* Theorems about the turns of a session, for every number of turns,       *)
(* rounds, deltas and tools and with every failure.                        *)
(***************************************************************************)
EXTENDS AgentTurn, TLAPS

\* The three folds of AgentTurn: the messages without the notices, what the
\* client was sent before, and the messages of an anthropic request.
Plain == INSTANCE Folding WITH Op <- LeaveOut
Shown == INSTANCE Folding WITH Op <- Show
Conversion == INSTANCE Folding WITH Op <- Convert

-----------------------------------------------------------------------------
(* The invariant.                                                          *)

CallIds == Ids \cup {None}
Messages ==
  [role : {"user", "assistant", "tool", "notice"}, turn : Nat,
   calls : Seq(CallIds), id : CallIds, text : BOOLEAN, whole : BOOLEAN]
EventKinds == {"user", "info", "text", "tool_call", "file",
               "tool_call_update", "usage"}
Events == [kind : EventKinds, turn : Nat, id : CallIds]
File == [msgs : Seq(Messages), events : Seq(Events), titled : BOOLEAN]
BlockMessages ==
  [role : {"user", "assistant"}, turn : Nat, uses : Seq(CallIds),
   results : Seq(CallIds)]

Pcs == {"idle", "loaded", "saving", "request", "streaming", "failed",
        "tools", "running", "ran", "usage", "finishing"}

TurnTypeOK ==
  /\ pc \in Pcs
  /\ turn \in 0..MaxTurns /\ (pc # "idle" => turn \in Turns)
  /\ msgs \in Seq(Messages) /\ events \in Seq(Events) /\ titled \in BOOLEAN
  /\ disk \in File /\ torn \in BOOLEAN
  /\ calls \in Seq(CallIds) /\ text \in BOOLEAN /\ deltas \in Nat
  /\ pc \in {"tools", "running", "ran"} => next \in 1..Len(calls)
  /\ pc \in {"idle", "loaded", "saving", "request", "streaming"} => next = 1
  /\ ctxDone \in BOOLEAN /\ lossy \in BOOLEAN
  /\ answers \in [Turns -> {None, "error", "end_turn"}]
  /\ sent \in Seq(Events)

\* Only whole responses are stored.
AllWhole(ms) == \A i \in 1..Len(ms) : ms[i].whole
WholeInv == AllWhole(msgs) /\ NoInterruptedResponse

\* The client has been sent what is recorded, in memory or, outside the turn,
\* in the file.
ReplayInv ==
  ~lossy =>
    /\ pc \in {"idle", "loaded"} => Updates(disk.events) = sent
    /\ pc # "idle" => Updates(events) = sent

\* The prompt of turn t, a response that calls nothing, and its usage.
Asked(ms, t) == \E i \in 1..Len(ms) : ms[i] = User(t)
Answered(ms, t) ==
  \E i, j \in 1..Len(ms), txt \in BOOLEAN :
    i < j /\ ms[i] = User(t) /\ ms[j] = Response(t, <<>>, txt, TRUE)
Reported(es, t) ==
  \E i \in 1..Len(es) : es[i] = [kind |-> "usage", turn |-> t, id |-> None]

\* A turn that ends has them all.
ProgressInv ==
  /\ pc \notin {"idle", "failed"} => Asked(msgs, turn)
  /\ pc \in {"usage", "finishing"} => Answered(msgs, turn)
  /\ pc = "finishing" => Reported(events, turn)

\* What ended before is in the last whole file, and in what may replace it.
DurableInv ==
  \A t \in Turns : answers[t] = "end_turn" =>
    /\ Answered(disk.msgs, t) /\ Reported(disk.events, t)
    /\ pc # "idle" => Answered(msgs, t) /\ Reported(events, t)

\* Only turns that have failed, or are about to, left calls open.
BrokenInv ==
  /\ broken \subseteq 1..turn
  /\ pc \notin {"idle", "failed"} => turn \notin broken
  /\ \A t \in broken : answers[t] # "end_turn"
  /\ \A t \in Turns : t > turn \/ (t = turn /\ pc # "idle")
                       => answers[t] = None

\* Calls and results match, save in the turns of E.
Settled(ms, E) == \A i \in 1..Len(ms) : Resolved(ms, i) \/ ms[i].turn \in E
Matched(bs, E) == \A i \in 1..Len(bs) : Paired(bs, i) \/ bs[i].turn \in E
Good(ms, E) == Settled(ms, E) /\ Matched(AnthropicRequest(ms), E)

\* The same while the n first of the calls cs of the last response, which is
\* of turn t, have their results and the others have not.
OpenCalls(ms, cs, n, t, E) ==
  LET o == Len(ms) - n IN
    /\ o \in 1..Len(ms) /\ ms[o].calls = cs /\ ms[o].turn = t
    /\ \A k \in 1..n : ms[o + k].role = "tool" /\ ms[o + k].id = cs[k]
    /\ \A i \in 1..Len(ms) : i = o \/ Resolved(ms, i) \/ ms[i].turn \in E

OpenUses(bs, cs, n, t, E) ==
  LET o == IF n = 0 THEN Len(bs) ELSE Len(bs) - 1 IN
    /\ o \in 1..Len(bs)
    /\ bs[o].uses = cs /\ bs[o].results = <<>> /\ bs[o].turn = t
    /\ n > 0 => /\ bs[Len(bs)].role = "user" /\ bs[Len(bs)].uses = <<>>
                /\ bs[Len(bs)].results = SubSeq(cs, 1, n)
                /\ bs[Len(bs)].turn = t
    /\ \A i \in 1..(o - 1) : Paired(bs, i) \/ bs[i].turn \in E

Open(ms, cs, n, t, E) ==
  /\ OpenCalls(ms, cs, n, t, E)
  /\ OpenUses(AnthropicRequest(ms), cs, n, t, E)

FileInv == Good(disk.msgs, broken)
ContextInv ==
  /\ pc \in {"loaded", "saving", "request", "streaming", "usage",
             "finishing", "failed"} => Good(msgs, broken)
  /\ pc \in {"tools", "running", "ran"} =>
       Open(msgs, calls, next - 1, turn, broken)

IInv ==
  /\ TurnTypeOK /\ WholeInv /\ ReplayInv
  /\ ProgressInv /\ DurableInv
  /\ BrokenInv /\ FileInv /\ ContextInv

-----------------------------------------------------------------------------
(* The folds.                                                              *)

\* The three instances are the folds of the model.
LEMMA SameFolds ==
  ASSUME NEW s
  PROVE /\ Plain!Fold(<<>>, s) = WithoutNotices(s)
        /\ Shown!Fold(<<>>, s) = Updates(s)
        /\ Conversion!Fold(<<>>, s) = AnthropicRequest(s)
<1>1. Plain!Fold(<<>>, s) = WithoutNotices(s)
  BY DEF Plain!Fold, WithoutNotices, Plain!FoldLeft, Plain!MapThenFoldSet,
         FoldLeft, MapThenFoldSet, Plain!Max, Max
<1>2. Shown!Fold(<<>>, s) = Updates(s)
  BY DEF Shown!Fold, Updates, Shown!FoldLeft, Shown!MapThenFoldSet,
         FoldLeft, MapThenFoldSet, Shown!Max, Max
<1>3. Conversion!Fold(<<>>, s) = AnthropicRequest(s)
  BY DEF Conversion!Fold, AnthropicRequest, Conversion!FoldLeft,
         Conversion!MapThenFoldSet, FoldLeft, MapThenFoldSet,
         Conversion!Max, Max
<1> QED
  BY <1>1, <1>2, <1>3

\* Each of them starts with nothing and takes one element after the other.
LEMMA FoldSteps ==
  /\ WithoutNotices(<<>>) = <<>> /\ Updates(<<>>) = <<>>
  /\ AnthropicRequest(<<>>) = <<>>
  /\ \A s \in Seq(Messages), m \in Messages :
       /\ WithoutNotices(Append(s, m)) = LeaveOut(WithoutNotices(s), m)
       /\ AnthropicRequest(Append(s, m)) = Convert(AnthropicRequest(s), m)
  /\ \A s \in Seq(Events), e \in Events :
       Updates(Append(s, e)) = Show(Updates(s), e)
<1>1. /\ WithoutNotices(<<>>) = <<>> /\ Updates(<<>>) = <<>>
      /\ AnthropicRequest(<<>>) = <<>>
  BY Plain!FoldEmpty, Shown!FoldEmpty, Conversion!FoldEmpty, SameFolds
<1>2. ASSUME NEW s \in Seq(Messages), NEW m \in Messages
      PROVE /\ WithoutNotices(Append(s, m)) = LeaveOut(WithoutNotices(s), m)
            /\ AnthropicRequest(Append(s, m)) = Convert(AnthropicRequest(s), m)
  BY Plain!FoldAppend, Conversion!FoldAppend, SameFolds
<1>3. ASSUME NEW s \in Seq(Events), NEW e \in Events
      PROVE Updates(Append(s, e)) = Show(Updates(s), e)
  BY Shown!FoldAppend, SameFolds
<1> QED
  BY <1>1, <1>2, <1>3

\* What is left without the notices are messages.
LEMMA PlainType ==
  \A s \in Seq(Messages) : WithoutNotices(s) \in Seq(Messages)
<1> DEFINE T == {s \in Seq(Messages) : WithoutNotices(s) \in Seq(Messages)}
<1>1. <<>> \in T
  <2>1. WithoutNotices(<<>>) = <<>> /\ <<>> \in Seq(Messages)
    BY FoldSteps
  <2> QED
    BY <2>1, Zenon
<1>2. ASSUME NEW s \in Seq(Messages), NEW m \in Messages, s \in T
      PROVE Append(s, m) \in T
  <2>1. WithoutNotices(Append(s, m)) = LeaveOut(WithoutNotices(s), m)
    BY FoldSteps
  <2> QED
    BY <1>2, <2>1 DEF LeaveOut
<1> HIDE DEF T
<1>3. Seq(Messages) \subseteq T
  BY <1>1, <1>2, Plain!EverySequence
<1> QED
  BY <1>3 DEF T

\* What is appended to whole messages.
LEMMA WholeAppend ==
  ASSUME NEW s \in Seq(Messages), NEW m \in Messages
  PROVE AllWhole(Append(s, m)) <=> AllWhole(s) /\ m.whole
<1>1. /\ Len(Append(s, m)) = Len(s) + 1 /\ Append(s, m)[Len(s) + 1] = m
      /\ \A i \in 1..Len(s) : Append(s, m)[i] = s[i]
  OBVIOUS
<1>2. Len(s) \in Nat
  OBVIOUS
<1> QED
  BY <1>1, <1>2 DEF AllWhole

\* They are messages of the sequence, so they are whole if those are.
LEMMA PlainWhole ==
  ASSUME NEW s \in Seq(Messages), AllWhole(s)
  PROVE AllWhole(WithoutNotices(s))
<1> DEFINE T == {q \in Seq(Messages) :
                   AllWhole(q) => AllWhole(WithoutNotices(q))}
<1>1. <<>> \in T
  BY FoldSteps DEF AllWhole
<1>2. ASSUME NEW q \in Seq(Messages), NEW m \in Messages, q \in T
      PROVE Append(q, m) \in T
  <2>1. WithoutNotices(Append(q, m)) = LeaveOut(WithoutNotices(q), m)
    BY FoldSteps
  <2>2. Append(q, m) \in Seq(Messages) /\ WithoutNotices(q) \in Seq(Messages)
    BY PlainType
  <2>3. AllWhole(Append(q, m)) => AllWhole(q) /\ m.whole
    BY WholeAppend
  <2>4. AllWhole(WithoutNotices(q)) /\ m.whole
          => AllWhole(LeaveOut(WithoutNotices(q), m))
    BY <2>2, WholeAppend DEF LeaveOut
  <2> QED
    BY <1>2, <2>1, <2>2, <2>3, <2>4
<1> HIDE DEF T
<1>3. Seq(Messages) \subseteq T
  BY <1>1, <1>2, Plain!EverySequence
<1> QED
  BY <1>3 DEF T

\* Two of the messages keep their order.
LEMMA PlainOrder ==
  ASSUME NEW s \in Seq(Messages), NEW a, NEW b,
         NEW i \in 1..Len(s), NEW j \in 1..Len(s), i < j,
         s[i] = a, s[j] = b, a.role # "notice", b.role # "notice"
  PROVE \E k, l \in 1..Len(WithoutNotices(s)) :
          k < l /\ WithoutNotices(s)[k] = a /\ WithoutNotices(s)[l] = b
<1> DEFINE One(q) == \E n \in 1..Len(q) : q[n] = a
           Two(q) == \E k, l \in 1..Len(q) : k < l /\ q[k] = a /\ q[l] = b
           T == {q \in Seq(Messages) :
                   /\ One(q) => One(WithoutNotices(q))
                   /\ Two(q) => Two(WithoutNotices(q))}
<1>1. <<>> \in T
  BY FoldSteps
<1>2. ASSUME NEW q \in Seq(Messages), NEW m \in Messages, q \in T
      PROVE Append(q, m) \in T
  <2> DEFINE p == WithoutNotices(q)
  <2>1. WithoutNotices(Append(q, m)) = LeaveOut(p, m) /\ p \in Seq(Messages)
    BY FoldSteps, PlainType
  <2>2. ASSUME One(Append(q, m)) PROVE One(LeaveOut(p, m))
    <3>1. One(q) \/ m = a
      BY <2>2
    <3>2. CASE m = a
      BY <3>2, <2>1 DEF LeaveOut
    <3>3. CASE One(q)
      BY <3>3, <2>1, <1>2 DEF LeaveOut
    <3> QED
      BY <3>1, <3>2, <3>3
  <2>3. ASSUME Two(Append(q, m)) PROVE Two(LeaveOut(p, m))
    <3>1. PICK k, l \in 1..Len(Append(q, m)) :
            k < l /\ Append(q, m)[k] = a /\ Append(q, m)[l] = b
      BY <2>3
    <3>2. k \in 1..Len(q) /\ q[k] = a
      BY <3>1
    <3>3. CASE l \in 1..Len(q)
      <4>1. Two(q)
        BY <3>1, <3>2, <3>3
      <4>2. PICK x, y \in 1..Len(p) : x < y /\ p[x] = a /\ p[y] = b
        BY <4>1, <1>2
      <4> HIDE DEF p
      <4>3. /\ x \in 1..Len(Append(p, m)) /\ y \in 1..Len(Append(p, m))
            /\ Append(p, m)[x] = a /\ Append(p, m)[y] = b
        BY <4>2, <2>1
      <4> QED
        BY <4>2, <4>3 DEF LeaveOut
    <3>4. CASE l = Len(q) + 1
      <4>1. m = b
        BY <3>1, <3>4
      <4>2. PICK x \in 1..Len(p) : p[x] = a
        BY <3>2, <1>2
      <4>3. LeaveOut(p, m) = Append(p, m)
        BY <4>1 DEF LeaveOut
      <4>4. /\ x \in 1..Len(Append(p, m)) /\ Len(p) + 1 \in 1..Len(Append(p, m))
            /\ x < Len(p) + 1 /\ Append(p, m)[x] = a
            /\ Append(p, m)[Len(p) + 1] = b
        BY <4>1, <4>2, <2>1
      <4> QED
        BY <4>3, <4>4
    <3> QED
      BY <3>3, <3>4
  <2>4. Append(q, m) \in Seq(Messages)
    OBVIOUS
  <2> HIDE DEF One, Two
  <2> QED
    BY <2>1, <2>2, <2>3, <2>4
<1> HIDE DEF T
<1>3. Seq(Messages) \subseteq T
  BY <1>1, <1>2, Plain!EverySequence
<1> QED
  BY <1>3 DEF T

\* The notices make no difference to an anthropic request.
LEMMA PlainRequest ==
  \A s \in Seq(Messages) :
    AnthropicRequest(WithoutNotices(s)) = AnthropicRequest(s)
<1> DEFINE T == {s \in Seq(Messages) :
                   AnthropicRequest(WithoutNotices(s)) = AnthropicRequest(s)}
<1>1. <<>> \in T
  BY FoldSteps
<1>2. ASSUME NEW s \in Seq(Messages), NEW m \in Messages, s \in T
      PROVE Append(s, m) \in T
  <2>1. /\ WithoutNotices(Append(s, m)) = LeaveOut(WithoutNotices(s), m)
        /\ AnthropicRequest(Append(s, m)) = Convert(AnthropicRequest(s), m)
        /\ WithoutNotices(s) \in Seq(Messages)
    BY FoldSteps, PlainType
  <2>2. CASE m.role = "notice"
    BY <2>1, <2>2, <1>2 DEF LeaveOut, Convert
  <2>3. CASE m.role # "notice"
    <3>1. AnthropicRequest(Append(WithoutNotices(s), m))
            = Convert(AnthropicRequest(WithoutNotices(s)), m)
      BY <2>1, FoldSteps
    <3>2. LeaveOut(WithoutNotices(s), m) = Append(WithoutNotices(s), m)
      BY <2>3 DEF LeaveOut
    <3> HIDE DEF T
    <3>3. AnthropicRequest(WithoutNotices(s)) = AnthropicRequest(s)
      BY <1>2 DEF T
    <3>4. Append(s, m) \in Seq(Messages)
      OBVIOUS
    <3> QED
      BY <3>1, <3>2, <3>3, <3>4, <2>1 DEF T
  <2> QED
    BY <2>2, <2>3
<1> HIDE DEF T
<1>3. Seq(Messages) \subseteq T
  BY <1>1, <1>2, Plain!EverySequence
<1> QED
  BY <1>3 DEF T

\* An anthropic request is a sequence of messages of blocks.
LEMMA RequestType ==
  \A s \in Seq(Messages) : AnthropicRequest(s) \in Seq(BlockMessages)
<1> DEFINE T == {s \in Seq(Messages) :
                   AnthropicRequest(s) \in Seq(BlockMessages)}
<1>1. <<>> \in T
  <2>1. /\ AnthropicRequest(<<>>) = <<>>
        /\ <<>> \in Seq(Messages) /\ <<>> \in Seq(BlockMessages)
    BY FoldSteps
  <2> QED
    BY <2>1, Zenon
<1>2. ASSUME NEW s \in Seq(Messages), NEW m \in Messages, s \in T
      PROVE Append(s, m) \in T
  <2>1. AnthropicRequest(Append(s, m)) = Convert(AnthropicRequest(s), m)
    BY FoldSteps
  <2> DEFINE bs == AnthropicRequest(s)
  <2>2. bs \in Seq(BlockMessages)
    BY <1>2
  <2>3. /\ m.turn \in Nat /\ m.calls \in Seq(CallIds) /\ m.id \in CallIds
        /\ <<m.id>> \in Seq(CallIds) /\ <<>> \in Seq(CallIds)
    BY DEF Messages
  <2>4. /\ Blocks(m, <<>>, <<m.id>>) \in BlockMessages
        /\ Blocks(m, m.calls, <<>>) \in BlockMessages
    BY <2>3 DEF Blocks, BlockMessages
  <2>5. ASSUME bs # <<>>
        PROVE [bs EXCEPT ![Len(bs)].results = Append(@, m.id)]
                \in Seq(BlockMessages)
    <3> DEFINE n == Len(bs)
               b == [bs[n] EXCEPT !.results = Append(@, m.id)]
    <3>1. n \in 1..Len(bs) /\ bs[n] \in BlockMessages
      BY <2>2, <2>5
    <3>2. b \in BlockMessages
      <4>1. ASSUME NEW c \in BlockMessages, NEW i \in CallIds
            PROVE [c EXCEPT !.results = Append(@, i)] \in BlockMessages
        <5>1. c.results \in Seq(CallIds)
          BY DEF BlockMessages
        <5>2. Append(c.results, i) \in Seq(CallIds)
          BY <5>1
        <5> QED
          BY <5>2 DEF BlockMessages
      <4> QED
        BY <3>1, <2>3, <4>1
    <3>3. [bs EXCEPT ![n] = b] \in Seq(BlockMessages)
      BY <3>1, <3>2, <2>2
    <3> QED
      BY <3>3
  <2>6. Convert(bs, m) \in Seq(BlockMessages)
    BY <2>2, <2>4, <2>5 DEF Convert
  <2> QED
    BY <2>1, <2>6
<1> HIDE DEF T
<1>3. Seq(Messages) \subseteq T
  BY <1>1, <1>2, Plain!EverySequence
<1> QED
  BY <1>3 DEF T

-----------------------------------------------------------------------------
(* Types.                                                                  *)

\* The messages and the events the turns make.
LEMMA Made ==
  /\ \A t \in Nat : User(t) \in Messages /\ Notice(t) \in Messages
  /\ \A t \in Nat, i \in CallIds : ToolResult(t, i) \in Messages
  /\ \A t \in Nat, cs \in Seq(CallIds), txt \in BOOLEAN, w \in BOOLEAN :
       Response(t, cs, txt, w) \in Messages
  /\ \A kind \in EventKinds, i \in CallIds :
       turn \in Nat => Event(kind, i) \in Events
<1>1. None \in CallIds /\ <<>> \in Seq(CallIds)
  BY DEF CallIds
<1> QED
  BY <1>1 DEF User, Notice, ToolResult, Response, Message, Messages, Event,
              Events

\* The messages with their notice are messages.
LEMMA NoticeType ==
  ASSUME NEW s \in Seq(Messages), turn \in Nat
  PROVE WithNotice(s) \in Seq(Messages)
BY PlainType, Made DEF WithNotice

\* The prover's view of Emit.
LEMMA EmitType ==
  ASSUME NEW e \in Events, NEW then \in Pcs, NEW failing \in Pcs,
         Emit(e, then, failing), events \in Seq(Events), sent \in Seq(Events),
         lossy \in BOOLEAN
  PROVE /\ events' \in Seq(Events) /\ sent' \in Seq(Events)
        /\ lossy' \in BOOLEAN /\ pc' \in {then, failing}
<1>1. events' \in Seq(Events)
  BY DEF Emit
<1>2. CASE Send(e) /\ pc' = then
  <2>1. Append(sent, e) \in Seq(Events)
    OBVIOUS
  <2> QED
    BY <1>1, <1>2, <2>1 DEF Send
<1>3. CASE Apart /\ pc' = failing
  BY <1>1, <1>3 DEF Apart
<1> QED
  BY <1>2, <1>3 DEF Emit

-----------------------------------------------------------------------------
(* The kinds of steps: those that end a turn, those that write the file,   *)
(* and those within a turn.                                                *)

\* The turn ends without having saved the file, which may be torn.
Drops ==
  /\ pc # "idle" /\ Return
  /\ UNCHANGED <<turn, disk, broken>> /\ torn' \in BOOLEAN
  /\ Apart \/ (pc = "loaded" /\ UNCHANGED <<sent, lossy>>)
  /\ answers' = answers \/ answers' = [answers EXCEPT ![turn] = "error"]

\* It is saved, and ends.
Stored ==
  /\ pc \in {"saving", "finishing", "failed"} /\ disk' = FileToSave /\ Return
  /\ UNCHANGED <<turn, broken>> /\ torn' \in BOOLEAN
  /\ Apart \/ UNCHANGED <<sent, lossy>>
  /\ \/ answers' = answers
     \/ pc = "failed" /\ answers' = [answers EXCEPT ![turn] = "error"]
     \/ pc = "finishing" /\ answers' = [answers EXCEPT ![turn] = "end_turn"]

\* The prompt is saved.
Checkpoint ==
  /\ pc = "saving" /\ pc' = "request" /\ disk' = Session
  /\ torn' \in BOOLEAN
  /\ UNCHANGED <<turn, session, round, builder, ctxDone, answers, sent,
                 history>>

\* The title is announced.
Announced ==
  /\ pc = "loaded" /\ pc' = "saving"
  /\ events' = Append(events, Event("info", None))
  /\ Send(Event("info", None))
  /\ titled' = TRUE
  /\ UNCHANGED <<turn, msgs, file, round, builder, ctxDone, answers, broken>>

\* The notice is there, and the save fails.
Unsaved ==
  /\ pc = "finishing" /\ pc' = "failed" /\ msgs' = WithNotice(msgs)
  /\ torn' \in BOOLEAN
  /\ UNCHANGED <<turn, events, titled, disk, round, builder, ctxDone, answers,
                 sent, history>>

\* A step is of one of these kinds.
LEMMA StepKinds ==
  ASSUME Next, torn \in BOOLEAN
  PROVE \/ Prompt \/ PromptUnloaded \/ Drops \/ Stored \/ Checkpoint
        \/ Announced \/ KeepTitle \/ CreateStream \/ CreateStreamFails
        \/ \E thought \in BOOLEAN : ContentDelta(thought)
        \/ RoleDelta \/ \E i \in DeltaIds : CallDelta(i)
        \/ StreamError \/ \E whole \in BOOLEAN : StreamCloses(whole)
        \/ ToolCallStart \/ ToolRun \/ ToolCallDone
        \/ SendUsage \/ Unsaved \/ Cancel
<1>1. CASE UseAgentFails
  BY <1>1 DEF UseAgentFails, Answer, Drops, history, file
<1>2. CASE AnnounceTitle
  <2>1. CASE /\ events' = Append(events, Event("info", None))
             /\ Send(Event("info", None))
             /\ titled' = TRUE
             /\ pc' = "saving"
             /\ UNCHANGED <<msgs, round, builder, ctxDone, answers>>
    BY <1>2, <2>1 DEF AnnounceTitle, Announced
  <2>2. CASE Apart /\ Answer("error")
    BY <1>2, <2>2 DEF AnnounceTitle, Answer, Drops, file
  <2> QED
    BY <1>2, <2>1, <2>2 DEF AnnounceTitle
<1>3. CASE SavePrompt
  <2>1. CASE /\ Saved(Session)
             /\ pc' = "request"
             /\ UNCHANGED <<session, round, builder, ctxDone, answers, sent,
                            lossy>>
    BY <1>3, <2>1 DEF SavePrompt, Saved, Checkpoint, history
  <2>2. CASE NotSaved /\ Apart /\ Answer("error")
    BY <1>3, <2>2 DEF SavePrompt, NotSaved, Answer, Drops
  <2> QED
    BY <1>3, <2>1, <2>2 DEF SavePrompt
<1>4. CASE Finish
  <2>1. CASE Saved(FileToSave) /\ Answer("end_turn")
    BY <1>4, <2>1 DEF Finish, Saved, Stored, Answer, history
  <2>2. CASE /\ NotSaved
             /\ msgs' = WithNotice(msgs)
             /\ pc' = "failed"
             /\ UNCHANGED <<events, titled, round, builder, ctxDone, answers>>
    BY <1>4, <2>2 DEF Finish, NotSaved, Unsaved
  <2> QED
    BY <1>4, <2>1, <2>2 DEF Finish
<1>5. CASE Fail
  <2>1. CASE Saved(Session) /\ UNCHANGED <<sent, lossy>>
    <3>1. FileToSave = Session
      BY <1>5 DEF Fail, FileToSave
    <3> QED
      BY <1>5, <2>1, <3>1 DEF Fail, Saved, Stored, Answer
  <2>2. CASE NotSaved /\ Apart
    BY <1>5, <2>2 DEF Fail, NotSaved, Answer, Drops
  <2> QED
    BY <1>5, <2>1, <2>2 DEF Fail
<1>6. CASE Crash
  <2>1. CASE UNCHANGED file
    BY <1>6, <2>1 DEF Crash, Drops, file
  <2>2. CASE /\ pc \in {"saving", "finishing", "failed"}
             /\ Saved(FileToSave)
    BY <1>6, <2>2 DEF Crash, Saved, Stored
  <2>3. CASE torn' = TRUE /\ UNCHANGED disk
    BY <1>6, <2>3 DEF Crash, Drops
  <2> QED
    BY <1>6, <2>1, <2>2, <2>3 DEF Crash
<1> QED
  BY <1>1, <1>2, <1>3, <1>4, <1>5, <1>6 DEF Next, Step, Respond

-----------------------------------------------------------------------------
(* Type correctness.                                                       *)

\* Type correctness of the initial states.
LEMMA TypeInit == Init => TurnTypeOK
<1> SUFFICES ASSUME Init PROVE TurnTypeOK
  OBVIOUS
<1>1. <<>> \in Seq(Messages) /\ <<>> \in Seq(Events) /\ <<>> \in Seq(CallIds)
  OBVIOUS
<1>2. disk \in File /\ torn \in BOOLEAN /\ deltas \in Nat
  BY <1>1 DEF Init, NewSession, File
<1>3. MaxTurns \in Nat
  BY TurnAssumption
<1>4. answers \in [Turns -> {None, "error", "end_turn"}]
  BY DEF Init
<1>5. /\ msgs \in Seq(Messages) /\ events \in Seq(Events)
      /\ sent \in Seq(Events) /\ calls \in Seq(CallIds)
  BY <1>1, Zenon DEF Init
<1>6. /\ titled \in BOOLEAN /\ text \in BOOLEAN
      /\ ctxDone \in BOOLEAN /\ lossy \in BOOLEAN
  BY DEF Init
<1>7. pc = "idle" /\ turn = 0 /\ next = 1
  BY DEF Init
<1> QED
  BY <1>2, <1>3, <1>4, <1>5, <1>6, <1>7 DEF TurnTypeOK, Pcs

\* Type correctness of the state a returning turn leaves.
LEMMA ReturnType ==
  ASSUME TurnTypeOK, Return, turn' = turn, disk' \in File, torn' \in BOOLEAN,
         Apart \/ UNCHANGED <<sent, lossy>>,
         \/ answers' = answers
         \/ \E a \in {"error", "end_turn"} :
              answers' = [answers EXCEPT ![turn] = a]
  PROVE TurnTypeOK'
<1>1. answers' \in [Turns -> {None, "error", "end_turn"}]
  BY DEF TurnTypeOK
<1>2. turn \in 0..MaxTurns
  BY DEF TurnTypeOK
<1>3. <<>> \in Seq(Messages) /\ <<>> \in Seq(Events) /\ <<>> \in Seq(CallIds)
  OBVIOUS
<1>4. sent' \in Seq(Events) /\ lossy' \in BOOLEAN
  BY <1>3 DEF Apart, TurnTypeOK
<1> QED
  BY <1>1, <1>2, <1>3, <1>4 DEF Return, TurnTypeOK, Pcs, File

\* Type correctness of a step.
LEMMA TypeStep == TurnTypeOK /\ [Next]_vars => TurnTypeOK'
<1> SUFFICES ASSUME TurnTypeOK, [Next]_vars PROVE TurnTypeOK'
  OBVIOUS
<1> USE TurnAssumption
<1>0. /\ turn \in Nat /\ MaxTurns \in Nat
      /\ Session \in File /\ FileToSave \in File
      /\ <<>> \in Seq(CallIds) /\ None \in CallIds
  <2>1. turn \in Nat /\ msgs \in Seq(Messages)
    BY DEF TurnTypeOK
  <2>2. WithNotice(msgs) \in Seq(Messages)
    BY <2>1, NoticeType
  <2>3. Session \in File /\ [Session EXCEPT !.msgs = WithNotice(msgs)] \in File
    BY <2>1, <2>2 DEF TurnTypeOK, Session, File
  <2> QED
    BY <2>1, <2>3 DEF CallIds, FileToSave
<1>1. CASE Prompt
  <2>1. turn' \in Turns /\ turn' \in Nat
    BY <1>1, <1>0 DEF Prompt, TurnTypeOK, Turns
  <2>2. User(turn') \in Messages
    BY <2>1, Made
  <2>3. [kind |-> "user", turn |-> turn', id |-> None] \in Events
    BY <1>0, <2>1 DEF Events, EventKinds
  <2>4. disk.msgs \in Seq(Messages) /\ disk.events \in Seq(Events)
    BY DEF TurnTypeOK, File
  <2>5. msgs' \in Seq(Messages) /\ events' \in Seq(Events)
    BY <1>1, <2>2, <2>3, <2>4 DEF Prompt
  <2>6. titled' \in BOOLEAN
    BY <1>1 DEF Prompt, TurnTypeOK, File
  <2>7. turn' \in 0..MaxTurns
    BY <2>1 DEF Turns
  <2> QED
    BY <1>1, <2>1, <2>5, <2>6, <2>7
    DEF Prompt, TurnTypeOK, Pcs, builder, history, file
<1>2. CASE PromptUnloaded
  <2>1. turn' \in Turns /\ turn' \in 0..MaxTurns /\ pc' = "idle"
    BY <1>2, <1>0 DEF PromptUnloaded, TurnTypeOK, Turns
  <2>2. answers' \in [Turns -> {None, "error", "end_turn"}]
    BY <1>2, <2>1 DEF PromptUnloaded, TurnTypeOK
  <2> QED
    BY <1>2, <2>1, <2>2
    DEF PromptUnloaded, TurnTypeOK, session, builder, history, file
<1>3. CASE Drops
  BY <1>3, ReturnType DEF Drops, TurnTypeOK, File
<1>4. CASE Stored
  BY <1>4, <1>0, ReturnType DEF Stored
<1>5. CASE Checkpoint
  <2>1. disk' \in File
    BY <1>5, <1>0 DEF Checkpoint
  <2> QED
    BY <1>5, <2>1 DEF Checkpoint, TurnTypeOK, Pcs, session, builder, history
<1>6. CASE Announced
  <2>1. Event("info", None) \in Events
    BY <1>0, Made DEF EventKinds
  <2>2. events' \in Seq(Events) /\ sent' \in Seq(Events)
    BY <1>6, <2>1 DEF Announced, Send, TurnTypeOK
  <2>3. lossy' = lossy
    BY <1>6 DEF Announced, Send
  <2> QED
    BY <1>6, <2>2, <2>3 DEF Announced, TurnTypeOK, Pcs, builder, file
<1>7. CASE KeepTitle
  BY <1>7 DEF KeepTitle, TurnTypeOK, Pcs, session, builder, history, file
<1>8. CASE CreateStream
  BY <1>8, <1>0 DEF CreateStream, TurnTypeOK, Pcs, session, history, file
<1>9. CASE CreateStreamFails
  BY <1>9
  DEF CreateStreamFails, TurnTypeOK, Pcs, session, builder, history, file
<1>10. ASSUME NEW thought \in BOOLEAN, ContentDelta(thought)
       PROVE TurnTypeOK'
  <2>1. Event("text", None) \in Events
    BY <1>0, Made DEF EventKinds
  <2>2. /\ events' \in Seq(Events) /\ sent' \in Seq(Events)
        /\ lossy' \in BOOLEAN /\ pc' \in {"streaming", "failed"}
    BY <1>10, <2>1, EmitType DEF ContentDelta, TurnTypeOK, Pcs
  <2>3. text' \in BOOLEAN /\ deltas' \in Nat
    BY <1>10 DEF ContentDelta, TurnTypeOK
  <2> QED
    BY <1>10, <2>2, <2>3 DEF ContentDelta, TurnTypeOK, Pcs, file
<1>21. CASE RoleDelta
  <2>1. deltas' \in Nat
    BY <1>21 DEF RoleDelta, TurnTypeOK
  <2> QED
    BY <1>21, <2>1 DEF RoleDelta, TurnTypeOK, Pcs, session, history, file
<1>11. ASSUME NEW i \in DeltaIds, CallDelta(i) PROVE TurnTypeOK'
  <2>1. i \in CallIds
    BY DEF DeltaIds, CallIds
  <2>2. calls' \in Seq(CallIds)
    BY <1>11, <2>1 DEF CallDelta, Merge, TurnTypeOK
  <2> QED
    BY <1>11, <2>2 DEF CallDelta, TurnTypeOK, Pcs, session, history, file
<1>12. CASE StreamError
  BY <1>12 DEF StreamError, TurnTypeOK, Pcs, session, builder, history, file
<1>13. ASSUME NEW whole \in BOOLEAN, StreamCloses(whole) PROVE TurnTypeOK'
  <2>1. Response(turn, calls, text, whole) \in Messages
    BY <1>0, Made DEF TurnTypeOK
  <2>2. msgs \in Seq(Messages)
    BY DEF TurnTypeOK
  <2>3. msgs' = msgs \/ msgs' = Append(msgs, Response(turn, calls, text, whole))
    BY <1>13 DEF StreamCloses, AcceptResponse
  <2>4. msgs' \in Seq(Messages)
    BY <2>1, <2>2, <2>3
  <2>5. pc' = "tools" => calls # <<>>
    BY <1>13 DEF StreamCloses, AcceptResponse
  <2>6. calls # <<>> => 1 \in 1..Len(calls)
    BY DEF TurnTypeOK
  <2> QED
    BY <1>13, <2>4, <2>5, <2>6
    DEF StreamCloses, AcceptResponse, TurnTypeOK, Pcs, builder, history, file
<1>14. CASE ToolCallStart
  <2>1. calls[next] \in CallIds
    BY <1>14 DEF ToolCallStart, TurnTypeOK
  <2>2. CallEvent("tool_call") \in Events
    BY <1>0, <2>1, Made DEF CallEvent, EventKinds
  <2>3. /\ events' \in Seq(Events) /\ sent' \in Seq(Events)
        /\ lossy' \in BOOLEAN /\ pc' \in {"running", "failed"}
    BY <1>14, <2>2, EmitType DEF ToolCallStart, EmitOrBreak, TurnTypeOK, Pcs
  <2> QED
    BY <1>14, <2>3 DEF ToolCallStart, TurnTypeOK, Pcs, builder, file
<1>15. CASE ToolRun
  <2>1. calls[next] \in CallIds
    BY <1>15 DEF ToolRun, TurnTypeOK
  <2>2. CallEvent("file") \in Events
    BY <1>0, <2>1, Made DEF CallEvent, EventKinds
  <2>3. /\ events' \in Seq(Events) /\ sent' \in Seq(Events)
        /\ lossy' \in BOOLEAN /\ pc' = "ran"
    BY <1>15, <2>2, EmitType DEF ToolRun, AttachFile, TurnTypeOK, Pcs
  <2> QED
    BY <1>15, <2>3 DEF ToolRun, TurnTypeOK, Pcs, builder, file
<1>16. CASE ToolCallDone
  <2>1. calls[next] \in CallIds /\ next \in 1..Len(calls) /\ Len(calls) \in Nat
    BY <1>16 DEF ToolCallDone, TurnTypeOK
  <2>2. /\ CallEvent("tool_call_update") \in Events
        /\ ToolResult(turn, calls[next]) \in Messages
    BY <1>0, <2>1, Made DEF CallEvent, EventKinds
  <2> DEFINE then == IF next = Len(calls) THEN "request" ELSE "tools"
  <2>3. Emit(CallEvent("tool_call_update"), then, "failed")
    BY <1>16 DEF ToolCallDone, EmitOrBreak
  <2>4. /\ events' \in Seq(Events) /\ sent' \in Seq(Events)
        /\ lossy' \in BOOLEAN /\ pc' \in {then, "failed"}
    BY <2>2, <2>3, EmitType DEF TurnTypeOK, Pcs
  <2>5. \/ msgs' = msgs
        \/ msgs' = Append(msgs, ToolResult(turn, calls[next]))
    BY <1>16 DEF ToolCallDone
  <2>6. msgs' \in Seq(Messages)
    <3>1. msgs \in Seq(Messages)
      BY DEF TurnTypeOK
    <3> QED
      BY <2>2, <2>5, <3>1
  <2>7. /\ pc' = "tools" => next' \in 1..Len(calls)
        /\ pc' = "request" => next' = 1
    BY <1>16, <2>1, <2>4 DEF ToolCallDone
  <2> QED
    BY <1>16, <2>4, <2>6, <2>7 DEF ToolCallDone, TurnTypeOK, Pcs, file
<1>17. CASE SendUsage
  <2>1. Event("usage", None) \in Events
    BY <1>0, Made DEF EventKinds
  <2> QED
    BY <1>17, <2>1, EmitType DEF SendUsage, TurnTypeOK, Pcs, builder, file
<1>18. CASE Unsaved
  <2>1. msgs' \in Seq(Messages)
    BY <1>18, <1>0, NoticeType DEF Unsaved, TurnTypeOK
  <2> QED
    BY <1>18, <2>1 DEF Unsaved, TurnTypeOK, Pcs, builder, history
<1>19. CASE Cancel
  BY <1>19 DEF Cancel, TurnTypeOK, session, builder, history, file
<1>20. CASE UNCHANGED vars
  BY <1>20 DEF vars, session, builder, history, file, TurnTypeOK
<1> QED
  BY <1>1, <1>2, <1>3, <1>4, <1>5, <1>6, <1>7, <1>8, <1>9, <1>10, <1>11, <1>12,
     <1>13, <1>14, <1>15, <1>16, <1>17, <1>18, <1>19, <1>20, <1>21, StepKinds
  DEF TurnTypeOK

-----------------------------------------------------------------------------
(* What the steps within a turn do to the two histories.                   *)

Within ==
  /\ pc # "idle" /\ pc' # "idle" /\ UNCHANGED <<turn, disk, answers>>
  /\ pc = "failed" => pc' = "failed"
  /\ pc' = "loaded" => pc = "loaded" /\ UNCHANGED <<events, sent, lossy>>
  /\ \/ msgs' = msgs
     \/ msgs' = Append(msgs, Response(turn, calls, text, TRUE))
     \/ msgs' = Append(msgs, ToolResult(turn, calls[next]))
     \/ msgs' = WithNotice(msgs) /\ pc' = "failed"
  /\ \/ UNCHANGED <<events, sent, lossy>>
     \/ \E e \in Events :
          /\ e.kind # "user" /\ events' = Append(events, e)
          /\ Send(e) \/ lossy' = TRUE
  /\ pc' = "usage" => \/ pc = "usage" /\ msgs' = msgs
                      \/ msgs' = Append(msgs, Response(turn, <<>>, text, TRUE))
  /\ pc' = "finishing" =>
       /\ pc \in {"usage", "finishing"} /\ msgs' = msgs
       /\ pc = "usage" => events' = Append(events, Event("usage", None))

\* A turn starts, ends, is saved, or goes on.
LEMMA WithinKinds ==
  ASSUME TurnTypeOK, Next
  PROVE \/ Prompt \/ PromptUnloaded \/ Drops \/ Stored \/ Checkpoint
        \/ Within
<1>0. turn \in Nat /\ None \in CallIds
  BY TurnAssumption DEF TurnTypeOK, CallIds
<1>6. CASE Announced
  <2>1. Event("info", None) \in Events /\ Event("info", None).kind # "user"
    BY <1>0, Made DEF EventKinds, Event
  <2> QED
    BY <1>6, <2>1 DEF Announced, Within, file
<1>7. CASE KeepTitle
  BY <1>7 DEF KeepTitle, Within, session, history, file
<1>8. CASE CreateStream
  BY <1>8 DEF CreateStream, Within, session, history, file
<1>9. CASE CreateStreamFails
  BY <1>9 DEF CreateStreamFails, Within, session, history, file
<1>10. ASSUME NEW thought \in BOOLEAN, ContentDelta(thought) PROVE Within
  <2>1. Event("text", None) \in Events /\ Event("text", None).kind # "user"
    BY <1>0, Made DEF EventKinds, Event
  <2> QED
    BY <1>10, <2>1 DEF ContentDelta, Emit, Apart, Within, file
<1>20. CASE RoleDelta
  BY <1>20 DEF RoleDelta, Within, session, history, file
<1>11. ASSUME NEW i \in DeltaIds, CallDelta(i) PROVE Within
  BY <1>11 DEF CallDelta, Within, session, history, file
<1>12. CASE StreamError
  BY <1>12 DEF StreamError, Within, session, history, file
<1>13. ASSUME NEW whole \in BOOLEAN, StreamCloses(whole) PROVE Within
  BY <1>13 DEF StreamCloses, AcceptResponse, Within, history, file
<1>14. CASE ToolCallStart
  <2>1. calls[next] \in CallIds
    BY <1>14 DEF ToolCallStart, TurnTypeOK
  <2>2. /\ CallEvent("tool_call") \in Events
        /\ CallEvent("tool_call").kind # "user"
    BY <1>0, <2>1, Made DEF CallEvent, EventKinds, Event
  <2> QED
    BY <1>14, <2>2 DEF ToolCallStart, EmitOrBreak, Emit, Apart, Within, file
<1>15. CASE ToolRun
  <2>1. calls[next] \in CallIds
    BY <1>15 DEF ToolRun, TurnTypeOK
  <2>2. CallEvent("file") \in Events /\ CallEvent("file").kind # "user"
    BY <1>0, <2>1, Made DEF CallEvent, EventKinds, Event
  <2> QED
    BY <1>15, <2>2 DEF ToolRun, AttachFile, Emit, Apart, Within, file
<1>16. CASE ToolCallDone
  <2>1. calls[next] \in CallIds
    BY <1>16 DEF ToolCallDone, TurnTypeOK
  <2>2. /\ CallEvent("tool_call_update") \in Events
        /\ CallEvent("tool_call_update").kind # "user"
    BY <1>0, <2>1, Made DEF CallEvent, EventKinds, Event
  <2> DEFINE then == IF next = Len(calls) THEN "request" ELSE "tools"
  <2>3. Emit(CallEvent("tool_call_update"), then, "failed")
    BY <1>16 DEF ToolCallDone, EmitOrBreak
  <2>4. pc' \in {"request", "tools", "failed"}
    BY <2>3 DEF Emit
  <2>5. \E e \in Events :
          /\ e.kind # "user" /\ events' = Append(events, e)
          /\ Send(e) \/ lossy' = TRUE
    BY <2>2, <2>3 DEF Emit, Apart
  <2> QED
    BY <1>16, <2>4, <2>5 DEF ToolCallDone, Within, file
<1>17. CASE SendUsage
  <2>1. Event("usage", None) \in Events /\ Event("usage", None).kind # "user"
    BY <1>0, Made DEF EventKinds, Event
  <2> QED
    BY <1>17, <2>1 DEF SendUsage, Emit, Apart, Within, file
<1>18. CASE Unsaved
  BY <1>18 DEF Unsaved, Within, history
<1>19. CASE Cancel
  BY <1>19 DEF Cancel, Within, session, history, file
<1> QED
  BY <1>6, <1>7, <1>8, <1>9, <1>10, <1>11, <1>12, <1>13, <1>14, <1>15, <1>16,
     <1>17, <1>18, <1>19, <1>20, StepKinds
  DEF TurnTypeOK

-----------------------------------------------------------------------------
(* Whole responses.                                                        *)

\* The messages with their notice are whole.
LEMMA WholeNotice ==
  ASSUME NEW s \in Seq(Messages), AllWhole(s), turn \in Nat
  PROVE AllWhole(WithNotice(s))
<1> DEFINE rest == WithoutNotices(s)
<1>1. AllWhole(rest) /\ rest \in Seq(Messages)
  BY PlainWhole, PlainType
<1>2. Notice(turn) \in Messages /\ Notice(turn).whole
  BY Made DEF Notice, Message
<1>3. AllWhole(Append(rest, Notice(turn)))
  BY <1>1, <1>2, WholeAppend
<1> QED
  BY <1>1, <1>3 DEF WithNotice

\* A step stores no response that was cut short.
LEMMA WholeStep ==
  ASSUME TurnTypeOK, WholeInv, [Next]_vars
  PROVE WholeInv'
<1>0. /\ turn \in Nat /\ msgs \in Seq(Messages) /\ disk \in File
      /\ AllWhole(msgs) /\ AllWhole(disk.msgs) /\ AllWhole(<<>>)
  BY TurnAssumption
  DEF TurnTypeOK, WholeInv, NoInterruptedResponse, AllWhole
<1>1. SUFFICES AllWhole(msgs') /\ AllWhole(disk.msgs')
  BY DEF WholeInv, NoInterruptedResponse, AllWhole
<1>2. CASE Prompt
  <2>1. /\ disk.msgs \in Seq(Messages)
        /\ User(turn') \in Messages /\ User(turn').whole
    BY <1>0, <1>2, Made DEF Prompt, File, User, Message
  <2>2. AllWhole(Append(disk.msgs, User(turn')))
    BY <1>0, <2>1, WholeAppend
  <2> QED
    BY <1>0, <1>2, <2>2 DEF Prompt, file
<1>3. CASE Drops
  BY <1>0, <1>3 DEF Drops, Return
<1>4. CASE PromptUnloaded
  BY <1>0, <1>4 DEF PromptUnloaded, session, file
<1>5. CASE Stored
  <2>1. AllWhole(WithNotice(msgs))
    BY <1>0, WholeNotice
  <2> QED
    BY <1>0, <1>5, <2>1 DEF Stored, Return, FileToSave, Session
<1>6. CASE Checkpoint
  BY <1>0, <1>6 DEF Checkpoint, session, Session
<1>7. CASE Within
  <2>1. CASE msgs' = msgs
    BY <1>0, <1>7, <2>1 DEF Within
  <2>2. CASE msgs' = Append(msgs, Response(turn, calls, text, TRUE))
    <3>1. /\ Response(turn, calls, text, TRUE) \in Messages
          /\ Response(turn, calls, text, TRUE).whole
      BY <1>0, Made DEF Response, Message, TurnTypeOK
    <3> QED
      BY <1>0, <1>7, <2>2, <3>1, WholeAppend DEF Within
  <2>3. CASE msgs' = Append(msgs, ToolResult(turn, calls[next]))
    <3> DEFINE m == ToolResult(turn, calls[next])
    <3>1. m.whole
      BY DEF ToolResult, Message
    <3> QED
      BY <1>0, <1>7, <2>3, <3>1 DEF Within, AllWhole
  <2>4. CASE msgs' = WithNotice(msgs)
    BY <1>0, <1>7, <2>4, WholeNotice DEF Within
  <2> QED
    BY <1>7, <2>1, <2>2, <2>3, <2>4 DEF Within
<1>8. CASE UNCHANGED vars
  BY <1>0, <1>8 DEF vars, session, file
<1> QED
  BY <1>2, <1>3, <1>4, <1>5, <1>6, <1>7, <1>8, WithinKinds

-----------------------------------------------------------------------------
(* The replay.                                                             *)

\* An event that is sent is shown; the user's message is not.
LEMMA ShowAppend ==
  ASSUME NEW es \in Seq(Events), NEW e \in Events
  PROVE Updates(Append(es, e)) =
          IF e.kind = "user" THEN Updates(es) ELSE Append(Updates(es), e)
BY FoldSteps DEF Show

\* A step keeps what is recorded and what was sent together.
LEMMA ReplayStep ==
  ASSUME TurnTypeOK, ReplayInv, [Next]_vars
  PROVE ReplayInv'
<1>0. events \in Seq(Events) /\ disk \in File /\ disk.events \in Seq(Events)
  BY DEF TurnTypeOK, File
<1>1. CASE Prompt
  <2> DEFINE e == [kind |-> "user", turn |-> turn', id |-> None]
  <2>1. turn' \in Nat /\ None \in CallIds
    BY <1>1, TurnAssumption DEF Prompt, TurnTypeOK, CallIds
  <2>2. e \in Events /\ e.kind = "user"
    BY <2>1 DEF Events, EventKinds
  <2>3. Updates(Append(disk.events, e)) = Updates(disk.events)
    BY <1>0, <2>2, ShowAppend
  <2>4. /\ pc = "idle" /\ pc' = "loaded" /\ disk' = disk /\ sent' = sent
        /\ lossy' = lossy /\ events' = Append(disk.events, e)
    BY <1>1 DEF Prompt, history, file
  <2> QED
    BY <2>3, <2>4 DEF ReplayInv
<1>2. CASE Drops
  BY <1>2 DEF Drops, Return, Apart, ReplayInv
<1>3. CASE PromptUnloaded
  BY <1>3 DEF PromptUnloaded, session, file, history, ReplayInv
<1>4. CASE Stored
  <2>1. disk'.events = events /\ pc # "idle" /\ pc' = "idle"
    BY <1>4 DEF Stored, Return, FileToSave, Session
  <2> QED
    BY <1>4, <2>1 DEF Stored, Apart, ReplayInv
<1>5. CASE Checkpoint
  <2>1. /\ events' = events /\ pc = "saving" /\ pc' = "request"
        /\ sent' = sent /\ lossy' = lossy
    BY <1>5 DEF Checkpoint, session, history
  <2> QED
    BY <2>1 DEF ReplayInv
<1>6. CASE Within
  <2>1. /\ pc # "idle" /\ pc' # "idle" /\ disk' = disk
    BY <1>6 DEF Within
  <2>2. CASE UNCHANGED <<events, sent, lossy>>
    <3>1. pc' = "loaded" => pc = "loaded"
      BY <1>6 DEF Within
    <3> QED
      BY <2>1, <2>2, <3>1 DEF ReplayInv
  <2>3. CASE lossy'
    BY <2>3 DEF ReplayInv
  <2>4. ASSUME NEW e \in Events, e.kind # "user",
               events' = Append(events, e), Send(e)
        PROVE ReplayInv'
    <3>1. Updates(Append(events, e)) = Append(Updates(events), e)
      BY <1>0, <2>4, ShowAppend
    <3>2. pc' # "loaded"
      BY <1>6, <2>4 DEF Within
    <3> QED
      BY <2>1, <2>4, <3>1, <3>2 DEF ReplayInv, Send
  <2> QED
    BY <1>6, <2>2, <2>3, <2>4 DEF Within
<1>7. CASE UNCHANGED vars
  BY <1>7 DEF vars, session, history, file, ReplayInv
<1> QED
  BY <1>1, <1>2, <1>3, <1>4, <1>5, <1>6, <1>7, WithinKinds

-----------------------------------------------------------------------------
(* What an answered turn leaves.                                           *)

\* What is there stays there when a message or an event is appended.
LEMMA Grows ==
  ASSUME NEW S, NEW s \in Seq(S), NEW e, NEW t
  PROVE /\ Asked(s, t) => Asked(Append(s, e), t)
        /\ Answered(s, t) => Answered(Append(s, e), t)
        /\ Reported(s, t) => Reported(Append(s, e), t)
        /\ \A txt \in BOOLEAN :
             Asked(s, t) /\ e = Response(t, <<>>, txt, TRUE)
               => Answered(Append(s, e), t)
        /\ e = User(t) => Asked(Append(s, e), t)
        /\ e = [kind |-> "usage", turn |-> t, id |-> None]
             => Reported(Append(s, e), t)
<1> DEFINE p == Append(s, e)
<1>1. /\ \A i \in 1..Len(s) : i \in 1..Len(p) /\ p[i] = s[i]
      /\ Len(p) \in 1..Len(p) /\ p[Len(p)] = e
      /\ \A i \in 1..Len(s) : i < Len(p)
  OBVIOUS
<1> HIDE DEF p
<1> QED
  BY <1>1 DEF Asked, Answered, Reported, p

\* A turn's prompt and its response are kept when the notices go.
LEMMA NoticeKeeps ==
  ASSUME NEW s \in Seq(Messages), NEW t, Answered(s, t), turn \in Nat
  PROVE Answered(WithNotice(s), t)
<1>0. PICK txt \in BOOLEAN :
        \E i, j \in 1..Len(s) :
          i < j /\ s[i] = User(t) /\ s[j] = Response(t, <<>>, txt, TRUE)
  BY DEF Answered
<1> DEFINE a == User(t)
           b == Response(t, <<>>, txt, TRUE)
           rest == WithoutNotices(s)
<1>1. a.role # "notice" /\ b.role # "notice"
  BY DEF User, Response, Message
<1>2. PICK i, j \in 1..Len(s) : i < j /\ s[i] = a /\ s[j] = b
  BY <1>0
<1> HIDE DEF a, b
<1>3. \E k, l \in 1..Len(rest) : k < l /\ rest[k] = a /\ rest[l] = b
  BY <1>1, <1>2, PlainOrder
<1>4. Answered(rest, t)
  BY <1>3 DEF Answered, a, b
<1>5. rest \in Seq(Messages)
  BY PlainType
<1>6. Answered(Append(rest, Notice(turn)), t)
  BY <1>4, <1>5, Grows
<1> QED
  BY <1>4, <1>6 DEF WithNotice

\* A step within a turn keeps what the turn has.
LEMMA WithinKeeps ==
  ASSUME TurnTypeOK, Within, NEW t
  PROVE /\ pc' # "failed" => (Asked(msgs, t) => Asked(msgs', t))
        /\ Answered(msgs, t) => Answered(msgs', t)
        /\ Reported(events, t) => Reported(events', t)
<1>0. turn \in Nat /\ msgs \in Seq(Messages) /\ events \in Seq(Events)
  BY TurnAssumption DEF TurnTypeOK
<1>1. Reported(events, t) => Reported(events', t)
  <2>1. ASSUME NEW e, events' = Append(events, e)
        PROVE Reported(events, t) => Reported(events', t)
    BY <1>0, <2>1, Grows
  <2> QED
    BY <2>1 DEF Within
<1>2. /\ pc' # "failed" => (Asked(msgs, t) => Asked(msgs', t))
      /\ Answered(msgs, t) => Answered(msgs', t)
  <2>1. CASE msgs' = msgs
    BY <2>1
  <2>2. ASSUME NEW m, msgs' = Append(msgs, m)
        PROVE /\ Asked(msgs, t) => Asked(msgs', t)
              /\ Answered(msgs, t) => Answered(msgs', t)
    BY <1>0, <2>2, Grows
  <2>3. CASE msgs' = WithNotice(msgs) /\ pc' = "failed"
    BY <1>0, <2>3, NoticeKeeps
  <2> QED
    BY <2>1, <2>2, <2>3 DEF Within
<1> QED
  BY <1>1, <1>2

\* A step keeps what a turn that ends must have.
LEMMA ProgressStep ==
  ASSUME TurnTypeOK, ProgressInv, [Next]_vars
  PROVE ProgressInv'
<1>0. turn \in Nat /\ msgs \in Seq(Messages) /\ events \in Seq(Events)
  BY TurnAssumption DEF TurnTypeOK
<1>1. CASE Prompt
  <2>1. disk.msgs \in Seq(Messages)
    BY DEF TurnTypeOK, File
  <2>2. Asked(Append(disk.msgs, User(turn')), turn')
    BY <2>1, Grows
  <2> QED
    BY <1>1, <2>2 DEF Prompt, ProgressInv
<1>2. CASE Drops \/ Stored
  BY <1>2 DEF Drops, Stored, Return, ProgressInv
<1>6. CASE PromptUnloaded
  BY <1>6 DEF PromptUnloaded, ProgressInv
<1>3. CASE Checkpoint
  BY <1>3 DEF Checkpoint, session, ProgressInv
<1>4. CASE Within
  <2>1. turn' = turn /\ pc # "idle" /\ (pc = "failed" => pc' = "failed")
    BY <1>4 DEF Within
  <2>2. pc' # "failed" => Asked(msgs', turn')
    BY <1>4, <2>1, WithinKeeps DEF ProgressInv
  <2>3. pc' = "usage" => Answered(msgs', turn')
    <3>1. CASE pc = "usage" /\ msgs' = msgs
      BY <2>1, <3>1 DEF ProgressInv
    <3>2. CASE msgs' = Append(msgs, Response(turn, <<>>, text, TRUE))
      <4>1. ASSUME pc # "failed" PROVE Asked(msgs, turn)
        BY <2>1, <4>1 DEF ProgressInv
      <4> QED
        BY <1>0, <2>1, <3>2, <4>1, Grows DEF TurnTypeOK
    <3> QED
      BY <1>4, <3>1, <3>2 DEF Within
  <2>4. pc' = "finishing" => Answered(msgs', turn') /\ Reported(events', turn')
    <3>1. SUFFICES ASSUME pc' = "finishing"
                   PROVE Answered(msgs', turn') /\ Reported(events', turn')
      OBVIOUS
    <3>2. pc \in {"usage", "finishing"} /\ msgs' = msgs
      BY <1>4, <3>1 DEF Within
    <3>3. Answered(msgs', turn')
      BY <2>1, <3>2 DEF ProgressInv
    <3>4. CASE pc = "finishing"
      BY <1>4, <2>1, <3>3, <3>4, WithinKeeps DEF ProgressInv
    <3>5. CASE pc = "usage"
      <4>1. events' = Append(events, Event("usage", None))
        BY <1>4, <3>1, <3>5 DEF Within
      <4>2. Event("usage", None)
              = [kind |-> "usage", turn |-> turn, id |-> None]
        BY DEF Event
      <4> QED
        BY <1>0, <2>1, <3>3, <4>1, <4>2, Grows
    <3> QED
      BY <3>2, <3>4, <3>5
  <2> QED
    BY <1>4, <2>2, <2>3, <2>4 DEF ProgressInv
<1>5. CASE UNCHANGED vars
  BY <1>5 DEF vars, session, ProgressInv
<1> QED
  BY <1>1, <1>2, <1>3, <1>4, <1>5, <1>6, WithinKinds

\* A step keeps what the turns answered with end_turn have.
LEMMA DurableStep ==
  ASSUME TurnTypeOK, ProgressInv, DurableInv, [Next]_vars
  PROVE DurableInv'
<1>0. /\ turn \in Nat /\ msgs \in Seq(Messages) /\ events \in Seq(Events)
      /\ disk.msgs \in Seq(Messages) /\ disk.events \in Seq(Events)
      /\ answers \in [Turns -> {None, "error", "end_turn"}]
  BY TurnAssumption DEF TurnTypeOK, File
<1>1. SUFFICES ASSUME NEW t \in Turns, answers'[t] = "end_turn"
               PROVE /\ Answered(disk'.msgs, t) /\ Reported(disk'.events, t)
                     /\ pc' # "idle" => /\ Answered(msgs', t)
                                        /\ Reported(events', t)
  BY DEF DurableInv
<1>2. ASSUME answers[t] = "end_turn"
      PROVE /\ Answered(disk.msgs, t) /\ Reported(disk.events, t)
            /\ pc # "idle" => Answered(msgs, t) /\ Reported(events, t)
  BY <1>2 DEF DurableInv
<1>3. CASE Prompt
  <2> DEFINE e == [kind |-> "user", turn |-> turn', id |-> None]
  <2>1. /\ answers' = answers /\ disk' = disk
        /\ msgs' = Append(disk.msgs, User(turn'))
        /\ events' = Append(disk.events, e)
    BY <1>3 DEF Prompt, file
  <2>2. Answered(disk.msgs, t) /\ Reported(disk.events, t)
    BY <1>1, <1>2, <2>1
  <2>3. Answered(msgs', t) /\ Reported(events', t)
    BY <1>0, <2>1, <2>2, Grows
  <2> QED
    BY <2>1, <2>2, <2>3
<1>4. CASE Drops
  <2>1. answers[t] = "end_turn"
    BY <1>0, <1>1, <1>4 DEF Drops
  <2> QED
    BY <1>2, <1>4, <2>1 DEF Drops, Return
<1>5. CASE PromptUnloaded
  <2>1. answers[t] = "end_turn" /\ disk' = disk /\ pc = "idle" /\ pc' = pc
    BY <1>0, <1>1, <1>5 DEF PromptUnloaded, file
  <2> QED
    BY <1>2, <2>1
<1>6. CASE Stored
  <2>1. /\ pc # "idle" /\ pc' = "idle" /\ disk'.events = events
        /\ disk'.msgs = IF pc = "finishing" THEN WithNotice(msgs) ELSE msgs
    BY <1>6 DEF Stored, Return, FileToSave, Session
  <2>2. Answered(msgs, t) /\ Reported(events, t)
    <3>1. CASE answers[t] = "end_turn"
      BY <1>2, <2>1, <3>1
    <3>2. CASE answers[t] # "end_turn"
      <4>1. pc = "finishing" /\ t = turn
        BY <1>0, <1>1, <1>6, <3>2 DEF Stored
      <4> QED
        BY <4>1 DEF ProgressInv
    <3> QED
      BY <3>1, <3>2
  <2> QED
    BY <1>0, <2>1, <2>2, NoticeKeeps
<1>7. CASE Checkpoint
  BY <1>1, <1>2, <1>7 DEF Checkpoint, session, Session
<1>8. CASE Within
  <2>1. pc # "idle" /\ answers' = answers /\ disk' = disk
    BY <1>8 DEF Within
  <2> QED
    BY <1>1, <1>2, <1>8, <2>1, WithinKeeps
<1>9. CASE UNCHANGED vars
  BY <1>1, <1>2, <1>9 DEF vars, session, file
<1> QED
  BY <1>3, <1>4, <1>5, <1>6, <1>7, <1>8, <1>9, WithinKinds

-----------------------------------------------------------------------------
(* Calls and their results.                                                *)

\* More turns may be excused.
LEMMA GoodMore ==
  ASSUME NEW s, NEW E, NEW F, E \subseteq F, Good(s, E)
  PROVE Good(s, F)
BY DEF Good, Settled, Matched

\* An empty history is well formed.
LEMMA GoodEmpty == Good(<<>>, {})
BY FoldSteps DEF Good, Settled, Matched

\* What is resolved stays so, whatever is appended.
LEMMA ResolvedAppend ==
  ASSUME NEW s \in Seq(Messages), NEW m \in Messages, NEW i \in 1..Len(s)
  PROVE /\ Append(s, m)[i] = s[i]
        /\ Resolved(s, i) => Resolved(Append(s, m), i)
<1> DEFINE p == Append(s, m)
<1>1. /\ Len(p) = Len(s) + 1 /\ Len(s) \in Nat
      /\ \A k \in 1..Len(s) : p[k] = s[k]
  OBVIOUS
<1>2. s[i].calls \in Seq(CallIds) /\ Len(s[i].calls) \in Nat
  <2>1. s[i] \in Messages
    OBVIOUS
  <2> QED
    BY <2>1 DEF Messages
<1> HIDE DEF p
<1>3. ASSUME Resolved(s, i), NEW k \in 1..Len(s[i].calls)
      PROVE i + k <= Len(p) /\ p[i + k] = s[i + k]
  BY <1>1, <1>2, <1>3 DEF Resolved
<1> QED
  BY <1>1, <1>3 DEF Resolved, p

\* What is paired stays so.
LEMMA PairedAppend ==
  ASSUME NEW bs \in Seq(BlockMessages), NEW b \in BlockMessages,
         NEW i \in 1..Len(bs)
  PROVE /\ Append(bs, b)[i] = bs[i]
        /\ Paired(bs, i) => Paired(Append(bs, b), i)
<1> DEFINE p == Append(bs, b)
<1>1. /\ Len(p) = Len(bs) + 1 /\ Len(bs) \in Nat
      /\ \A k \in 1..Len(bs) : p[k] = bs[k]
  OBVIOUS
<1> HIDE DEF p
<1>2. /\ i < Len(bs) => i < Len(p) /\ p[i + 1] = bs[i + 1]
      /\ i > 1 => p[i - 1] = bs[i - 1]
  BY <1>1
<1> QED
  BY <1>1, <1>2 DEF Paired, p

\* A message that calls nothing and is no result keeps a history well formed.
LEMMA GoodAppend ==
  ASSUME NEW s \in Seq(Messages), NEW m \in Messages, NEW E, Good(s, E),
         m.calls = <<>>, m.role # "tool"
  PROVE Good(Append(s, m), E)
<1> DEFINE p == Append(s, m)
           bs == AnthropicRequest(s)
           b == Blocks(m, <<>>, <<>>)
<1>1. Settled(p, E)
  <2>1. SUFFICES ASSUME NEW i \in 1..Len(p)
                 PROVE Resolved(p, i) \/ p[i].turn \in E
    BY DEF Settled
  <2>2. CASE i \in 1..Len(s)
    BY <2>2, ResolvedAppend DEF Good, Settled
  <2>3. CASE i = Len(s) + 1
    <3>1. p[i].calls = <<>>
      BY <2>3
    <3> QED
      BY <3>1 DEF Resolved
  <2> QED
    BY <2>2, <2>3
<1>2. AnthropicRequest(p) = Convert(bs, m) /\ bs \in Seq(BlockMessages)
  BY FoldSteps, RequestType
<1> DEFINE dropped == \/ m.role = "notice"
                      \/ m.role = "assistant" /\ ~m.text /\ m.calls = <<>>
<1>3. CASE dropped
  BY <1>1, <1>2, <1>3 DEF Good, Convert
<1>4. CASE ~dropped
  <2>1. AnthropicRequest(p) = Append(bs, b)
    BY <1>2, <1>4 DEF Convert
  <2>2. b \in BlockMessages /\ b.uses = <<>> /\ b.results = <<>>
    BY DEF Blocks, BlockMessages, Messages
  <2>3. ASSUME NEW i \in 1..Len(Append(bs, b))
        PROVE \/ Paired(Append(bs, b), i)
              \/ Append(bs, b)[i].turn \in E
    <3>1. CASE i \in 1..Len(bs)
      BY <1>2, <2>2, <3>1, PairedAppend DEF Good, Matched
    <3>2. CASE i = Len(bs) + 1
      <4>1. Append(bs, b)[i] = b
        BY <1>2, <3>2
      <4> QED
        BY <2>2, <4>1 DEF Paired
    <3> QED
      BY <1>2, <3>1, <3>2
  <2>4. Matched(AnthropicRequest(p), E)
    BY <2>1, <2>3 DEF Matched
  <2> QED
    BY <1>1, <2>4 DEF Good
<1> QED
  BY <1>3, <1>4

\* A response with calls opens them.
LEMMA Opens ==
  ASSUME NEW s \in Seq(Messages), NEW m \in Messages, NEW E, Good(s, E),
         m.role = "assistant", m.calls # <<>>
  PROVE Open(Append(s, m), m.calls, 0, m.turn, E)
<1> DEFINE p == Append(s, m)
           bs == AnthropicRequest(s)
           b == Blocks(m, m.calls, <<>>)
           cs == Append(bs, b)
<1>1. /\ Len(p) = Len(s) + 1 /\ p[Len(s) + 1] = m /\ Len(s) \in Nat
  OBVIOUS
<1>2. ASSUME NEW i \in 1..Len(s)
      PROVE Resolved(p, i) \/ p[i].turn \in E
  BY ResolvedAppend DEF Good, Settled
<1> HIDE DEF p
<1>3. OpenCalls(p, m.calls, 0, m.turn, E)
  BY <1>1, <1>2 DEF OpenCalls
<1> USE DEF p
<1>4. AnthropicRequest(p) = Convert(bs, m) /\ bs \in Seq(BlockMessages)
  BY FoldSteps, RequestType
<1>5. AnthropicRequest(p) = cs
  BY <1>4 DEF Convert
<1>6. /\ b \in BlockMessages /\ b.uses = m.calls /\ b.results = <<>>
      /\ b.turn = m.turn
  BY DEF Blocks, BlockMessages, Messages
<1>7. Len(cs) = Len(bs) + 1 /\ cs[Len(bs) + 1] = b /\ Len(bs) \in Nat
  BY <1>4
<1>8. ASSUME NEW i \in 1..Len(bs)
      PROVE Paired(cs, i) \/ cs[i].turn \in E
  BY <1>4, <1>6, PairedAppend DEF Good, Matched
<1> HIDE DEF cs, b
<1>9. OpenUses(cs, m.calls, 0, m.turn, E)
  BY <1>6, <1>7, <1>8 DEF OpenUses
<1> QED
  BY <1>3, <1>5, <1>9 DEF Open

\* One more element of a sequence.
LEMMA SubSeqMore ==
  ASSUME NEW S, NEW cs \in Seq(S), NEW n \in Nat, n < Len(cs)
  PROVE Append(SubSeq(cs, 1, n), cs[n + 1]) = SubSeq(cs, 1, n + 1)
OBVIOUS

\* The last two places of a sequence, and the others.
LEMMA LastTwo ==
  ASSUME NEW l \in Nat, NEW i \in 1..l
  PROVE i \in 1..(l - 2) \/ i = l - 1 \/ i = l
OBVIOUS

\* A result answers the next of the open calls.
LEMMA Continues ==
  ASSUME NEW s \in Seq(Messages), NEW cs \in Seq(CallIds), NEW n \in Nat,
         n < Len(cs), NEW t \in Nat, NEW E, Open(s, cs, n, t, E)
  PROVE Open(Append(s, ToolResult(t, cs[n + 1])), cs, n + 1, t, E)
<1> DEFINE c == cs[n + 1]
           m == ToolResult(t, c)
           p == Append(s, m)
           bs == AnthropicRequest(s)
           b == Blocks(m, <<>>, <<c>>)
<1>1. /\ c \in CallIds /\ m \in Messages
      /\ m.role = "tool" /\ m.id = c /\ m.calls = <<>> /\ m.turn = t
  <2>1. c \in CallIds
    OBVIOUS
  <2> QED
    BY <2>1, Made DEF ToolResult, Message
<1>2. OpenCalls(p, cs, n + 1, t, E)
  <2> DEFINE o == Len(s) - n
  <2>1. /\ o \in 1..Len(s) /\ s[o].calls = cs /\ s[o].turn = t
        /\ \A k \in 1..n : s[o + k].role = "tool" /\ s[o + k].id = cs[k]
        /\ \A i \in 1..Len(s) : i = o \/ Resolved(s, i) \/ s[i].turn \in E
        /\ o = Len(s) - n
    BY DEF Open, OpenCalls
  <2> HIDE DEF m, c, o
  <2>2. /\ Len(p) = Len(s) + 1 /\ p[Len(s) + 1] = m /\ Len(s) \in Nat
        /\ \A i \in 1..Len(s) : p[i] = s[i]
    BY <1>1
  <2>3. \A i \in 1..Len(s) : Resolved(s, i) => Resolved(p, i)
    BY <1>1, ResolvedAppend
  <2>4. Resolved(p, Len(s) + 1)
    BY <1>1, <2>2 DEF Resolved
  <2> HIDE DEF p
  <2>5. /\ o = Len(p) - (n + 1) /\ o \in 1..Len(p)
        /\ p[o].calls = cs /\ p[o].turn = t
    BY <2>1, <2>2
  <2>6. ASSUME NEW k \in 1..(n + 1)
        PROVE p[o + k].role = "tool" /\ p[o + k].id = cs[k]
    <3>1. CASE k \in 1..n
      <4>1. o + k \in 1..Len(s)
        BY <2>1, <2>2, <3>1
      <4> QED
        BY <2>1, <2>2, <3>1, <4>1
    <3>2. CASE k = n + 1
      <4>1. o + k = Len(s) + 1
        BY <2>1, <2>2, <3>2
      <4> QED
        BY <1>1, <2>2, <3>2, <4>1 DEF c
    <3> QED
      BY <3>1, <3>2
  <2>7. ASSUME NEW i \in 1..Len(p)
        PROVE i = o \/ Resolved(p, i) \/ p[i].turn \in E
    <3>1. i \in 1..Len(s) \/ i = Len(s) + 1
      BY <2>2
    <3> QED
      BY <2>1, <2>2, <2>3, <2>4, <3>1
  <2> QED
    BY <2>5, <2>6, <2>7 DEF OpenCalls
<1>3. /\ AnthropicRequest(p) = Convert(bs, m) /\ bs \in Seq(BlockMessages)
      /\ OpenUses(bs, cs, n, t, E)
  BY <1>1, FoldSteps, RequestType DEF Open
<1>4. /\ b \in BlockMessages /\ b.role = "user" /\ b.uses = <<>>
      /\ b.results = <<c>> /\ b.turn = t
  <2>1. <<c>> \in Seq(CallIds) /\ <<>> \in Seq(CallIds)
    BY <1>1
  <2> QED
    BY <1>1, <2>1 DEF Blocks, BlockMessages
<1>5. Append(SubSeq(cs, 1, n), c) = SubSeq(cs, 1, n + 1)
  BY SubSeqMore
<1>6. CASE n = 0
  <2>1. /\ Len(bs) \in 1..Len(bs) /\ bs[Len(bs)].uses = cs
        /\ bs[Len(bs)].results = <<>> /\ bs[Len(bs)].turn = t
        /\ \A i \in 1..(Len(bs) - 1) : Paired(bs, i) \/ bs[i].turn \in E
    BY <1>3, <1>6 DEF OpenUses
  <2>2. Last(bs) = bs[Len(bs)]
    BY DEF Last
  <2>3. AnthropicRequest(p) = Append(bs, b)
    <3>1. ~ToolResultsOnly(Last(bs))
      BY <2>1, <2>2 DEF ToolResultsOnly
    <3>2. m.role = "tool" /\ m.id = c
      BY <1>1
    <3> HIDE DEF m, p, bs, c
    <3> QED
      BY <1>3, <3>1, <3>2 DEF Convert
  <2> DEFINE q == Append(bs, b)
  <2>4. /\ Len(q) = Len(bs) + 1 /\ q[Len(bs) + 1] = b /\ Len(bs) \in Nat
        /\ \A i \in 1..Len(bs) : q[i] = bs[i]
    BY <1>3
  <2>5. \A i \in 1..Len(bs) : Paired(bs, i) => Paired(q, i)
    BY <1>3, <1>4, PairedAppend
  <2>6. SubSeq(cs, 1, n + 1) = <<c>>
    <3>1. SubSeq(cs, 1, n) = <<>>
      BY <1>6
    <3> HIDE DEF c
    <3>2. Append(<<>>, c) = <<c>>
      OBVIOUS
    <3> QED
      BY <1>5, <3>1, <3>2, Zenon
  <2> HIDE DEF q, b, c
  <2>7. OpenUses(q, cs, n + 1, t, E)
    <3> DEFINE l == Len(bs)
    <3>1. /\ Len(q) - 1 = l /\ l \in 1..Len(q) /\ n + 1 > 0 /\ n + 1 # 0
          /\ q[l].uses = cs /\ q[l].results = <<>> /\ q[l].turn = t
      BY <1>6, <2>1, <2>4
    <3>2. \A i \in 1..(l - 1) : Paired(q, i) \/ q[i].turn \in E
      BY <2>1, <2>4, <2>5
    <3>3. q[Len(q)] = b
      BY <2>4
    <3> HIDE DEF l
    <3> QED
      BY <1>4, <2>6, <3>1, <3>2, <3>3 DEF OpenUses
  <2> QED
    BY <1>2, <2>3, <2>7 DEF Open, q, c
<1>7. CASE n > 0
  <2> DEFINE l == Len(bs)
  <2>1. /\ l - 1 \in 1..l /\ bs[l - 1].uses = cs
        /\ bs[l - 1].results = <<>> /\ bs[l - 1].turn = t
        /\ bs[l].role = "user" /\ bs[l].uses = <<>>
        /\ bs[l].results = SubSeq(cs, 1, n) /\ bs[l].turn = t
        /\ \A i \in 1..(l - 2) : Paired(bs, i) \/ bs[i].turn \in E
    BY <1>3, <1>7 DEF OpenUses
  <2>2. Last(bs) = bs[l] /\ l \in Nat
    BY <1>3 DEF Last
  <2> DEFINE q == [bs EXCEPT ![l].results = Append(@, c)]
  <2>3. AnthropicRequest(p) = q
    <3>1. bs # <<>> /\ ToolResultsOnly(Last(bs))
      <4>1. Len(SubSeq(cs, 1, n)) = n
        OBVIOUS
      <4>2. SubSeq(cs, 1, n) # <<>>
        BY <1>7, <4>1
      <4> QED
        BY <2>1, <2>2, <4>2 DEF ToolResultsOnly
    <3>2. m.role = "tool" /\ m.id = c
      BY <1>1
    <3> HIDE DEF m, p, bs, c
    <3> QED
      BY <1>3, <3>1, <3>2 DEF Convert
  <2>4. bs[l] \in BlockMessages
    BY <1>3, <2>1, <2>2
  <2>5. /\ Len(q) = l /\ q[l].role = "user" /\ q[l].uses = <<>>
        /\ q[l].turn = t /\ q[l].results = SubSeq(cs, 1, n + 1)
        /\ \A i \in 1..(l - 1) : q[i] = bs[i]
    <3> DEFINE x == [bs[l] EXCEPT !.results = Append(@, c)]
    <3>1. q = [bs EXCEPT ![l] = x] /\ l \in 1..Len(bs)
      BY <2>1, <2>2
    <3>2. /\ x.role = "user" /\ x.uses = <<>> /\ x.turn = t
          /\ x.results = SubSeq(cs, 1, n + 1)
      <4> HIDE DEF c
      <4> QED
        BY <1>5, <2>1, <2>4 DEF BlockMessages
    <3> HIDE DEF x
    <3>3. /\ Len(q) = l /\ q[l] = x
          /\ \A i \in 1..(l - 1) : q[i] = bs[i]
      BY <1>3, <2>2, <3>1
    <3> QED
      BY <3>2, <3>3
  <2>6. \A i \in 1..(l - 2) : Paired(bs, i) => Paired(q, i)
    BY <2>2, <2>5 DEF Paired
  <2> HIDE DEF q, l
  <2>7. OpenUses(q, cs, n + 1, t, E)
    BY <1>7, <2>1, <2>2, <2>5, <2>6 DEF OpenUses
  <2> QED
    BY <1>2, <2>3, <2>7 DEF Open
<1> QED
  BY <1>6, <1>7

\* Calls that are all answered are no longer open.
LEMMA Closes ==
  ASSUME NEW s \in Seq(Messages), NEW cs \in Seq(CallIds), cs # <<>>,
         NEW t \in Nat, NEW E, Open(s, cs, Len(cs), t, E)
  PROVE Good(s, E)
<1> DEFINE bs == AnthropicRequest(s)
           n == Len(cs)
<1>1. n \in Nat /\ n > 0 /\ Len(s) \in Nat /\ SubSeq(cs, 1, n) = cs
  OBVIOUS
<1>2. Settled(s, E)
  <2> DEFINE o == Len(s) - n
  <2>1. /\ o \in 1..Len(s) /\ s[o].calls = cs
        /\ \A k \in 1..n : s[o + k].role = "tool" /\ s[o + k].id = cs[k]
        /\ \A i \in 1..Len(s) : i = o \/ Resolved(s, i) \/ s[i].turn \in E
    BY DEF Open, OpenCalls
  <2>2. Resolved(s, o)
    BY <1>1, <2>1 DEF Resolved
  <2> QED
    BY <2>1, <2>2 DEF Settled
<1>3. bs \in Seq(BlockMessages) /\ Len(bs) \in Nat
  BY RequestType
<1>4. Matched(bs, E)
  <2> DEFINE l == Len(bs)
  <2>1. /\ l - 1 \in 1..l /\ bs[l - 1].uses = cs /\ bs[l - 1].results = <<>>
        /\ bs[l].uses = <<>> /\ bs[l].results = cs
        /\ \A i \in 1..(l - 2) : Paired(bs, i) \/ bs[i].turn \in E
    BY <1>1 DEF Open, OpenUses
  <2>2. l - 1 < l /\ l > 1 /\ (l - 1) + 1 = l
    BY <1>3, <2>1
  <2>3. Paired(bs, l - 1) /\ Paired(bs, l)
    BY <2>1, <2>2 DEF Paired
  <2>4. ASSUME NEW i \in 1..l PROVE Paired(bs, i) \/ bs[i].turn \in E
    <3>1. i \in 1..(l - 2) \/ i = l - 1 \/ i = l
      BY <1>3, LastTwo
    <3> QED
      BY <2>1, <2>3, <3>1
  <2> QED
    BY <2>4 DEF Matched
<1> QED
  BY <1>2, <1>4 DEF Good

\* Calls that are left open make their turn one to be excused.
LEMMA Breaks ==
  ASSUME NEW s \in Seq(Messages), NEW cs, NEW n \in Nat, NEW t, NEW E,
         Open(s, cs, n, t, E)
  PROVE Good(s, E \cup {t})
<1> DEFINE bs == AnthropicRequest(s)
<1>1. Settled(s, E \cup {t})
  BY DEF Open, OpenCalls, Settled
<1>2. bs \in Seq(BlockMessages) /\ Len(bs) \in Nat
  BY RequestType
<1>3. OpenUses(bs, cs, n, t, E)
  BY DEF Open
<1> HIDE DEF bs
<1>4. ASSUME NEW i \in 1..Len(bs)
      PROVE Paired(bs, i) \/ bs[i].turn \in E \cup {t}
  <2>1. CASE n = 0
    <3>1. i \in 1..(Len(bs) - 1) \/ i = Len(bs)
      BY <1>2
    <3> QED
      BY <1>3, <2>1, <3>1 DEF OpenUses
  <2>2. CASE n > 0
    <3> DEFINE l == Len(bs)
    <3>1. i \in 1..(l - 2) \/ i = l - 1 \/ i = l
      BY <1>2, LastTwo
    <3>2. (l - 1) - 1 = l - 2 /\ n # 0
      BY <1>2, <2>2
    <3>3. /\ bs[l - 1].turn = t /\ bs[l].turn = t
          /\ \A k \in 1..(l - 2) : Paired(bs, k) \/ bs[k].turn \in E
      BY <1>3, <2>2, <3>2 DEF OpenUses
    <3> QED
      BY <3>1, <3>3
  <2> QED
    BY <2>1, <2>2
<1> QED
  BY <1>1, <1>4 DEF Good, Matched, bs

-----------------------------------------------------------------------------
(* The maintenance notice leaves a history well formed.                    *)

\* The i-th message of out is the j-th of s, and the messages after it are
\* those after that one, as far as no notice comes in between.
Run(s, j, n) ==
  j + n <= Len(s) /\ \A k \in 1..n : s[j + k].role # "notice"
Follows(s, j, out, i) ==
  /\ out[i] = s[j]
  /\ \A n \in Nat : Run(s, j, n) =>
       /\ i + n <= Len(out) /\ \A k \in 1..n : out[i + k] = s[j + k]
       /\ j + n = Len(s) => i + n = Len(out)
Embedded(s, out) ==
  \A i \in 1..Len(out) : \E j \in 1..Len(s) : Follows(s, j, out, i)

\* So it is of a message that is left when another one is appended.
LEMMA FollowsAppend ==
  ASSUME NEW s \in Seq(Messages), NEW out \in Seq(Messages),
         NEW m \in Messages, NEW i \in 1..Len(out), NEW j \in 1..Len(s),
         Follows(s, j, out, i)
  PROVE Follows(Append(s, m), j, LeaveOut(out, m), i)
<1> DEFINE p == Append(s, m)
           q == LeaveOut(out, m)
<1>1. /\ Len(p) = Len(s) + 1 /\ p[Len(s) + 1] = m /\ Len(s) \in Nat
      /\ \A k \in 1..Len(s) : p[k] = s[k]
  OBVIOUS
<1>2. /\ Len(out) \in Nat /\ \A k \in 1..Len(out) : q[k] = out[k]
      /\ m.role = "notice" => q = out
      /\ m.role # "notice" => Len(q) = Len(out) + 1 /\ q[Len(out) + 1] = m
      /\ Len(out) <= Len(q)
  BY DEF LeaveOut
<1> HIDE DEF p, q
<1>3. q[i] = p[j]
  BY <1>1, <1>2 DEF Follows
<1>4. ASSUME NEW n \in Nat, Run(p, j, n)
      PROVE /\ i + n <= Len(q) /\ \A k \in 1..n : q[i + k] = p[j + k]
            /\ j + n = Len(p) => i + n = Len(q)
  <2>1. CASE j + n <= Len(s)
    <3>1. Run(s, j, n)
      <4>1. ASSUME NEW k \in 1..n PROVE s[j + k].role # "notice"
        <5>1. j + k \in 1..Len(s)
          BY <1>1, <2>1
        <5> QED
          BY <1>1, <1>4, <5>1 DEF Run
      <4> QED
        BY <2>1, <4>1 DEF Run
    <3>2. i + n <= Len(out) /\ \A k \in 1..n : out[i + k] = s[j + k]
      BY <3>1 DEF Follows
    <3>3. ASSUME NEW k \in 1..n PROVE q[i + k] = p[j + k]
      <4>1. i + k \in 1..Len(out) /\ j + k \in 1..Len(s)
        BY <1>1, <1>2, <2>1, <3>2
      <4> QED
        BY <1>1, <1>2, <3>2, <4>1
    <3> QED
      BY <1>1, <1>2, <2>1, <3>2, <3>3
  <2>2. CASE j + n > Len(s)
    <3>1. j + n = Len(s) + 1 /\ n \in Nat \ {0}
      BY <1>1, <1>4, <2>2 DEF Run
    <3> DEFINE o == n - 1
    <3>2. o \in Nat /\ j + o = Len(s) /\ j + n = Len(p) /\ n \in 1..n
      BY <1>1, <3>1
    <3>3. m.role # "notice"
      BY <1>1, <1>4, <3>1, <3>2 DEF Run
    <3>4. Run(s, j, o)
      <4>1. ASSUME NEW k \in 1..o PROVE s[j + k].role # "notice"
        <5>1. j + k \in 1..Len(s) /\ k \in 1..n
          BY <1>1, <3>1, <3>2
        <5> QED
          BY <1>1, <1>4, <5>1 DEF Run
      <4> QED
        BY <1>1, <3>2, <4>1 DEF Run
    <3>5. i + o = Len(out) /\ \A k \in 1..o : out[i + k] = s[j + k]
      BY <3>2, <3>4 DEF Follows
    <3>6. i + n = Len(out) + 1
      BY <1>2, <3>1, <3>5
    <3>7. ASSUME NEW k \in 1..n PROVE q[i + k] = p[j + k]
      <4>1. CASE k = n
        BY <1>1, <1>2, <3>1, <3>3, <3>6, <4>1
      <4>2. CASE k # n
        <5>1. k \in 1..o /\ i + k \in 1..Len(out) /\ j + k \in 1..Len(s)
          BY <1>1, <1>2, <3>1, <3>2, <3>5, <4>2
        <5> QED
          BY <1>1, <1>2, <3>5, <5>1
      <4> QED
        BY <4>1, <4>2
    <3> QED
      BY <1>2, <3>3, <3>6, <3>7
  <2> QED
    BY <1>1, <2>1, <2>2
<1> QED
  BY <1>3, <1>4 DEF Follows, p, q

\* What is left without the notices is embedded in the messages.
LEMMA PlainEmbedded ==
  \A s \in Seq(Messages) : Embedded(s, WithoutNotices(s))
<1> DEFINE T == {s \in Seq(Messages) : Embedded(s, WithoutNotices(s))}
<1>1. <<>> \in T
  BY FoldSteps DEF Embedded
<1>2. ASSUME NEW s \in Seq(Messages), NEW m \in Messages, s \in T
      PROVE Append(s, m) \in T
  <2> DEFINE p == Append(s, m)
             out == WithoutNotices(s)
             q == LeaveOut(out, m)
  <2>1. WithoutNotices(p) = q /\ out \in Seq(Messages) /\ p \in Seq(Messages)
    BY FoldSteps, PlainType
  <2>2. Embedded(s, out)
    BY <1>2
  <2>3. /\ Len(p) = Len(s) + 1 /\ p[Len(s) + 1] = m /\ Len(s) \in Nat
    OBVIOUS
  <2>4. ASSUME NEW i \in 1..Len(q)
        PROVE \E j \in 1..Len(p) : Follows(p, j, q, i)
    <3>1. CASE i \in 1..Len(out)
      <4>1. PICK j \in 1..Len(s) : Follows(s, j, out, i)
        BY <2>2, <3>1 DEF Embedded
      <4>2. Follows(p, j, q, i)
        BY <2>1, <3>1, <4>1, FollowsAppend
      <4> QED
        BY <2>3, <4>2
    <3>2. CASE i \notin 1..Len(out)
      <4> DEFINE l == Len(out) + 1
      <4>1. m.role # "notice" /\ q = Append(out, m)
        BY <3>2 DEF LeaveOut
      <4>2. i = l /\ Len(q) = l /\ q[l] = m /\ Len(out) \in Nat
        BY <2>1, <3>2, <4>1
      <4> HIDE DEF p, q
      <4>3. Follows(p, Len(p), q, i)
        <5>1. ASSUME NEW n \in Nat, Run(p, Len(p), n) PROVE n = 0
          BY <2>3, <5>1 DEF Run
        <5>2. q[i] = p[Len(p)] /\ i + 0 = Len(q)
          BY <2>3, <4>2
        <5> QED
          BY <5>1, <5>2 DEF Follows
      <4>4. Len(p) \in 1..Len(p)
        BY <2>3
      <4> QED
        BY <4>3, <4>4
    <3> QED
      BY <3>1, <3>2
  <2>5. Embedded(p, WithoutNotices(p))
    BY <2>1, <2>4 DEF Embedded
  <2> QED
    BY <2>1, <2>5
<1> HIDE DEF T
<1>3. Seq(Messages) \subseteq T
  BY <1>1, <1>2, Plain!EverySequence
<1> QED
  BY <1>3 DEF T

\* Without the notices a history is as well formed as it was.
LEMMA PlainGood ==
  ASSUME NEW s \in Seq(Messages), NEW E, Good(s, E)
  PROVE Good(WithoutNotices(s), E)
<1> DEFINE out == WithoutNotices(s)
<1>1. Matched(AnthropicRequest(out), E)
  BY PlainRequest DEF Good
<1>2. ASSUME NEW i \in 1..Len(out)
      PROVE Resolved(out, i) \/ out[i].turn \in E
  <2>1. PICK j \in 1..Len(s) : Follows(s, j, out, i)
    BY PlainEmbedded DEF Embedded
  <2>2. out[i] = s[j]
    BY <2>1 DEF Follows
  <2>3. ASSUME Resolved(s, j) PROVE Resolved(out, i)
    <3> DEFINE n == Len(s[j].calls)
    <3>1. n \in Nat
      <4>1. s[j] \in Messages
        OBVIOUS
      <4>2. s[j].calls \in Seq(CallIds)
        BY <4>1 DEF Messages
      <4> QED
        BY <4>2
    <3>2. \A k \in 1..n : /\ j + k <= Len(s) /\ s[j + k].role = "tool"
                          /\ s[j + k].id = s[j].calls[k]
      BY <2>3 DEF Resolved
    <3>3. Run(s, j, n)
      <4>1. j + n <= Len(s)
        <5>1. CASE n = 0
          BY <5>1
        <5>2. CASE n # 0
          BY <3>1, <3>2, <5>2
        <5> QED
          BY <5>1, <5>2
      <4>2. \A k \in 1..n : s[j + k].role # "notice"
        BY <3>2
      <4> QED
        BY <4>1, <4>2 DEF Run
    <3>4. i + n <= Len(out) /\ \A k \in 1..n : out[i + k] = s[j + k]
      BY <2>1, <3>1, <3>3 DEF Follows
    <3>5. out \in Seq(Messages) /\ Len(out) \in Nat
      BY PlainType
    <3>6. \A k \in 1..n : i + k <= Len(out)
      BY <3>1, <3>4, <3>5
    <3> HIDE DEF out
    <3> QED
      BY <2>2, <3>2, <3>4, <3>6 DEF Resolved
  <2> QED
    BY <2>2, <2>3 DEF Good, Settled
<1> QED
  BY <1>1, <1>2 DEF Good, Settled

\* So it is with the notice at its end.
LEMMA NoticeGood ==
  ASSUME NEW s \in Seq(Messages), NEW E, Good(s, E), turn \in Nat
  PROVE Good(WithNotice(s), E)
<1>1. Good(WithoutNotices(s), E) /\ WithoutNotices(s) \in Seq(Messages)
  BY PlainGood, PlainType
<1>2. /\ Notice(turn) \in Messages /\ Notice(turn).calls = <<>>
      /\ Notice(turn).role # "tool"
  BY Made DEF Notice, Message
<1>3. Good(Append(WithoutNotices(s), Notice(turn)), E)
  BY <1>1, <1>2, GoodAppend
<1> QED
  BY <1>1, <1>3 DEF WithNotice

-----------------------------------------------------------------------------
(* The context is well formed.                                             *)

\* What a step within a turn does to the turns that are excused.
LEMMA WithinBreaks ==
  ASSUME TurnTypeOK, Next,
         ~Prompt, ~PromptUnloaded, ~Drops, ~Stored, ~Checkpoint
  PROVE /\ UNCHANGED <<turn, disk, answers>>
        /\ broken' = broken \/ (broken' = broken \cup {turn} /\ pc' = "failed")
<1>1. CASE KeepTitle \/ Announced \/ Unsaved \/ Cancel
  BY <1>1 DEF KeepTitle, Announced, Unsaved, Cancel, history, file
<1>2. CASE CreateStream \/ CreateStreamFails \/ StreamError
  BY <1>2 DEF CreateStream, CreateStreamFails, StreamError, history, file
<1>3. CASE RoleDelta \/ ToolRun \/ SendUsage
  BY <1>3 DEF RoleDelta, ToolRun, SendUsage, history, file
<1>4. ASSUME NEW i \in DeltaIds, CallDelta(i)
      PROVE UNCHANGED <<turn, disk, answers, broken>>
  BY <1>4 DEF CallDelta, history, file
<1>5. ASSUME NEW whole \in BOOLEAN, StreamCloses(whole)
      PROVE UNCHANGED <<turn, disk, answers, broken>>
  BY <1>5 DEF StreamCloses, history, file
<1>6. CASE ToolCallStart \/ ToolCallDone
  BY <1>6 DEF ToolCallStart, ToolCallDone, EmitOrBreak, file
<1>7. ASSUME NEW thought \in BOOLEAN, ContentDelta(thought)
      PROVE UNCHANGED <<turn, disk, answers, broken>>
  BY <1>7 DEF ContentDelta, file
<1> QED
  BY <1>1, <1>2, <1>3, <1>4, <1>5, <1>6, <1>7, StepKinds DEF TurnTypeOK

\* A step keeps the excused turns among those that do not end well.
LEMMA BrokenStep ==
  ASSUME TurnTypeOK, BrokenInv, [Next]_vars
  PROVE BrokenInv' /\ broken \subseteq broken'
<1>0. /\ turn \in Nat /\ answers \in [Turns -> {None, "error", "end_turn"}]
      /\ pc # "idle" => turn \in Turns
      /\ None # "end_turn"
  BY TurnAssumption DEF TurnTypeOK
<1>1. CASE Prompt
  <2>1. /\ pc = "idle" /\ pc' = "loaded" /\ turn' = turn + 1
        /\ broken' = broken /\ answers' = answers
    BY <1>1 DEF Prompt, history
  <2>2. \A t \in Turns : t \in Nat
    BY DEF Turns
  <2> QED
    BY <1>0, <2>1, <2>2 DEF BrokenInv
<1>2. CASE Drops
  <2>1. /\ broken' = broken /\ turn' = turn /\ pc # "idle" /\ pc' = "idle"
        /\ \A t \in Turns : t # turn => answers'[t] = answers[t]
        /\ answers'[turn] \in {answers[turn], "error"}
    BY <1>0, <1>2 DEF Drops, Return
  <2>2. broken \subseteq Turns
    BY <1>0, TurnAssumption DEF BrokenInv, Turns, TurnTypeOK
  <2> QED
    BY <1>0, <2>1, <2>2 DEF BrokenInv
<1>3. CASE Stored
  <2>1. /\ broken' = broken /\ turn' = turn /\ pc # "idle" /\ pc' = "idle"
        /\ \A t \in Turns : t # turn => answers'[t] = answers[t]
        /\ \/ answers'[turn] \in {answers[turn], "error"}
           \/ pc = "finishing"
    BY <1>0, <1>3 DEF Stored, Return
  <2>2. broken \subseteq Turns
    BY <1>0, TurnAssumption DEF BrokenInv, Turns, TurnTypeOK
  <2> QED
    BY <1>0, <2>1, <2>2 DEF BrokenInv
<1>4. CASE PromptUnloaded
  <2>1. /\ broken' = broken /\ turn' = turn + 1 /\ pc = "idle" /\ pc' = "idle"
        /\ \A t \in Turns : t # turn' => answers'[t] = answers[t]
    BY <1>0, <1>4 DEF PromptUnloaded, history
  <2>2. broken \subseteq Turns
    BY <1>0, TurnAssumption DEF BrokenInv, Turns, TurnTypeOK
  <2> QED
    BY <1>0, <2>1, <2>2 DEF BrokenInv
<1>5. CASE Checkpoint
  BY <1>5 DEF Checkpoint, history, BrokenInv
<1>6. CASE /\ Next /\ ~Prompt /\ ~PromptUnloaded
           /\ ~Drops /\ ~Stored /\ ~Checkpoint
  <2>1. /\ UNCHANGED <<turn, disk, answers>>
        /\ broken' = broken \/ (broken' = broken \cup {turn} /\ pc' = "failed")
    BY <1>6, WithinBreaks
  <2>2. pc # "idle" /\ (pc = "failed" => pc' = "failed")
    BY <1>6, WithinKinds DEF Within
  <2>3. turn \in 1..turn /\ answers[turn] = None
    BY <1>0, <2>2 DEF TurnTypeOK, Turns, BrokenInv
  <2> QED
    BY <1>0, <2>1, <2>2, <2>3 DEF BrokenInv
<1>7. CASE UNCHANGED vars
  BY <1>7 DEF vars, history, BrokenInv
<1> QED
  BY <1>1, <1>2, <1>3, <1>4, <1>5, <1>6, <1>7

\* A step leaves a well formed history in the file.
LEMMA FileStep ==
  ASSUME TurnTypeOK, BrokenInv, FileInv, ContextInv, [Next]_vars
  PROVE FileInv'
<1>0. /\ turn \in Nat /\ msgs \in Seq(Messages)
      /\ broken \subseteq broken'
  BY TurnAssumption, BrokenStep DEF TurnTypeOK
<1>1. SUFFICES Good(disk'.msgs, broken')
  BY DEF FileInv
<1>2. CASE disk' = disk
  BY <1>0, <1>2, GoodMore DEF FileInv
<1>3. CASE Stored
  <2>1. /\ pc \in {"saving", "finishing", "failed"}
        /\ disk'.msgs = IF pc = "finishing" THEN WithNotice(msgs) ELSE msgs
    BY <1>3 DEF Stored, FileToSave, Session
  <2>2. Good(msgs, broken)
    BY <2>1 DEF ContextInv
  <2>3. Good(WithNotice(msgs), broken)
    BY <1>0, <2>2, NoticeGood
  <2> QED
    BY <1>0, <2>1, <2>2, <2>3, GoodMore
<1>5. CASE Checkpoint
  <2>1. disk'.msgs = msgs /\ pc = "saving"
    BY <1>5 DEF Checkpoint, Session
  <2> QED
    BY <1>0, <2>1, GoodMore DEF ContextInv
<1> QED
  BY <1>2, <1>3, <1>5, WithinKinds
  DEF Prompt, PromptUnloaded, Drops, Within, vars, file

\* The messages and the calls of the turn are left alone.
Same == UNCHANGED <<turn, msgs, calls, next>>

\* A step of the loop keeps the context well formed.
LEMMA ContextStep ==
  ASSUME TurnTypeOK, BrokenInv, FileInv, ContextInv, [Next]_vars
  PROVE ContextInv'
<1>0. /\ turn \in Nat /\ msgs \in Seq(Messages) /\ disk.msgs \in Seq(Messages)
      /\ calls \in Seq(CallIds) /\ broken \subseteq broken'
  BY TurnAssumption, BrokenStep DEF TurnTypeOK, File
<1> DEFINE Steady == {"loaded", "saving", "request", "streaming", "usage",
                      "finishing", "failed"}
           Tools == {"tools", "running", "ran"}
<1>1. CASE Prompt
  <2>1. turn' \in Nat
    BY <1>0, <1>1 DEF Prompt
  <2>2. /\ User(turn') \in Messages /\ User(turn').calls = <<>>
        /\ User(turn').role # "tool"
    BY <2>1, Made DEF User, Message
  <2>3. Good(Append(disk.msgs, User(turn')), broken')
    BY <1>0, <2>2, GoodAppend, GoodMore DEF FileInv
  <2>4. pc' = "loaded" /\ msgs' = Append(disk.msgs, User(turn'))
    BY <1>1 DEF Prompt
  <2> QED
    BY <2>3, <2>4 DEF ContextInv
<1>2. CASE pc' = "idle"
  BY <1>2 DEF ContextInv
<1>3. ASSUME pc \in Steady, pc' \in Steady, msgs' = msgs
      PROVE ContextInv'
  <2>1. Good(msgs, broken)
    BY <1>3 DEF ContextInv
  <2>2. Good(msgs', broken')
    BY <1>0, <1>3, <2>1, GoodMore
  <2> QED
    BY <1>3, <2>2 DEF ContextInv
<1>4. CASE Cancel \/ UNCHANGED vars
  <2>1. UNCHANGED <<pc, turn, msgs, calls, next, broken>>
    BY <1>4 DEF Cancel, vars, session, builder, history
  <2> QED
    BY <2>1 DEF ContextInv, Open
<1>5. CASE Unsaved
  <2>1. /\ pc = "finishing" /\ pc' = "failed" /\ msgs' = WithNotice(msgs)
    BY <1>5 DEF Unsaved
  <2>2. Good(msgs', broken)
    BY <1>0, <2>1, NoticeGood DEF ContextInv
  <2>3. Good(msgs', broken')
    BY <1>0, <2>2, GoodMore
  <2> QED
    BY <2>1, <2>3 DEF ContextInv
<1>6. ASSUME NEW whole \in BOOLEAN, StreamCloses(whole) PROVE ContextInv'
  <2> DEFINE m == Response(turn, calls, text, whole)
  <2>1. pc = "streaming" /\ next = 1 /\ next' = next /\ calls' = calls
        /\ turn' = turn
    BY <1>6 DEF StreamCloses, TurnTypeOK, builder
  <2>2. Good(msgs, broken)
    BY <2>1 DEF ContextInv
  <2>3. /\ m \in Messages /\ m.role = "assistant" /\ m.calls = calls
        /\ m.turn = turn
    BY <1>0, Made DEF Response, Message, TurnTypeOK
  <2>4. CASE msgs' = msgs /\ pc' = "failed"
    BY <1>3, <2>1, <2>4
  <2>5. CASE msgs' = Append(msgs, m) /\ calls = <<>> /\ pc' = "usage"
    <3>1. Good(Append(msgs, m), broken)
      BY <1>0, <2>2, <2>3, <2>5, GoodAppend
    <3>2. Good(msgs', broken')
      BY <1>0, <2>5, <3>1, GoodMore
    <3> QED
      BY <2>5, <3>2 DEF ContextInv
  <2>6. CASE msgs' = Append(msgs, m) /\ calls # <<>> /\ pc' = "tools"
    <3>1. Open(Append(msgs, m), m.calls, 0, m.turn, broken)
      BY <1>0, <2>2, <2>3, <2>6, Opens
    <3>2. next' - 1 = 0
      BY <2>1
    <3> HIDE DEF m
    <3>3. Open(msgs', calls', next' - 1, turn', broken)
      BY <2>1, <2>3, <2>6, <3>1, <3>2
    <3>4. broken' = broken
      BY <1>6 DEF StreamCloses, history
    <3> QED
      BY <2>6, <3>3, <3>4 DEF ContextInv
  <2> QED
    BY <1>6, <2>4, <2>5, <2>6 DEF StreamCloses, AcceptResponse
<1>7. ASSUME pc \in Tools, pc' \in Tools, Same, UNCHANGED broken
      PROVE ContextInv'
  BY <1>7 DEF ContextInv, Same
<1>8. ASSUME pc \in Tools, pc' = "failed", Same, broken' = broken \cup {turn}
      PROVE ContextInv'
  <2>1. next - 1 \in Nat
    BY <1>0, <1>8 DEF TurnTypeOK
  <2>2. Open(msgs, calls, next - 1, turn, broken)
    BY <1>8 DEF ContextInv
  <2>3. Good(msgs, broken \cup {turn})
    BY <1>0, <2>1, <2>2, Breaks
  <2>4. Good(msgs', broken')
    BY <1>0, <1>8, <2>3, GoodMore DEF Same
  <2> QED
    BY <1>8, <2>4 DEF ContextInv
<1>9. CASE ToolCallStart
  <2>1. Same /\ pc = "tools"
    BY <1>9 DEF ToolCallStart, builder, Same
  <2>2. \/ pc' = "running" /\ broken' = broken
        \/ pc' = "failed" /\ broken' = broken \cup {turn}
    BY <1>9 DEF ToolCallStart, EmitOrBreak, Emit
  <2> QED
    BY <1>7, <1>8, <2>1, <2>2
<1>10. CASE ToolRun
  <2>1. /\ Same /\ pc = "running" /\ pc' = "ran"
        /\ broken' = broken
    BY <1>10 DEF ToolRun, AttachFile, Emit, builder, Same
  <2> QED
    BY <1>7, <2>1
<1>11. CASE ToolCallDone
  <2> DEFINE m == ToolResult(turn, calls[next])
             then == IF next = Len(calls) THEN "request" ELSE "tools"
  <2>1. /\ pc = "ran" /\ turn' = turn /\ calls' = calls
        /\ next \in 1..Len(calls) /\ Len(calls) \in Nat
    BY <1>0, <1>11 DEF ToolCallDone, TurnTypeOK
  <2>2. \/ pc' = then /\ broken' = broken
        \/ pc' = "failed" /\ broken' = broken \cup {turn}
    BY <1>11 DEF ToolCallDone, EmitOrBreak, Emit
  <2>3. CASE pc' = "failed"
    <3>1. Same /\ broken' = broken \cup {turn}
      BY <1>11, <2>1, <2>2, <2>3 DEF ToolCallDone, Same
    <3> QED
      BY <1>8, <2>1, <2>3, <3>1
  <2>4. CASE pc' = then
    <3> DEFINE n == next - 1
    <3>1. /\ msgs' = Append(msgs, m) /\ broken' = broken
          /\ next' = IF next = Len(calls) THEN 1 ELSE next + 1
      BY <1>11, <2>2, <2>4 DEF ToolCallDone
    <3>3. n \in Nat /\ n < Len(calls) /\ n + 1 = next
      BY <2>1
    <3>4. Open(msgs, calls, n, turn, broken)
      BY <2>1 DEF ContextInv
    <3>5. Open(Append(msgs, ToolResult(turn, calls[n + 1])), calls, n + 1,
               turn, broken)
      BY <1>0, <3>3, <3>4, Continues
    <3>6. Open(msgs', calls, next, turn, broken)
      BY <3>1, <3>3, <3>5
    <3>7. CASE next = Len(calls)
      <4>1. m \in Messages
        BY <1>0, <2>1, Made
      <4>2. msgs' \in Seq(Messages) /\ calls # <<>>
        BY <1>0, <2>1, <3>1, <4>1
      <4>3. Good(msgs', broken)
        BY <1>0, <3>6, <3>7, <4>2, Closes
      <4> QED
        BY <2>4, <3>1, <3>7, <4>3 DEF ContextInv
    <3>8. CASE next # Len(calls)
      <4>1. next' - 1 = next
        BY <2>1, <3>1, <3>8
      <4> QED
        BY <2>1, <2>4, <3>1, <3>6, <3>8, <4>1 DEF ContextInv
    <3> QED
      BY <3>7, <3>8
  <2> QED
    BY <2>2, <2>3, <2>4
<1>12. CASE \/ Checkpoint \/ Announced \/ KeepTitle \/ CreateStream
            \/ CreateStreamFails \/ StreamError \/ RoleDelta
  BY <1>3, <1>12
  DEF Checkpoint, Announced, KeepTitle, CreateStream, CreateStreamFails,
      StreamError, RoleDelta, session
<1>13. CASE SendUsage
  BY <1>3, <1>13 DEF SendUsage, Emit
<1>16. ASSUME NEW thought \in BOOLEAN, ContentDelta(thought)
       PROVE ContextInv'
  BY <1>3, <1>16 DEF ContentDelta, Emit
<1>14. ASSUME NEW i \in DeltaIds, CallDelta(i) PROVE ContextInv'
  BY <1>3, <1>14 DEF CallDelta, session
<1>15. CASE Drops \/ Stored \/ PromptUnloaded
  BY <1>2, <1>15 DEF Drops, Stored, Return, PromptUnloaded
<1> QED
  BY <1>1, <1>4, <1>5, <1>6, <1>9, <1>10, <1>11, <1>12, <1>13, <1>14, <1>15,
     <1>16, StepKinds
  DEF TurnTypeOK

-----------------------------------------------------------------------------
(* The theorems.                                                           *)

\* The invariant holds of the initial states.
LEMMA InvInit == Init => IInv
<1> SUFFICES ASSUME Init PROVE IInv
  OBVIOUS
<1>1. /\ msgs = <<>> /\ disk.msgs = <<>> /\ disk.events = <<>>
      /\ sent = <<>> /\ pc = "idle" /\ broken = {} /\ turn = 0
      /\ answers = [t \in Turns |-> None]
  BY DEF Init, NewSession
<1>2. TurnTypeOK
  BY TypeInit
<1>3. WholeInv
  BY <1>1 DEF WholeInv, AllWhole, NoInterruptedResponse
<1>4. ReplayInv
  BY <1>1, FoldSteps DEF ReplayInv
<1>5. ProgressInv /\ BrokenInv
  BY <1>1 DEF ProgressInv, BrokenInv
<1>6. DurableInv
  BY <1>1, TurnAssumption DEF DurableInv
<1>7. FileInv
  BY <1>1, GoodEmpty DEF FileInv
<1>8. ContextInv
  BY <1>1 DEF ContextInv
<1> QED
  BY <1>2, <1>3, <1>4, <1>5, <1>6, <1>7, <1>8 DEF IInv

\* The invariant is inductive.
LEMMA InvStep == IInv /\ [Next]_vars => IInv'
BY TypeStep, WholeStep, ReplayStep, ProgressStep, DurableStep, BrokenStep,
   FileStep, ContextStep DEF IInv

\* The turns keep the invariant (Manager.Prompt, Agent.Run and the recording
\* sink), whatever fails, and however often the process is restarted.
THEOREM Inductive == Spec => []IInv
BY InvInit, InvStep, PTL DEF Spec

\* Every request is well formed, as a chat request and as what the anthropic
\* client makes of it: calls have their results, one each and in order, save
\* those a failed sink or a call without an id left open, in a turn that was
\* not answered with end_turn (Agent.Run).
THEOREM ContextWellFormed == Spec => []RequestWellFormed
<1>1. IInv => RequestWellFormed
  BY DEF IInv, ContextInv, BrokenInv, Good, Settled, Matched, RequestWellFormed
<1> QED
  BY <1>1, Inductive, PTL

\* No response whose stream was cut short is ever saved, whenever the cancel
\* comes and whichever save follows.
THEOREM WholeResponses == Spec => []NoInterruptedResponse
<1>1. IInv => NoInterruptedResponse
  BY DEF IInv, WholeInv
<1> QED
  BY <1>1, Inductive, PTL

\* A turn answered with end_turn has its prompt, its response and its last
\* event in every file that can be loaded: no failed save, later turn, notice
\* or crash leaves a loadable file without them.
THEOREM Durable == Spec => []EndTurnIsDurable
<1>1. IInv => EndTurnIsDurable
  BY DEF IInv, DurableInv, Answered, Reported, EndTurnIsDurable
<1> QED
  BY <1>1, Inductive, PTL

\* Between turns the file replays what the client was sent, unless a crash, a
\* failed save or a failed send has set them apart.
THEOREM ReplayExact == Spec => []ReplayIsExact
<1>1. IInv => ReplayIsExact
  BY DEF IInv, ReplayInv, ReplayIsExact, Replay
<1> QED
  BY <1>1, Inductive, PTL
=============================================================================

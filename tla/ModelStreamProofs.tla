-------------------------- MODULE ModelStreamProofs --------------------------
(***************************************************************************)
(* Theorems about the stream of one response, for every message, whatever  *)
(* the number of its parts and pieces and however its provider cuts it up. *)
(***************************************************************************)
EXTENDS ModelStream, Integers, FiniteSetTheorems,
        SequenceTheorems, TLAPS

-----------------------------------------------------------------------------
(* The invariant.                                                          *)

\* What the pieces of a message are, and the events they come in.
Pieces == Nat \X Nat
CallSet == [id : Nat, args : Seq(Pieces)]
Fragments == [id : Nat, index : Nat, args : Seq(Pieces)]
Deltas == [role : BOOLEAN, thinking : Seq(Pieces), text : Seq(Pieces),
           calls : Seq(Fragments)]
ChatEventSet == [type : {"chunk"}, delta : Deltas]
BlockEventSet ==
  [type : {"content_block_start"}, index : Nat, id : Nat]
    \cup [type : {"content_block_delta"}, kind : PartKinds, index : Nat,
          piece : Pieces]
Body(kind) ==
  IF kind = "openai" THEN ChatEventSet
  ELSE BlockEventSet \cup {Event("message_start"), Event("message_delta")}
End(kind) ==
  IF kind = "openai" THEN Event("[DONE]") ELSE Event("message_stop")
ProviderEvents ==
  ChatEventSet \cup BlockEventSet
    \cup {Event("message_start"), Event("message_delta"),
          Event("message_stop"), Event("[DONE]")}
StreamEvents ==
  ProviderEvents \cup {Event("broken"), Event("error"), Event("bareError")}

\* What an event of the provider brings to the builder.
DeltaOf(e) == IF e.type = "chunk" THEN e.delta ELSE MessagesDelta(e)
Absorb(b, e) ==
  IF IsEmpty(DeltaOf(e)) THEN b ELSE Update(b, DeltaOf(e))
Absorbed(es) == FoldLeft(Absorb, EmptyBuilder, es)

script == Script(model.kind, model.style, model.message)

\* How many events of a response that has not failed have been read, have left
\* the reader, have come to the adapter, and have come to the builder.
HasRead == Len(script) - Len(wire)
HasSent == IF reader = "send" THEN HasRead - 1 ELSE HasRead
HasConverted == IF relay = "send" THEN HasSent - 1 ELSE HasSent
HasMerged == IF adapter = "send" THEN HasConverted - 1 ELSE HasConverted

Readers == {"read", "send", "closeEvents", "closeErr", "done"}
Relays == IF Anthropic THEN {"recv", "send", "await", "done"} ELSE {"none"}
Adapters == {"recv", "send", "last", "done"}
Outcomes == {"range", "errored", "sinkFailed", "cancelled", "empty",
             "accepted"}

StreamTypeOK ==
  /\ model.kind \in {"openai", "anthropic"} /\ model.style \in Styles
  /\ model.message \in Messages
  /\ wire \in Seq(StreamEvents)
  /\ conn \in {"open", "eof", "error"}
  /\ whole \in BOOLEAN /\ mute \in BOOLEAN
  /\ streamErr \in BOOLEAN /\ ctxDone \in BOOLEAN
  /\ reader \in Readers /\ relay \in Relays /\ adapter \in Adapters
  /\ loop \in Outcomes
  /\ adapter = "last" => chunk = FailureChunk

\* While nothing has failed, every event is in one place and in order.
Unread ==
  /\ Len(wire) \in 0..Len(script)
  /\ wire = SubSeq(script, HasRead + 1, Len(script))
Held ==
  /\ reader = "send" => readEvent = script[HasRead]
  /\ relay = "send" => relayEvent = script[HasSent]
  /\ adapter = "send" => chunk = Chunk(DeltaOf(script[HasConverted]))

\* What has come to the builder is merged.
Merged ==
  /\ HasMerged \in 0..Len(script)
  /\ builder = Absorbed(SubSeq(script, 1, HasMerged))

\* The goroutines leave when they have had the last event.
Leaving ==
  /\ reader \notin {"read", "send"} => wire = <<>>
  /\ conn # "open" => wire = <<>>
  /\ reader \in {"read", "send"} => ~streamErr
  /\ adapter = "done" => HasConverted = Len(script)
  /\ adapter # "done" => HasConverted < Len(script)
  /\ Anthropic /\ relay = "done" => HasConverted = Len(script)
  /\ Anthropic /\ relay # "done" => HasConverted < Len(script)
  /\ relay # "await" /\ adapter # "last"

FlowInv == whole /\ ~ctxDone => Unread /\ Held /\ Merged /\ Leaving

\* What an adapter takes for the end of the response.
Terminators == {"[DONE]", "message_stop", "bareError"}

\* When the response has failed, by no error without its object, and is not
\* cancelled, the end does not come.
CutInv ==
  ~whole /\ ~mute /\ ~ctxDone =>
    /\ \A i \in 1..Len(wire) : wire[i].type \notin Terminators
    /\ reader = "send" => readEvent.type \notin Terminators
    /\ relay = "send" => relayEvent.type \notin Terminators
    /\ loop = "range" => adapter # "done"
    /\ relay = "done" => adapter \in {"last", "done"}

\* The anthropic client makes no failure of a cancel.
Failures == {"broken", "error", "streamError"}
CleanInv ==
  whole /\ Anthropic =>
    /\ \A i \in 1..Len(wire) : wire[i].type \notin Failures
    /\ reader = "send" => readEvent.type \notin Failures
    /\ relay = "send" => relayEvent.type \notin Failures
    /\ adapter # "last" /\ (adapter = "send" => ~chunk.error)

OutcomeInv ==
  /\ mute => ~whole
  /\ loop = "errored" => ~whole \/ (ctxDone /\ ~Anthropic)
  /\ loop = "cancelled" => ctxDone
  /\ loop = "empty" => ~whole \/ IsEmpty(Absorbed(script))
  /\ loop = "accepted" =>
       /\ ~ctxDone
       /\ mute \/ (whole /\ wire = <<>> /\ builder = Absorbed(script))

IInv == StreamTypeOK /\ FlowInv /\ CutInv /\ CleanInv /\ OutcomeInv

-----------------------------------------------------------------------------
(* The folds.                                                              *)

Flattening == INSTANCE Folding WITH Op <- Join
Meaning == INSTANCE Folding WITH Op <- AddPart
Merging == INSTANCE Folding WITH Op <- MergeCall
Absorbing == INSTANCE Folding WITH Op <- Absorb

\* The instances are the folds of the model.
LEMMA SameFolds ==
  ASSUME NEW s, NEW base
  PROVE /\ Flattening!Fold(<<>>, s) = Flat(s)
        /\ Meaning!Fold(Unsaid, s) = Meant(s)
        /\ Merging!Fold(base, s) = FoldLeft(MergeCall, base, s)
        /\ Absorbing!Fold(base, s) = FoldLeft(Absorb, base, s)
<1>1. Flattening!Fold(<<>>, s) = Flat(s)
  BY DEF Flattening!Fold, Flat, Flattening!FoldLeft, FoldLeft, MapThenFoldSet,
         Flattening!MapThenFoldSet, Flattening!Max, Max
<1>2. Meaning!Fold(Unsaid, s) = Meant(s)
  BY DEF Meaning!Fold, Meant, Meaning!FoldLeft, FoldLeft, MapThenFoldSet,
         Meaning!MapThenFoldSet, Meaning!Max, Max
<1>3. Merging!Fold(base, s) = FoldLeft(MergeCall, base, s)
  BY DEF Merging!Fold, Merging!FoldLeft, FoldLeft, MapThenFoldSet,
         Merging!MapThenFoldSet, Merging!Max, Max
<1>4. Absorbing!Fold(base, s) = FoldLeft(Absorb, base, s)
  BY DEF Absorbing!Fold, Absorbing!FoldLeft, FoldLeft, MapThenFoldSet,
         Absorbing!MapThenFoldSet, Absorbing!Max, Max
<1> QED
  BY <1>1, <1>2, <1>3, <1>4

\* A flattened sequence grows by whole sequences.
LEMMA FlatSteps ==
  ASSUME NEW S
  PROVE /\ Flat(<<>>) = <<>>
        /\ \A ss \in Seq(Seq(S)), s \in Seq(S) :
             Flat(Append(ss, s)) = Flat(ss) \o s
<1>1. Flat(<<>>) = <<>>
  BY Flattening!FoldEmpty, SameFolds
<1>2. ASSUME NEW ss \in Seq(Seq(S)), NEW s \in Seq(S)
      PROVE Flat(Append(ss, s)) = Flat(ss) \o s
  <2>1. Flattening!Fold(<<>>, Append(ss, s))
          = Join(Flattening!Fold(<<>>, ss), s)
    BY Flattening!FoldAppend
  <2>2. QED
    BY <2>1, SameFolds DEF Join
<1> QED
  BY <1>1, <1>2

\* It is a sequence of the same elements.
LEMMA FlatType ==
  ASSUME NEW S, NEW ss \in Seq(Seq(S))
  PROVE  Flat(ss) \in Seq(S)
<1> DEFINE Q == Seq(S)
           T == {u \in Seq(Q) : Flat(u) \in Q}
<1>1. <<>> \in T
  <2>1. <<>> \in Seq(Q) /\ <<>> \in Seq(S)
    OBVIOUS
  <2>2. QED
    BY <2>1, FlatSteps
<1>2. ASSUME NEW u \in Seq(Q), NEW e \in Q, u \in T PROVE Append(u, e) \in T
  <2>1. Flat(Append(u, e)) = Flat(u) \o e
    BY FlatSteps
  <2>2. Flat(u) \o e \in Seq(S)
    BY <1>2
  <2>3. Append(u, e) \in Seq(Q)
    OBVIOUS
  <2>4. QED
    BY <2>1, <2>2, <2>3
<1>3. Seq(Q) \subseteq T
  <2> HIDE DEF T, Q
  <2>1. QED
    BY <1>1, <1>2, Flattening!EverySequence
<1>4. QED
  BY <1>3

\* What the provider means by a message is its parts in order; its calls have
\* the numbers of their parts.
Fits(m, message) ==
  /\ m \in [parts : Nat, thinking : Seq(Pieces), text : Seq(Pieces),
            calls : Seq(CallSet)]
  /\ m.parts = Len(message)
  /\ \A k \in 1..Len(m.calls) :
       /\ m.calls[k].id \in 1..Len(message)
       /\ m.calls[k] = Call(m.calls[k].id)
       /\ \A l \in 1..(k - 1) : m.calls[l].id < m.calls[k].id

\* A part more.
LEMMA MeantSteps ==
  /\ Meant(<<>>) = Unsaid
  /\ \A message \in Seq(PartKinds), kind \in PartKinds :
       Meant(Append(message, kind)) = AddPart(Meant(message), kind)
<1>1. Meant(<<>>) = Unsaid
  BY Meaning!FoldEmpty, SameFolds
<1>2. ASSUME NEW message \in Seq(PartKinds), NEW kind \in PartKinds
      PROVE Meant(Append(message, kind)) = AddPart(Meant(message), kind)
  <2>1. Meaning!Fold(Unsaid, Append(message, kind))
          = AddPart(Meaning!Fold(Unsaid, message), kind)
    BY Meaning!FoldAppend
  <2>2. QED
    BY <2>1, SameFolds
<1> QED
  BY <1>1, <1>2

\* A part is a sequence of pieces.
LEMMA PartType ==
  ASSUME NEW i \in Nat
  PROVE  Part(i) \in Seq(Pieces) /\ Len(Part(i)) = Chunks
BY StreamAssumption DEF Part, Pieces

\* The meaning of a part more fits.
LEMMA AddFits ==
  ASSUME NEW message \in Seq(PartKinds), NEW kind \in PartKinds,
         NEW m, Fits(m, message)
  PROVE  Fits(AddPart(m, kind), Append(message, kind))
<1> DEFINE i == m.parts + 1
           n == AddPart(m, kind)
<1>1. i \in Nat /\ i = Len(message) + 1 /\ Part(i) \in Seq(Pieces)
      /\ Len(Append(message, kind)) = i
  BY PartType DEF Fits
<1>2. CASE kind = "tool_use"
  <2>1. n = [parts |-> i, thinking |-> m.thinking, text |-> m.text,
             calls |-> Append(m.calls, Call(i))]
    BY <1>2 DEF AddPart, Fits
  <2>2. Call(i) \in CallSet /\ Call(i).id = i
    BY <1>1 DEF Call, CallSet
  <2>3. QED
    BY <1>1, <2>1, <2>2 DEF Fits
<1>3. CASE kind = "thinking"
  <2>1. n = [parts |-> i, thinking |-> m.thinking \o Part(i),
             text |-> m.text, calls |-> m.calls]
    BY <1>3 DEF AddPart, Fits
  <2>2. QED
    BY <1>1, <2>1 DEF Fits
<1>4. CASE kind = "text"
  <2>1. n = [parts |-> i, thinking |-> m.thinking,
             text |-> m.text \o Part(i), calls |-> m.calls]
    BY <1>4 DEF AddPart, Fits
  <2>2. QED
    BY <1>1, <2>1 DEF Fits
<1>5. QED
  BY <1>2, <1>3, <1>4 DEF PartKinds

\* The meaning of any message fits.
LEMMA MeantFits ==
  ASSUME NEW message \in Seq(PartKinds)
  PROVE  Fits(Meant(message), message)
<1> DEFINE T == {u \in Seq(PartKinds) : Fits(Meant(u), u)}
<1>1. <<>> \in T
  <2>1. <<>> \in Seq(PartKinds) /\ <<>> \in Seq(Pieces)
        /\ <<>> \in Seq(CallSet) /\ Len(<<>>) = 0
    OBVIOUS
  <2>2. /\ Unsaid.parts = Len(<<>>) /\ Unsaid.calls = <<>>
        /\ Unsaid \in [parts : Nat, thinking : Seq(Pieces),
                       text : Seq(Pieces),
                       calls : Seq(CallSet)]
    BY <2>1 DEF Unsaid
  <2>3. Fits(Unsaid, <<>>)
    BY <2>1, <2>2 DEF Fits
  <2>4. QED
    BY <2>1, <2>3, MeantSteps
<1>2. ASSUME NEW u \in Seq(PartKinds), NEW e \in PartKinds, u \in T
      PROVE Append(u, e) \in T
  BY <1>2, MeantSteps, AddFits
<1>3. Seq(PartKinds) \subseteq T
  <2> HIDE DEF T
  <2>1. QED
    BY <1>1, <1>2, Flattening!EverySequence
<1>4. QED
  BY <1>3

-----------------------------------------------------------------------------
(* The script of a response.                                               *)

\* Calls are numbered.
LEMMA CallNumberType ==
  ASSUME NEW message \in Seq(PartKinds), NEW i \in 1..Len(message)
  PROVE  CallNumber(message, i) \in Nat
<1>1. IsFiniteSet(1..(i - 1))
  BY FS_Interval
<1>2. IsFiniteSet({j \in 1..(i - 1) : message[j] = "tool_use"})
  BY <1>1, FS_Subset, {j \in 1..(i - 1) : message[j] = "tool_use"}
                        \subseteq 1..(i - 1)
<1>3. QED
  BY <1>2, FS_CardinalityType DEF CallNumber

\* A delta with one piece, or with fragments.
LEMMA DeltaType ==
  /\ NoDelta \in Deltas /\ [NoDelta EXCEPT !.role = TRUE] \in Deltas
  /\ \A piece \in Pieces : /\ Delta("thinking", piece) \in Deltas
                           /\ Delta("text", piece) \in Deltas
  /\ \A fragments \in Seq(Fragments) : CallDelta(fragments) \in Deltas
<1>1. <<>> \in Seq(Pieces) /\ <<>> \in Seq(Fragments)
  OBVIOUS
<1>2. /\ NoDelta \in Deltas /\ [NoDelta EXCEPT !.role = TRUE] \in Deltas
  BY <1>1 DEF NoDelta, Deltas
<1>3. ASSUME NEW piece \in Pieces
      PROVE  /\ Delta("thinking", piece) \in Deltas
             /\ Delta("text", piece) \in Deltas
  <2>1. <<piece>> \in Seq(Pieces)
    OBVIOUS
  <2>2. /\ Delta("thinking", piece) = [NoDelta EXCEPT !.thinking = <<piece>>]
        /\ Delta("text", piece) = [NoDelta EXCEPT !.text = <<piece>>]
    BY DEF Delta
  <2>3. QED
    BY <1>2, <2>1, <2>2 DEF Deltas
<1>4. ASSUME NEW fragments \in Seq(Fragments)
      PROVE CallDelta(fragments) \in Deltas
  BY <1>1 DEF CallDelta, NoDelta, Deltas
<1>5. QED
  BY <1>2, <1>3, <1>4

\* One fragment of a call, as a delta.
LEMMA FragmentType ==
  ASSUME NEW id \in Nat, NEW index \in Nat, NEW args \in Seq(Pieces)
  PROVE  /\ Fragment(id, index, args) \in Fragments
         /\ <<Fragment(id, index, args)>> \in Seq(Fragments)
BY DEF Fragment, Fragments

\* The events of a part are events.
LEMMA ChatPartType ==
  ASSUME NEW message \in Seq(PartKinds), NEW i \in 1..Len(message), NEW style
  PROVE  ChatPart(style, message, i) \in Seq(ChatEventSet)
<1>1. SUFFICES ASSUME NEW n \in 1..Chunks
      PROVE  ChatPart(style, message, i)[n] \in ChatEventSet
  BY StreamAssumption DEF ChatPart
<1>2. i \in Nat /\ n \in Nat /\ <<i, n>> \in Pieces /\ 0 \in Nat
      /\ <<<<i, n>>>> \in Seq(Pieces) /\ message[i] \in PartKinds
  BY StreamAssumption DEF Pieces
<1>3. CASE message[i] = "tool_use"
  <2> DEFINE id == IF n = 1 \/ style = "repeated" THEN i ELSE NoId
             index == IF style = "unindexed" THEN 0 ELSE CallNumber(message, i)
  <2>1. id \in Nat /\ index \in Nat
    BY <1>2, CallNumberType DEF NoId
  <2>2. ChatPart(style, message, i)[n]
          = ChatEvent(CallDelta(<<Fragment(id, index, <<<<i, n>>>>)>>))
    BY <1>3 DEF ChatPart
  <2> HIDE DEF id, index
  <2>3. CallDelta(<<Fragment(id, index, <<<<i, n>>>>)>>) \in Deltas
    BY <1>2, <2>1, FragmentType, DeltaType
  <2>4. QED
    BY <2>2, <2>3 DEF ChatEvent, ChatEventSet
<1>4. CASE message[i] # "tool_use"
  <2>1. ChatPart(style, message, i)[n]
          = ChatEvent(Delta(message[i], <<i, n>>))
    BY <1>4 DEF ChatPart
  <2>2. Delta(message[i], <<i, n>>) \in Deltas
    BY <1>2, <1>4, DeltaType DEF PartKinds
  <2>3. QED
    BY <2>1, <2>2 DEF ChatEvent, ChatEventSet
<1>5. QED
  BY <1>3, <1>4

\* So are those of a round over the calls, and of all calls together.
LEMMA RoundType ==
  ASSUME NEW calls \in Seq(CallSet),
         \A k \in 1..Len(calls) : Len(calls[k].args) = Chunks
  PROVE  /\ \A n \in 1..Chunks : Round(calls, n) \in Seq(ChatEventSet)
         /\ Together(calls) \in ChatEventSet
<1>1. ASSUME NEW n \in 1..Chunks, NEW k \in 1..Len(calls)
      PROVE  Round(calls, n)[k] \in ChatEventSet
  <2> DEFINE id == IF n = 1 THEN calls[k].id ELSE NoId
             piece == calls[k].args[n]
  <2>1. calls[k] \in CallSet
    OBVIOUS
  <2>2. id \in Nat /\ k - 1 \in Nat /\ piece \in Pieces
    BY <2>1 DEF NoId, CallSet
  <2>3. Round(calls, n)[k]
          = ChatEvent(CallDelta(<<Fragment(id, k - 1, <<piece>>)>>))
    BY DEF Round
  <2> HIDE DEF id, piece
  <2>4. <<piece>> \in Seq(Pieces)
    BY <2>2
  <2>5. CallDelta(<<Fragment(id, k - 1, <<piece>>)>>) \in Deltas
    BY <2>2, <2>4, FragmentType, DeltaType
  <2>6. QED
    BY <2>3, <2>5 DEF ChatEvent, ChatEventSet
<1>2. ASSUME NEW n \in 1..Chunks PROVE Round(calls, n) \in Seq(ChatEventSet)
  <2> DEFINE f == Round(calls, n)
  <2>1. /\ Len(calls) \in Nat /\ DOMAIN f = 1..Len(calls)
        /\ f = [k \in 1..Len(calls) |-> f[k]]
    BY DEF Round
  <2>2. \A k \in 1..Len(calls) : f[k] \in ChatEventSet
    BY <1>1
  <2> HIDE DEF f
  <2>3. QED
    BY <2>1, <2>2 DEF f
<1>3. Together(calls) \in ChatEventSet
  <2> DEFINE f == [k \in DOMAIN calls |->
                     Fragment(calls[k].id, 0, calls[k].args)]
  <2>1. ASSUME NEW k \in 1..Len(calls) PROVE f[k] \in Fragments
    <3>1. calls[k] \in CallSet
      OBVIOUS
    <3>2. QED
      BY <3>1 DEF Fragment, Fragments, CallSet
  <2>2. f \in Seq(Fragments)
    <3>1. /\ Len(calls) \in Nat /\ DOMAIN f = 1..Len(calls)
          /\ f = [k \in 1..Len(calls) |-> f[k]]
      OBVIOUS
    <3> HIDE DEF f
    <3>2. QED
      BY <2>1, <3>1
  <2>3. CallDelta(f) \in Deltas
    BY <2>2, DeltaType
  <2>4. QED
    BY <2>3 DEF Together, ChatEvent, ChatEventSet
<1>4. QED
  BY <1>2, <1>3

\* The events of the parts, flattened, are events.
LEMMA PartsType ==
  ASSUME NEW message \in Seq(PartKinds), NEW style
  PROVE  /\ [i \in DOMAIN message |-> ChatPart(style, message, i)]
              \in Seq(Seq(ChatEventSet))
         /\ ChatParts(style, message) \in Seq(ChatEventSet)
         /\ [i \in DOMAIN message |->
               IF message[i] = "tool_use" THEN <<>>
               ELSE ChatPart("interleaved", message, i)]
              \in Seq(Seq(ChatEventSet))
         /\ SpokenParts(message) \in Seq(ChatEventSet)
<1> DEFINE f == [i \in DOMAIN message |-> ChatPart(style, message, i)]
           g == [i \in DOMAIN message |->
                   IF message[i] = "tool_use" THEN <<>>
                   ELSE ChatPart("interleaved", message, i)]
           Q == Seq(ChatEventSet)
<1>1. DOMAIN message = 1..Len(message) /\ Len(message) \in Nat
      /\ <<>> \in Q
  OBVIOUS
<1>2. \A i \in 1..Len(message) : f[i] \in Q
  BY <1>1, ChatPartType
<1>3. \A i \in 1..Len(message) : g[i] \in Q
  BY <1>1, ChatPartType
<1>4. f \in Seq(Q)
  <2> HIDE DEF Q
  <2>1. f = [i \in 1..Len(message) |-> f[i]]
    BY <1>1
  <2> HIDE DEF f
  <2>2. QED
    BY <1>1, <1>2, <2>1
<1>5. g \in Seq(Q)
  <2> HIDE DEF Q
  <2>1. g = [i \in 1..Len(message) |-> g[i]]
    BY <1>1
  <2> HIDE DEF g
  <2>2. QED
    BY <1>1, <1>3, <2>1
<1>6. Flat(f) \in Q
  <2> HIDE DEF f
  <2>1. QED
    BY <1>4, FlatType
<1>7. Flat(g) \in Q
  <2> HIDE DEF g
  <2>1. QED
    BY <1>5, FlatType
<1>8. QED
  BY <1>4, <1>5, <1>6, <1>7 DEF ChatParts, SpokenParts

\* So are the events of all rounds.
LEMMA RoundsType ==
  ASSUME NEW calls \in Seq(CallSet),
         \A k \in 1..Len(calls) : Len(calls[k].args) = Chunks
  PROVE  /\ [n \in 1..Chunks |-> Round(calls, n)] \in Seq(Seq(ChatEventSet))
         /\ Flat([n \in 1..Chunks |-> Round(calls, n)]) \in Seq(ChatEventSet)
<1> DEFINE f == [n \in 1..Chunks |-> Round(calls, n)]
           Q == Seq(ChatEventSet)
<1>1. \A n \in 1..Chunks : f[n] \in Q
  BY RoundType
<1>2. f \in Seq(Q)
  <2> HIDE DEF Q
  <2>1. f = [n \in 1..Chunks |-> f[n]] /\ Chunks \in Nat
    BY StreamAssumption
  <2> HIDE DEF f
  <2>2. QED
    BY <1>1, <2>1
<1>3. Flat(f) \in Q
  <2> HIDE DEF f
  <2>1. QED
    BY <1>2, FlatType
<1>4. QED
  BY <1>2, <1>3

\* Calls with their numbers, in order.
Numbered(calls) ==
  /\ calls \in Seq(CallSet)
  /\ \A k \in 1..Len(calls) :
       /\ Len(calls[k].args) = Chunks
       /\ calls[k] = Call(calls[k].id)
       /\ calls[k].id \in Nat \ {0}
       /\ \A l \in 1..(k - 1) : calls[l].id < calls[k].id

\* What a provider says of the calls of a message.
LEMMA CallsFit ==
  ASSUME NEW message \in Seq(PartKinds)
  PROVE  Numbered(Whole(message).calls)
<1> DEFINE m == Meant(message)
<1>1. Whole(message).calls = m.calls
  BY DEF Whole, Build
<1>2. Fits(m, message)
  BY MeantFits
<1> HIDE DEF m
<1>3. m.calls \in Seq(CallSet)
  BY <1>2 DEF Fits
<1>4. ASSUME NEW k \in 1..Len(m.calls)
      PROVE  /\ Len(m.calls[k].args) = Chunks
             /\ m.calls[k] = Call(m.calls[k].id)
             /\ m.calls[k].id \in Nat \ {0}
             /\ \A l \in 1..(k - 1) : m.calls[l].id < m.calls[k].id
  <2>1. /\ m.calls[k].id \in 1..Len(message) /\ m.calls[k] = Call(m.calls[k].id)
        /\ \A l \in 1..(k - 1) : m.calls[l].id < m.calls[k].id
    BY <1>2 DEF Fits
  <2>2. Len(message) \in Nat
    OBVIOUS
  <2>3. m.calls[k].id \in Nat \ {0}
    BY <2>1, <2>2
  <2>4. m.calls[k].args = Part(m.calls[k].id)
    BY <2>1 DEF Call
  <2>5. QED
    BY <2>1, <2>3, <2>4, PartType
<1>5. QED
  BY <1>1, <1>3, <1>4 DEF Numbered

\* The events of a chat stream between the first and the last two.
LEMMA ChatEventsType ==
  ASSUME NEW message \in Seq(PartKinds), NEW style \in Styles
  PROVE  ChatEvents(style, message) \in Seq(ChatEventSet)
<1> DEFINE calls == Whole(message).calls
<1>1. /\ calls \in Seq(CallSet)
      /\ \A k \in 1..Len(calls) : Len(calls[k].args) = Chunks
  BY CallsFit DEF Numbered
<1>2. /\ ChatParts(style, message) \in Seq(ChatEventSet)
      /\ SpokenParts(message) \in Seq(ChatEventSet)
  BY PartsType
<1>3. /\ Flat([n \in 1..Chunks |-> Round(calls, n)]) \in Seq(ChatEventSet)
      /\ Together(calls) \in ChatEventSet
  <2> HIDE DEF calls
  <2>1. QED
    BY <1>1, RoundsType, RoundType
<1>4. CASE style = "interleaved"
  <2>1. ChatEvents(style, message)
          = SpokenParts(message) \o Flat([n \in 1..Chunks |-> Round(calls, n)])
    BY <1>4 DEF ChatEvents
  <2> HIDE DEF calls
  <2>2. QED
    BY <1>2, <1>3, <2>1
<1>5. CASE style = "together"
  <2>1. ChatEvents(style, message)
          = SpokenParts(message) \o <<Together(calls)>>
    BY <1>5 DEF ChatEvents
  <2> HIDE DEF calls
  <2>2. QED
    BY <1>2, <1>3, <2>1
<1>6. CASE style \notin {"interleaved", "together"}
  <2>1. ChatEvents(style, message) = ChatParts(style, message)
    BY <1>6 DEF ChatEvents
  <2>2. QED
    BY <1>2, <2>1
<1>7. QED
  BY <1>4, <1>5, <1>6

\* The events of a block of the Messages protocol.
LEMMA BlockType ==
  ASSUME NEW message \in Seq(PartKinds), NEW i \in 1..Len(message)
  PROVE  Block(message, i) \in Seq(BlockEventSet)
<1> DEFINE deltas == [n \in 1..Chunks |->
                        [type |-> "content_block_delta", kind |-> message[i],
                         index |-> i - 1, piece |-> <<i, n>>]]
           start == [type |-> "content_block_start", index |-> i - 1,
                     id |-> i]
<1>1. i \in Nat /\ i - 1 \in Nat /\ message[i] \in PartKinds
  OBVIOUS
<1>2. ASSUME NEW n \in 1..Chunks PROVE deltas[n] \in BlockEventSet
  <2>1. <<i, n>> \in Pieces
    BY <1>1, StreamAssumption DEF Pieces
  <2>2. QED
    BY <1>1, <2>1 DEF BlockEventSet
<1>3. deltas \in Seq(BlockEventSet)
  <2>1. deltas = [n \in 1..Chunks |-> deltas[n]] /\ Chunks \in Nat
    BY StreamAssumption
  <2> HIDE DEF deltas
  <2>2. QED
    BY <1>2, <2>1
<1>4. start \in BlockEventSet
  BY <1>1 DEF BlockEventSet
<1>5. Block(message, i) \in {deltas, <<start>> \o deltas}
  BY DEF Block
<1> HIDE DEF deltas, start
<1>6. <<start>> \o deltas \in Seq(BlockEventSet)
  <2>1. <<start>> \in Seq(BlockEventSet)
    BY <1>4
  <2>2. QED
    BY <1>3, <2>1
<1>7. QED
  BY <1>3, <1>5, <1>6

\* The blocks of a message.
LEMMA BlocksType ==
  ASSUME NEW message \in Seq(PartKinds)
  PROVE  /\ [i \in DOMAIN message |-> Block(message, i)]
              \in Seq(Seq(BlockEventSet))
         /\ Flat([i \in DOMAIN message |-> Block(message, i)])
              \in Seq(BlockEventSet)
<1> DEFINE f == [i \in DOMAIN message |-> Block(message, i)]
           Q == Seq(BlockEventSet)
<1>1. DOMAIN message = 1..Len(message) /\ Len(message) \in Nat
  OBVIOUS
<1>2. \A i \in 1..Len(message) : f[i] \in Q
  BY <1>1, BlockType
<1>3. f \in Seq(Q)
  <2> HIDE DEF Q
  <2>1. f = [i \in 1..Len(message) |-> f[i]]
    BY <1>1
  <2> HIDE DEF f
  <2>2. QED
    BY <1>1, <1>2, <2>1
<1>4. Flat(f) \in Q
  <2> HIDE DEF f
  <2>1. QED
    BY <1>3, FlatType
<1>5. QED
  BY <1>3, <1>4

\* The script is events with content, and the end.
LEMMA ScriptShape ==
  ASSUME NEW kind \in {"openai", "anthropic"}, NEW style \in Styles,
         NEW message \in Seq(PartKinds)
  PROVE  \E f \in Seq(Body(kind)) :
           Script(kind, style, message) = Append(f, End(kind))
<1>1. CASE kind = "openai"
  <2> DEFINE e == ChatEvents(style, message)
             first == ChatEvent([NoDelta EXCEPT !.role = TRUE])
             last == ChatEvent(NoDelta)
             f == <<first>> \o e \o <<last>>
  <2>1. e \in Seq(ChatEventSet)
    BY ChatEventsType
  <2>2. first \in ChatEventSet /\ last \in ChatEventSet
    BY DeltaType DEF ChatEvent, ChatEventSet
  <2>3. Script(kind, style, message)
          = <<first>> \o e \o <<last, Event("[DONE]")>>
    BY <1>1 DEF Script, ChatScript
  <2> HIDE DEF e, first, last
  <2>4. f \in Seq(ChatEventSet)
    BY <2>1, <2>2
  <2>5. <<first>> \o e \o <<last, Event("[DONE]")>>
          = Append(f, Event("[DONE]"))
    <3> DEFINE u == <<first>> \o e
               d == Event("[DONE]")
               S == ChatEventSet \cup {d}
    <3>1. u \in Seq(S) /\ last \in S /\ d \in S
      BY <2>1, <2>2
    <3> HIDE DEF u, d, S
    <3>2. u \o <<last, d>> = Append(u \o <<last>>, d)
      BY <3>1
    <3>3. QED
      BY <3>2 DEF u, d
  <2>6. QED
    BY <1>1, <2>3, <2>4, <2>5 DEF Body, End
<1>2. CASE kind = "anthropic"
  <2> DEFINE e == Flat([i \in DOMAIN message |-> Block(message, i)])
             first == Event("message_start")
             last == Event("message_delta")
             B == Body(kind)
             f == <<first>> \o e \o <<last>>
  <2>1. /\ BlockEventSet \subseteq B /\ first \in B /\ last \in B
        /\ e \in Seq(BlockEventSet)
    BY <1>2, BlocksType DEF Body
  <2>2. Script(kind, style, message)
          = <<first>> \o e \o <<last, Event("message_stop")>>
    BY <1>2 DEF Script, MessagesScript
  <2> HIDE DEF e, first, last, B
  <2>3. e \in Seq(B)
    BY <2>1
  <2>4. f \in Seq(B)
    BY <2>1, <2>3
  <2>5. <<first>> \o e \o <<last, Event("message_stop")>>
          = Append(f, Event("message_stop"))
    <3> DEFINE u == <<first>> \o e
               d == Event("message_stop")
               S == B \cup {d}
    <3>1. u \in Seq(S) /\ last \in S /\ d \in S
      BY <2>1, <2>3
    <3> HIDE DEF u, d, S
    <3>2. u \o <<last, d>> = Append(u \o <<last>>, d)
      BY <3>1
    <3>3. QED
      BY <3>2 DEF u, d
  <2>6. QED
    BY <1>2, <2>2, <2>4, <2>5 DEF End, B
<1>3. QED
  BY <1>1, <1>2

\* What the goroutines know of a script: one end, at its end, and no failure.
LEMMA ScriptFacts ==
  ASSUME NEW kind \in {"openai", "anthropic"}, NEW style \in Styles,
         NEW message \in Seq(PartKinds), NEW s,
         s = Script(kind, style, message)
  PROVE  /\ Len(s) \in Nat \ {0} /\ s[Len(s)] = End(kind)
         /\ s \in Seq(ProviderEvents)
         /\ \A i \in 1..(Len(s) - 1) : s[i] \in Body(kind)
<1>1. PICK f \in Seq(Body(kind)) : s = Append(f, End(kind))
  BY ScriptShape
<1>2. Body(kind) \subseteq ProviderEvents /\ End(kind) \in ProviderEvents
  BY DEF Body, End, ProviderEvents
<1>3. s \in Seq(ProviderEvents)
  BY <1>1, <1>2
<1>4. QED
  BY <1>1, <1>3

\* Nothing but the end ends a response, and nothing of it fails.
LEMMA BodyTypes ==
  ASSUME NEW kind \in {"openai", "anthropic"}, NEW e \in Body(kind)
  PROVE  /\ e.type \notin Terminators \cup Failures
         /\ kind = "openai" => e.type = "chunk" /\ DeltaOf(e) = e.delta
         /\ kind = "anthropic" =>
              /\ e.type # "chunk" /\ DeltaOf(e) = MessagesDelta(e)
              /\ e.type \in {"message_start", "content_block_start",
                             "content_block_delta", "message_delta"}
BY DEF Body, ChatEventSet, BlockEventSet, Event, Terminators, Failures,
       DeltaOf

\* An event that brings nothing leaves the builder as it is.
LEMMA NothingAbsorbed ==
  ASSUME NEW b, NEW e,
         e.type \in {"message_start", "message_delta", "message_stop",
                     "[DONE]"}
  PROVE  Absorb(b, e) = b /\ DeltaOf(e) = NoDelta
<1>1. DeltaOf(e) = NoDelta
  BY DEF DeltaOf, MessagesDelta
<1>2. IsEmpty(NoDelta)
  BY DEF IsEmpty, NoDelta
<1>3. QED
  BY <1>1, <1>2 DEF Absorb

\* One event more of a script.
LEMMA AbsorbedSteps ==
  ASSUME NEW s \in Seq(ProviderEvents)
  PROVE  /\ Absorbed(SubSeq(s, 1, 0)) = EmptyBuilder
         /\ \A n \in 1..Len(s) :
              Absorbed(SubSeq(s, 1, n))
                = Absorb(Absorbed(SubSeq(s, 1, n - 1)), s[n])
         /\ SubSeq(s, 1, Len(s)) = s
<1>1. SubSeq(s, 1, 0) = <<>> /\ SubSeq(s, 1, Len(s)) = s
  OBVIOUS
<1>2. Absorbed(<<>>) = EmptyBuilder
  <2>1. Absorbing!Fold(EmptyBuilder, <<>>) = EmptyBuilder
    BY Absorbing!FoldEmpty
  <2>2. QED
    BY <2>1, SameFolds DEF Absorbed
<1>3. ASSUME NEW n \in 1..Len(s)
      PROVE Absorbed(SubSeq(s, 1, n))
              = Absorb(Absorbed(SubSeq(s, 1, n - 1)), s[n])
  <2> DEFINE u == SubSeq(s, 1, n - 1)
  <2>1. u \in Seq(ProviderEvents) /\ s[n] \in ProviderEvents
        /\ SubSeq(s, 1, n) = Append(u, s[n])
    OBVIOUS
  <2> HIDE DEF u
  <2>2. Absorbing!Fold(EmptyBuilder, Append(u, s[n]))
          = Absorb(Absorbing!Fold(EmptyBuilder, u), s[n])
    BY <2>1, Absorbing!FoldAppend
  <2>3. Absorbed(Append(u, s[n])) = Absorb(Absorbed(u), s[n])
    BY <2>2, SameFolds DEF Absorbed
  <2>4. QED
    BY <2>1, <2>3 DEF u
<1>4. QED
  BY <1>1, <1>2, <1>3

-----------------------------------------------------------------------------
(* The builder.                                                            *)

Indices == UNION {[d -> Nat] : d \in SUBSET Nat}
Builders == [role : BOOLEAN, thinking : Seq(Pieces), text : Seq(Pieces),
             calls : Seq(CallSet), byIndex : Indices]

\* Both have the same content.
Says(b, m) ==
  b \in Builders /\ b.thinking = m.thinking /\ b.text = m.text
    /\ b.calls = m.calls

\* Calls one of which has got more arguments.
Grow(cs, at, more) == [cs EXCEPT ![at].args = @ \o more]

\* An empty builder.
LEMMA EmptyType == EmptyBuilder \in Builders
<1>1. <<>> \in [{} -> Nat] /\ {} \in SUBSET Nat
  OBVIOUS
<1>2. <<>> \in Indices
  BY <1>1 DEF Indices
<1>3. <<>> \in Seq(Pieces) /\ <<>> \in Seq(CallSet)
  OBVIOUS
<1>4. QED
  BY <1>2, <1>3 DEF EmptyBuilder, Builders

\* A fragment goes to its place.
LEMMA MergeAt ==
  ASSUME NEW b \in Builders, NEW f \in Fragments,
         Place(b, f) \in 1..(Len(b.calls) + 1)
  PROVE  LET at == Place(b, f)
             c == MergeCall(b, f)
         IN
         /\ c \in Builders
         /\ c.thinking = b.thinking /\ c.text = b.text
         /\ at = Len(b.calls) + 1 =>
              c.calls = Append(b.calls, [id |-> f.id, args |-> f.args])
         /\ at <= Len(b.calls) =>
              c.calls = Grow(b.calls, at, f.args)
         /\ DOMAIN c.byIndex = DOMAIN b.byIndex \cup {f.index}
         /\ c.byIndex[f.index] = at
         /\ \A j \in DOMAIN b.byIndex \ {f.index} : c.byIndex[j] = b.byIndex[j]
<1> SUFFICES ASSUME NEW at, at = Place(b, f),
                    NEW c, c = MergeCall(b, f)
             PROVE
         /\ c \in Builders
         /\ c.thinking = b.thinking /\ c.text = b.text
         /\ at = Len(b.calls) + 1 =>
              c.calls = Append(b.calls, [id |-> f.id, args |-> f.args])
         /\ at <= Len(b.calls) =>
              c.calls = Grow(b.calls, at, f.args)
         /\ DOMAIN c.byIndex = DOMAIN b.byIndex \cup {f.index}
         /\ c.byIndex[f.index] = at
         /\ \A j \in DOMAIN b.byIndex \ {f.index} : c.byIndex[j] = b.byIndex[j]
  BY Zenon
<1> DEFINE calls == IF at \in DOMAIN b.calls
                    THEN [b.calls EXCEPT ![at].args = @ \o f.args]
                    ELSE Append(b.calls, [id |-> f.id, args |-> f.args])
           index == [i \in DOMAIN b.byIndex \cup {f.index} |->
                       IF i = f.index THEN at ELSE b.byIndex[i]]
<1>1. c = [b EXCEPT !.calls = calls, !.byIndex = index]
  BY Zenon DEF MergeCall
<1>2. /\ b.calls \in Seq(CallSet) /\ b.byIndex \in Indices
      /\ Len(b.calls) \in Nat /\ DOMAIN b.calls = 1..Len(b.calls)
  BY DEF Builders
<1>3. f.index \in Nat /\ f.id \in Nat /\ f.args \in Seq(Pieces) /\ at \in Nat
  BY <1>2 DEF Fragments
<1>4. calls \in Seq(CallSet)
  <2>1. CASE at = Len(b.calls) + 1
    <3>1. calls = Append(b.calls, [id |-> f.id, args |-> f.args])
      BY <1>2, <2>1
    <3>2. [id |-> f.id, args |-> f.args] \in CallSet
      BY <1>3 DEF CallSet
    <3>3. QED
      BY <1>2, <3>1, <3>2
  <2>2. CASE at <= Len(b.calls)
    <3>1. at \in DOMAIN b.calls /\ b.calls[at] \in CallSet
      BY <1>2, <2>2
    <3>2. [b.calls[at] EXCEPT !.args = @ \o f.args] \in CallSet
      <4> DEFINE d == b.calls[at]
      <4>1. d \in CallSet
        BY <3>1
      <4> HIDE DEF d
      <4>2. d.args \o f.args \in Seq(Pieces)
        BY <1>3, <4>1 DEF CallSet
      <4>3. [d EXCEPT !.args = d.args \o f.args] \in CallSet
        BY <4>1, <4>2 DEF CallSet
      <4>4. QED
        BY <4>3 DEF d
    <3>3. calls = [b.calls EXCEPT
                     ![at] = [b.calls[at] EXCEPT !.args = @ \o f.args]]
      BY <3>1
    <3> DEFINE d == [b.calls[at] EXCEPT !.args = @ \o f.args]
    <3> HIDE DEF d, calls
    <3>4. QED
      BY <1>2, <3>1, <3>2, <3>3 DEF d
  <2>3. at = Len(b.calls) + 1 \/ at <= Len(b.calls)
    BY <1>2
  <2>4. QED
    BY <2>1, <2>2, <2>3
<1>5. index \in Indices
  <2>1. PICK d \in SUBSET Nat : b.byIndex \in [d -> Nat]
    BY <1>2 DEF Indices
  <2>2. DOMAIN b.byIndex = d /\ d \cup {f.index} \in SUBSET Nat
    BY <1>3, <2>1
  <2>3. index \in [d \cup {f.index} -> Nat]
    BY <1>3, <2>1, <2>2
  <2>4. QED
    BY <2>2, <2>3 DEF Indices
<1>6. c \in Builders /\ c.calls = calls /\ c.byIndex = index
      /\ c.thinking = b.thinking /\ c.text = b.text
  <2> HIDE DEF calls, index
  <2>1. QED
    BY <1>1, <1>4, <1>5 DEF Builders
<1>7. QED
  BY <1>2, <1>6 DEF Grow

\* The first fragment of a call opens it.
LEMMA OpensCall ==
  ASSUME NEW b \in Builders, NEW f \in Fragments,
         f.id # NoId, \A k \in 1..Len(b.calls) : b.calls[k].id # f.id
  PROVE  Place(b, f) = Len(b.calls) + 1
         /\ Place(b, f) \in 1..(Len(b.calls) + 1)
<1>1. b.calls \in Seq(CallSet)
  BY DEF Builders
<1>2. {i \in DOMAIN b.calls : b.calls[i].id = f.id} = {}
  BY <1>1
<1>3. QED
  BY <1>1, <1>2 DEF Place

\* A fragment without an id goes by its index.
LEMMA ByIndex ==
  ASSUME NEW b \in Builders, NEW f \in Fragments,
         f.id = NoId, f.index \in DOMAIN b.byIndex
  PROVE  Place(b, f) = b.byIndex[f.index]
BY DEF Place

\* A fragment with the id of one call goes by its id.
LEMMA ById ==
  ASSUME NEW b \in Builders, NEW f \in Fragments,
         NEW at \in 1..Len(b.calls), f.id # NoId,
         \A k \in 1..Len(b.calls) : b.calls[k].id = f.id <=> k = at
  PROVE  Place(b, f) = at
<1>1. b.calls \in Seq(CallSet)
  BY DEF Builders
<1>2. {i \in DOMAIN b.calls : b.calls[i].id = f.id} = {at}
  BY <1>1
<1>3. QED
  BY <1>1, <1>2 DEF Place

\* A builder that got some text.
Grown(d, b, kind, s) ==
  /\ d \in Builders /\ d.calls = b.calls /\ d.byIndex = b.byIndex
  /\ kind = "thinking" => d.thinking = b.thinking \o s /\ d.text = b.text
  /\ kind = "text" => d.thinking = b.thinking /\ d.text = b.text \o s

\* An event of a chunk with text.
LEMMA AbsorbsPiece ==
  ASSUME NEW b \in Builders, NEW e, NEW piece \in Pieces,
         NEW kind \in {"thinking", "text"}, DeltaOf(e) = Delta(kind, piece)
  PROVE  Grown(Absorb(b, e), b, kind, <<piece>>)
<1> DEFINE c == Absorb(b, e)
           d == Delta(kind, piece)
           base == [b EXCEPT !.role = TRUE, !.thinking = @ \o d.thinking,
                             !.text = @ \o d.text]
<1>1. /\ d.calls = <<>>
      /\ d.thinking = IF kind = "thinking" THEN <<piece>> ELSE <<>>
      /\ d.text = IF kind = "text" THEN <<piece>> ELSE <<>>
  BY DEF Delta, NoDelta
<1>2. <<piece>> # <<>>
  OBVIOUS
<1>3. ~IsEmpty(d)
  BY <1>1, <1>2 DEF IsEmpty
<1>4. c = FoldLeft(MergeCall, base, d.calls)
  BY <1>3 DEF Absorb, Update
<1>5. FoldLeft(MergeCall, base, <<>>) = base
  BY Merging!FoldEmpty, SameFolds
<1>6. c = base
  BY <1>1, <1>4, <1>5
<1>7. /\ b.thinking \in Seq(Pieces) /\ b.text \in Seq(Pieces)
      /\ b.thinking \o <<>> = b.thinking /\ b.text \o <<>> = b.text
      /\ b.thinking \o <<piece>> \in Seq(Pieces)
      /\ b.text \o <<piece>> \in Seq(Pieces)
  BY DEF Builders
<1>8. /\ base.thinking = b.thinking \o d.thinking
      /\ base.text = b.text \o d.text
      /\ base.calls = b.calls /\ base.byIndex = b.byIndex
  BY DEF Builders
<1>9. b.thinking \o d.thinking \in Seq(Pieces)
  BY <1>1, <1>7
<1>10. b.text \o d.text \in Seq(Pieces)
  BY <1>1, <1>7
<1>11. base \in Builders
  BY <1>9, <1>10 DEF Builders
<1> HIDE DEF base, c
<1>12. Grown(c, b, kind, <<piece>>)
  BY <1>1, <1>6, <1>7, <1>8, <1>11 DEF Grown
<1>13. QED
  BY <1>12 DEF c

\* An event of a chunk with fragments of calls.
LEMMA AbsorbsFragments ==
  ASSUME NEW b \in Builders, NEW e, NEW fs \in Seq(Fragments), fs # <<>>,
         DeltaOf(e) = CallDelta(fs)
  PROVE  \E base \in Builders :
           /\ base.thinking = b.thinking /\ base.text = b.text
           /\ base.calls = b.calls /\ base.byIndex = b.byIndex
           /\ Absorb(b, e) = Merging!Fold(base, fs)
<1> DEFINE d == CallDelta(fs)
           base == [b EXCEPT !.role = TRUE, !.thinking = @ \o d.thinking,
                             !.text = @ \o d.text]
<1>1. d.calls = fs /\ d.thinking = <<>> /\ d.text = <<>>
  BY DEF CallDelta, NoDelta
<1>2. ~IsEmpty(d)
  BY <1>1 DEF IsEmpty
<1>3. Absorb(b, e) = FoldLeft(MergeCall, base, d.calls)
  BY <1>2 DEF Absorb, Update
<1>4. Absorb(b, e) = Merging!Fold(base, fs)
  BY <1>1, <1>3, SameFolds
<1>5. /\ b.thinking \in Seq(Pieces) /\ b.text \in Seq(Pieces)
      /\ b.thinking \o <<>> = b.thinking /\ b.text \o <<>> = b.text
  BY DEF Builders
<1>6. /\ base.thinking = b.thinking \o d.thinking
      /\ base.text = b.text \o d.text
      /\ base.calls = b.calls /\ base.byIndex = b.byIndex
  BY DEF Builders
<1>7. b.thinking \o d.thinking = b.thinking /\ b.text \o d.text = b.text
  BY <1>1, <1>5
<1>8. base \in Builders
  BY <1>5, <1>7 DEF Builders
<1> HIDE DEF base
<1>9. QED
  BY <1>4, <1>6, <1>7, <1>8

\* An event of a chunk with one fragment.
LEMMA AbsorbsFragment ==
  ASSUME NEW b \in Builders, NEW e, NEW f \in Fragments,
         DeltaOf(e) = CallDelta(<<f>>)
  PROVE  \E base \in Builders :
           /\ base.thinking = b.thinking /\ base.text = b.text
           /\ base.calls = b.calls /\ base.byIndex = b.byIndex
           /\ Absorb(b, e) = MergeCall(base, f)
<1> DEFINE fs == <<f>>
<1>1. fs \in Seq(Fragments) /\ fs # <<>> /\ fs = Append(<<>>, f)
      /\ <<>> \in Seq(Fragments)
  OBVIOUS
<1> HIDE DEF fs
<1>2. PICK base \in Builders :
        /\ base.thinking = b.thinking /\ base.text = b.text
        /\ base.calls = b.calls /\ base.byIndex = b.byIndex
        /\ Absorb(b, e) = Merging!Fold(base, fs)
  <2>1. DeltaOf(e) = CallDelta(fs)
    BY DEF fs
  <2>2. QED
    BY <1>1, <2>1, AbsorbsFragments
<1>3. Merging!Fold(base, Append(<<>>, f))
        = MergeCall(Merging!Fold(base, <<>>), f)
  BY <1>1, Merging!FoldAppend
<1>4. Merging!Fold(base, <<>>) = base
  BY Merging!FoldEmpty
<1>5. QED
  BY <1>1, <1>2, <1>3, <1>4

\* A fragment that opens a call.
LEMMA MergesNew ==
  ASSUME NEW b \in Builders, NEW f \in Fragments,
         f.id # NoId, \A k \in 1..Len(b.calls) : b.calls[k].id # f.id
  PROVE  LET c == MergeCall(b, f)
         IN  /\ c \in Builders /\ c.thinking = b.thinking /\ c.text = b.text
             /\ c.calls = Append(b.calls, [id |-> f.id, args |-> f.args])
             /\ DOMAIN c.byIndex = DOMAIN b.byIndex \cup {f.index}
             /\ c.byIndex[f.index] = Len(b.calls) + 1
             /\ \A j \in DOMAIN b.byIndex \ {f.index} :
                  c.byIndex[j] = b.byIndex[j]
<1>1. Place(b, f) = Len(b.calls) + 1 /\ Place(b, f) \in 1..(Len(b.calls) + 1)
  BY OpensCall
<1>2. QED
  BY <1>1, MergeAt

\* A fragment of a call that is open.
LEMMA MergesMore ==
  ASSUME NEW b \in Builders, NEW f \in Fragments,
         Place(b, f) \in 1..Len(b.calls)
  PROVE  LET c == MergeCall(b, f)
             at == Place(b, f)
         IN  /\ c \in Builders /\ c.thinking = b.thinking /\ c.text = b.text
             /\ c.calls = Grow(b.calls, at, f.args)
             /\ DOMAIN c.byIndex = DOMAIN b.byIndex \cup {f.index}
             /\ c.byIndex[f.index] = at
             /\ \A j \in DOMAIN b.byIndex \ {f.index} :
                  c.byIndex[j] = b.byIndex[j]
<1>1. Len(b.calls) \in Nat
  BY DEF Builders
<1>2. Place(b, f) \in 1..(Len(b.calls) + 1) /\ Place(b, f) <= Len(b.calls)
  BY <1>1
<1>3. QED
  BY <1>2, MergeAt

-----------------------------------------------------------------------------
(* The parts of a message.                                                 *)

\* Sequences of pieces are joined in any order.
LEMMA JoinAssociative ==
  ASSUME NEW u \in Seq(Pieces), NEW s \in Seq(Pieces), NEW t \in Seq(Pieces)
  PROVE  (u \o s) \o t = u \o (s \o t)
<1>1. (u \o s) \o t \in Seq(Pieces) /\ u \o (s \o t) \in Seq(Pieces)
  OBVIOUS
<1>2. Len((u \o s) \o t) = Len(u \o (s \o t))
  OBVIOUS
<1>3. \A i \in 1..Len((u \o s) \o t) : ((u \o s) \o t)[i] = (u \o (s \o t))[i]
  OBVIOUS
<1>4. QED
  BY <1>1, <1>2, <1>3, SeqEqual

\* No text, and more text.
LEMMA Grows ==
  ASSUME NEW b \in Builders, NEW kind \in {"thinking", "text"}
  PROVE  /\ Grown(b, b, kind, <<>>)
         /\ \A s \in Seq(Pieces), t \in Seq(Pieces) : \A c, d :
              Grown(c, b, kind, s) /\ Grown(d, c, kind, t)
                => Grown(d, b, kind, s \o t)
<1>1. b.thinking \in Seq(Pieces) /\ b.text \in Seq(Pieces)
  BY DEF Builders
<1>2. b.thinking \o <<>> = b.thinking /\ b.text \o <<>> = b.text
  BY <1>1
<1>3. Grown(b, b, kind, <<>>)
  BY <1>2 DEF Grown
<1>4. ASSUME NEW s \in Seq(Pieces), NEW t \in Seq(Pieces), NEW c, NEW d,
             Grown(c, b, kind, s), Grown(d, c, kind, t)
      PROVE  Grown(d, b, kind, s \o t)
  <2>1. /\ (b.thinking \o s) \o t = b.thinking \o (s \o t)
        /\ (b.text \o s) \o t = b.text \o (s \o t)
    <3>1. (b.thinking \o s) \o t = b.thinking \o (s \o t)
      BY <1>1, JoinAssociative
    <3>2. (b.text \o s) \o t = b.text \o (s \o t)
      BY <1>1, JoinAssociative
    <3>3. QED
      BY <3>1, <3>2
  <2>2. CASE kind = "thinking"
    BY <1>4, <2>1, <2>2 DEF Grown
  <2>3. CASE kind = "text"
    BY <1>4, <2>1, <2>3 DEF Grown
  <2>4. QED
    BY <2>2, <2>3
<1>5. QED
  BY <1>3, <1>4

\* The pieces of a part that is no call.
LEMMA PiecesAbsorbed ==
  ASSUME NEW S, NEW es \in Seq(S), NEW pieces \in Seq(Pieces),
         Len(es) = Len(pieces), NEW kind \in {"thinking", "text"},
         \A n \in 1..Len(es) : DeltaOf(es[n]) = Delta(kind, pieces[n]),
         NEW b \in Builders
  PROVE  Grown(Absorbing!Fold(b, es), b, kind, pieces)
<1> DEFINE So(n) == SubSeq(pieces, 1, n)
           I == [n \in 0..Len(es) |->
                   {d \in Builders : Grown(d, b, kind, So(n))}]
<1>1. Len(es) \in Nat /\ So(0) = <<>> /\ So(Len(es)) = pieces
  OBVIOUS
<1>2. b \in I[0]
  <2>1. Grown(b, b, kind, So(0))
    BY <1>1, Grows
  <2>2. 0 \in 0..Len(es)
    BY <1>1
  <2> HIDE DEF So
  <2>3. QED
    BY <2>1, <2>2
<1>3. ASSUME NEW n \in 0..(Len(es) - 1), NEW d \in I[n]
      PROVE  Absorb(d, es[n + 1]) \in I[n + 1]
  <2> DEFINE p == pieces[n + 1]
             c == Absorb(d, es[n + 1])
             s == So(n)
  <2>1. /\ n + 1 \in 1..Len(es) /\ n \in 0..Len(es) /\ n + 1 \in 0..Len(es)
        /\ p \in Pieces
    BY <1>1
  <2>8. s \in Seq(Pieces) /\ <<p>> \in Seq(Pieces)
    BY <1>1, <2>1
  <2>9. So(n + 1) = s \o <<p>>
    BY <1>1, <2>1
  <2>2. d \in Builders /\ Grown(d, b, kind, s)
    BY <2>1
  <2>3. DeltaOf(es[n + 1]) = Delta(kind, p)
    BY <2>1
  <2> HIDE DEF p, I, s
  <2>4. Grown(c, d, kind, <<p>>)
    BY <2>1, <2>2, <2>3, AbsorbsPiece
  <2> HIDE DEF c
  <2>5. Grown(c, b, kind, So(n + 1))
    BY <2>1, <2>2, <2>4, <2>8, <2>9, Grows
  <2>6. c \in I[n + 1]
    BY <2>1, <2>5 DEF I, Grown
  <2>7. QED
    BY <2>6 DEF c
<1>4. Absorbing!Fold(b, es) \in I[Len(es)]
  <2> HIDE DEF I
  <2>1. QED
    BY <1>2, <1>3, Absorbing!FoldInvariant
<1>5. Len(es) \in 0..Len(es)
  BY <1>1
<1>6. QED
  <2> HIDE DEF So
  <2>1. QED
    BY <1>1, <1>4, <1>5

\* The last of some calls gets more arguments.
LEMMA LastGrows ==
  ASSUME NEW cs \in Seq(CallSet), NEW id \in Nat, NEW args \in Seq(Pieces),
         NEW more \in Seq(Pieces)
  PROVE  Grow(Append(cs, [id |-> id, args |-> args]), Len(cs) + 1, more)
           = Append(cs, [id |-> id, args |-> args \o more])
<1> DEFINE r == [id |-> id, args |-> args]
           q == [id |-> id, args |-> args \o more]
           s == Append(cs, r)
           t == [s EXCEPT ![Len(cs) + 1] = [r EXCEPT !.args = args \o more]]
<1>1. r \in CallSet /\ q \in CallSet
  <2>1. args \o more \in Seq(Pieces)
    OBVIOUS
  <2>2. QED
    BY <2>1 DEF CallSet
<1>2. [r EXCEPT !.args = args \o more] = q /\ r.args = args
  <2> DEFINE v == args \o more
  <2> HIDE DEF v
  <2>1. [[id |-> id, args |-> args] EXCEPT !.args = v]
          = [id |-> id, args |-> v]
    OBVIOUS
  <2>2. QED
    BY <2>1 DEF v
<1> HIDE DEF r, q
<1>3. s[Len(cs) + 1] = r
  BY <1>1
<1>4. [s EXCEPT ![Len(cs) + 1].args = @ \o more] = t
  BY <1>2, <1>3
<1>5. t = Append(cs, q)
  <2>1. t = [s EXCEPT ![Len(cs) + 1] = q]
    BY <1>2
  <2>2. [s EXCEPT ![Len(cs) + 1] = q] = Append(cs, q)
    <3> DEFINE u == [s EXCEPT ![Len(cs) + 1] = q]
    <3>1. u \in Seq(CallSet) /\ Append(cs, q) \in Seq(CallSet)
          /\ Len(u) = Len(Append(cs, q))
      BY <1>1
    <3>2. ASSUME NEW i \in 1..Len(u) PROVE u[i] = Append(cs, q)[i]
      <4>1. Len(u) = Len(cs) + 1 /\ Len(cs) \in Nat
        BY <1>1
      <4>2. CASE i = Len(cs) + 1
        BY <1>1, <4>1, <4>2
      <4>3. CASE i <= Len(cs)
        <5>1. i \in 1..Len(cs) /\ i # Len(cs) + 1
          BY <4>1, <4>3
        <5>2. s[i] = cs[i]
          BY <1>1, <5>1
        <5>3. Append(cs, q)[i] = cs[i]
          BY <1>1, <5>1
        <5>4. u[i] = s[i]
          <6> HIDE DEF s
          <6>1. QED
            BY <5>1
        <5>5. QED
          BY <5>2, <5>3, <5>4
      <4>4. QED
        BY <4>1, <4>2, <4>3
    <3> HIDE DEF u
    <3>3. u = Append(cs, q)
      BY <3>1, <3>2, SeqEqual
    <3>4. QED
      BY <3>3 DEF u
  <2>3. QED
    BY <2>1, <2>2
<1>6. QED
  BY <1>4, <1>5 DEF r, q, Grow

\* A builder with one call more than another, whose index is known.
Opened(d, b, id, args, index) ==
  /\ d \in Builders /\ d.thinking = b.thinking /\ d.text = b.text
  /\ d.calls = Append(b.calls, [id |-> id, args |-> args])
  /\ index \in DOMAIN d.byIndex /\ d.byIndex[index] = Len(b.calls) + 1

\* The first fragment of a call.
LEMMA FragmentOpens ==
  ASSUME NEW b \in Builders, NEW e, NEW f \in Fragments,
         DeltaOf(e) = CallDelta(<<f>>), f.id # NoId,
         \A k \in 1..Len(b.calls) : b.calls[k].id # f.id
  PROVE  /\ Opened(Absorb(b, e), b, f.id, f.args, f.index)
         /\ LET c == Absorb(b, e)
            IN  /\ DOMAIN c.byIndex = DOMAIN b.byIndex \cup {f.index}
                /\ \A j \in DOMAIN b.byIndex \ {f.index} :
                     c.byIndex[j] = b.byIndex[j]
<1>1. PICK base \in Builders :
        /\ base.thinking = b.thinking /\ base.text = b.text
        /\ base.calls = b.calls /\ base.byIndex = b.byIndex
        /\ Absorb(b, e) = MergeCall(base, f)
  BY AbsorbsFragment
<1> DEFINE c == MergeCall(base, f)
<1>2. \A k \in 1..Len(base.calls) : base.calls[k].id # f.id
  BY <1>1
<1>3. /\ c \in Builders /\ c.thinking = base.thinking /\ c.text = base.text
      /\ c.calls = Append(base.calls, [id |-> f.id, args |-> f.args])
      /\ DOMAIN c.byIndex = DOMAIN base.byIndex \cup {f.index}
      /\ c.byIndex[f.index] = Len(base.calls) + 1
      /\ \A j \in DOMAIN base.byIndex \ {f.index} :
           c.byIndex[j] = base.byIndex[j]
  BY <1>2, MergesNew
<1> HIDE DEF c
<1>4. Opened(c, b, f.id, f.args, f.index)
  BY <1>1, <1>3 DEF Opened
<1>5. /\ DOMAIN c.byIndex = DOMAIN b.byIndex \cup {f.index}
      /\ \A j \in DOMAIN b.byIndex \ {f.index} : c.byIndex[j] = b.byIndex[j]
  BY <1>1, <1>3
<1>6. Absorb(b, e) = c
  BY <1>1 DEF c
<1>7. QED
  BY <1>4, <1>5, <1>6

\* A later fragment of it.
LEMMA FragmentFollows ==
  ASSUME NEW b \in Builders, NEW d, NEW e, NEW f \in Fragments,
         DeltaOf(e) = CallDelta(<<f>>), NEW id \in Nat, id # NoId,
         f.id \in {NoId, id}, NEW args \in Seq(Pieces),
         \A k \in 1..Len(b.calls) : b.calls[k].id # id,
         Opened(d, b, id, args, f.index)
  PROVE  Opened(Absorb(d, e), b, id, args \o f.args, f.index)
<1>1. PICK base \in Builders :
        /\ base.thinking = d.thinking /\ base.text = d.text
        /\ base.calls = d.calls /\ base.byIndex = d.byIndex
        /\ Absorb(d, e) = MergeCall(base, f)
  BY AbsorbsFragment DEF Opened
<1> DEFINE at == Len(b.calls) + 1
           r == [id |-> id, args |-> args]
<1>2. /\ b.calls \in Seq(CallSet) /\ r \in CallSet /\ r.id = id
      /\ base.calls = Append(b.calls, r)
  BY <1>1 DEF Builders, CallSet, Opened
<1>3. /\ at \in 1..Len(base.calls) /\ Len(base.calls) = at
  BY <1>2
<1>4. Place(base, f) = at
  <2>1. CASE f.id = NoId
    <3>1. f.index \in DOMAIN base.byIndex /\ base.byIndex[f.index] = at
      BY <1>1 DEF Opened
    <3>2. QED
      BY <2>1, <3>1, ByIndex
  <2>2. CASE f.id # NoId
    <3>1. ASSUME NEW k \in 1..Len(base.calls)
          PROVE  base.calls[k].id = f.id <=> k = at
      <4>1. CASE k = at
        BY <1>2, <1>3, <2>2, <4>1
      <4>2. CASE k # at
        <5>1. k \in 1..Len(b.calls)
          BY <1>2, <1>3, <4>2
        <5>2. base.calls[k] = b.calls[k]
          BY <1>2, <5>1
        <5>3. QED
          BY <2>2, <4>2, <5>1, <5>2
      <4>3. QED
        BY <4>1, <4>2
    <3> HIDE DEF at
    <3>2. QED
      BY <1>3, <2>2, <3>1, ById
  <2>3. QED
    BY <2>1, <2>2
<1> DEFINE c == MergeCall(base, f)
<1>5. Place(base, f) \in 1..Len(base.calls) /\ at = Place(base, f)
  BY <1>3, <1>4
<1> HIDE DEF at
<1>6. c \in Builders /\ c.thinking = base.thinking /\ c.text = base.text
  BY <1>5, MergesMore
<1>7. c.calls = Grow(base.calls, at, f.args)
  BY <1>5, MergesMore
<1>8. f.index \in DOMAIN c.byIndex /\ c.byIndex[f.index] = at
  BY <1>5, MergesMore
<1>9. c.calls = Append(b.calls, [id |-> id, args |-> args \o f.args])
  <2>1. f.args \in Seq(Pieces)
    BY DEF Fragments
  <2>2. QED
    <3>1. b.calls \in Seq(CallSet)
      BY <1>2
    <3>2. Grow(Append(b.calls, [id |-> id, args |-> args]), Len(b.calls) + 1,
               f.args)
            = Append(b.calls, [id |-> id, args |-> args \o f.args])
      BY <2>1, <3>1, LastGrows
    <3>3. QED
      BY <1>2, <1>7, <3>2 DEF at, r
<1>10. c.thinking = b.thinking /\ c.text = b.text
  BY <1>1, <1>6 DEF Opened
<1> HIDE DEF c
<1>11. Opened(c, b, id, args \o f.args, f.index)
  BY <1>6, <1>8, <1>9, <1>10 DEF Opened, at
<1>12. QED
  BY <1>1, <1>11 DEF c

\* The fragments of one call that come one after another.
LEMMA CallAbsorbed ==
  ASSUME NEW S, NEW es \in Seq(S), NEW fs \in Seq(Fragments),
         Len(es) = Len(fs), Len(es) > 0,
         \A n \in 1..Len(es) : DeltaOf(es[n]) = CallDelta(<<fs[n]>>),
         NEW id \in Nat, id # NoId, fs[1].id = id, NEW index,
         \A n \in 1..Len(es) : fs[n].index = index /\ fs[n].id \in {NoId, id},
         NEW A, A[1] = fs[1].args, \A n \in 1..Len(es) : A[n] \in Seq(Pieces),
         \A n \in 1..(Len(es) - 1) : A[n + 1] = A[n] \o fs[n + 1].args,
         NEW b \in Builders, \A k \in 1..Len(b.calls) : b.calls[k].id # id
  PROVE  Opened(Absorbing!Fold(b, es), b, id, A[Len(es)], index)
<1> DEFINE I == [n \in 0..Len(es) |->
                   IF n = 0 THEN {b}
                   ELSE {d \in Builders : Opened(d, b, id, A[n], index)}]
<1>1. Len(es) \in Nat /\ 0 \in 0..Len(es) /\ Len(es) \in 0..Len(es)
      /\ Len(es) # 0
  OBVIOUS
<1>2. b \in I[0]
  BY <1>1
<1>3. ASSUME NEW n \in 0..(Len(es) - 1), NEW d \in I[n]
      PROVE  Absorb(d, es[n + 1]) \in I[n + 1]
  <2> DEFINE f == fs[n + 1]
             c == Absorb(d, es[n + 1])
  <2>1. /\ n + 1 \in 1..Len(es) /\ n + 1 \in 0..Len(es) /\ n \in 0..Len(es)
        /\ n + 1 # 0
    BY <1>1
  <2>2. f \in Fragments /\ f.index = index /\ f.id \in {NoId, id}
        /\ DeltaOf(es[n + 1]) = CallDelta(<<f>>)
    BY <2>1
  <2>3. CASE n = 0
    <3>1. d = b
      BY <2>1, <2>3
    <3>2. f.id = id /\ f.args = A[n + 1]
      BY <2>3
    <3> HIDE DEF f, I
    <3>3. Opened(c, b, id, A[n + 1], index)
      BY <2>2, <3>1, <3>2, FragmentOpens
    <3> HIDE DEF c
    <3>4. c \in I[n + 1]
      BY <2>1, <3>3 DEF I, Opened
    <3>5. QED
      BY <3>4 DEF c
  <2>4. CASE n # 0
    <3>1. d \in Builders /\ Opened(d, b, id, A[n], index)
      BY <2>1, <2>4
    <3>2. A[n] \in Seq(Pieces) /\ A[n + 1] = A[n] \o f.args
      <4>1. n \in 1..Len(es) /\ n \in 1..(Len(es) - 1)
        BY <1>1, <2>4
      <4>2. QED
        BY <4>1
    <3> DEFINE args == A[n]
    <3> HIDE DEF f, I, args
    <3>3. Opened(d, b, id, args, f.index) /\ args \in Seq(Pieces)
      BY <2>2, <3>1, <3>2 DEF args
    <3>4. Opened(c, b, id, args \o f.args, f.index)
      BY <2>2, <3>3, FragmentFollows
    <3> HIDE DEF c
    <3>5. Opened(c, b, id, A[n + 1], index)
      BY <2>2, <3>2, <3>4 DEF args
    <3>6. c \in I[n + 1]
      BY <2>1, <3>5 DEF I, Opened
    <3>7. QED
      BY <3>6 DEF c
  <2>5. QED
    BY <2>3, <2>4
<1>4. Absorbing!Fold(b, es) \in I[Len(es)]
  <2> HIDE DEF I
  <2>1. QED
    BY <1>2, <1>3, Absorbing!FoldInvariant
<1>5. QED
  BY <1>1, <1>4

\* What a part adds to a message.
LEMMA PartAdds ==
  ASSUME NEW message \in Seq(PartKinds), NEW m, Fits(m, message)
  PROVE  LET i == Len(message) + 1
             more == Part(i)
             n(kind) == AddPart(m, kind)
         IN  /\ n("thinking").thinking = m.thinking \o more
             /\ n("thinking").text = m.text /\ n("thinking").calls = m.calls
             /\ n("text").thinking = m.thinking
             /\ n("text").text = m.text \o more /\ n("text").calls = m.calls
             /\ n("tool_use").thinking = m.thinking
             /\ n("tool_use").text = m.text
             /\ n("tool_use").calls = Append(m.calls, Call(i))
<1> DEFINE i == Len(message) + 1
           more == Part(i)
<1>1. m.parts + 1 = i
  BY DEF Fits
<1> HIDE DEF i
<1>2. AddPart(m, "thinking")
        = [parts |-> i, thinking |-> m.thinking \o more, text |-> m.text,
           calls |-> m.calls]
  BY <1>1 DEF AddPart, Fits
<1>3. AddPart(m, "text")
        = [parts |-> i, thinking |-> m.thinking, text |-> m.text \o more,
           calls |-> m.calls]
  BY <1>1 DEF AddPart, Fits
<1>4. AddPart(m, "tool_use")
        = [parts |-> i, thinking |-> m.thinking, text |-> m.text,
           calls |-> Append(m.calls, Call(i))]
  BY <1>1 DEF AddPart, Fits
<1>5. /\ AddPart(m, "thinking").thinking = m.thinking \o more
      /\ AddPart(m, "thinking").text = m.text
      /\ AddPart(m, "thinking").calls = m.calls
  BY <1>2
<1>6. /\ AddPart(m, "text").thinking = m.thinking
      /\ AddPart(m, "text").text = m.text \o more
      /\ AddPart(m, "text").calls = m.calls
  BY <1>3
<1>7. /\ AddPart(m, "tool_use").thinking = m.thinking
      /\ AddPart(m, "tool_use").text = m.text
      /\ AddPart(m, "tool_use").calls = Append(m.calls, Call(i))
  BY <1>4
<1>8. QED
  BY <1>5, <1>6, <1>7 DEF i

\* A builder that got a part more says a message with a part more.
LEMMA SaysMore ==
  ASSUME NEW message \in Seq(PartKinds), NEW m, Fits(m, message),
         NEW b \in Builders, Says(b, m), NEW c
  PROVE  LET i == Len(message) + 1 IN
         /\ Grown(c, b, "thinking", Part(i)) => Says(c, AddPart(m, "thinking"))
         /\ Grown(c, b, "text", Part(i)) => Says(c, AddPart(m, "text"))
         /\ \A index : Opened(c, b, i, Part(i), index)
                         => Says(c, AddPart(m, "tool_use"))
<1> DEFINE i == Len(message) + 1
           more == Part(i)
           n(kind) == AddPart(m, kind)
<1>1. /\ n("thinking").thinking = m.thinking \o more
      /\ n("thinking").text = m.text /\ n("thinking").calls = m.calls
  BY PartAdds
<1>2. /\ n("text").thinking = m.thinking
      /\ n("text").text = m.text \o more /\ n("text").calls = m.calls
  BY PartAdds
<1>3. /\ n("tool_use").thinking = m.thinking
      /\ n("tool_use").text = m.text
      /\ n("tool_use").calls = Append(m.calls, Call(i))
  BY PartAdds
<1>4. Call(i) = [id |-> i, args |-> more]
  BY DEF Call
<1> HIDE DEF n, more, i
<1>5. Grown(c, b, "thinking", more) => Says(c, n("thinking"))
  BY <1>1 DEF Grown, Says
<1>6. Grown(c, b, "text", more) => Says(c, n("text"))
  BY <1>2 DEF Grown, Says
<1>7. \A index : Opened(c, b, i, more, index) => Says(c, n("tool_use"))
  BY <1>3, <1>4 DEF Opened, Says
<1>8. QED
  BY <1>5, <1>6, <1>7 DEF n, more, i

\* An event of a chat stream brings its delta.
LEMMA ChatDelta ==
  ASSUME NEW delta
  PROVE  DeltaOf(ChatEvent(delta)) = delta
BY DEF DeltaOf, ChatEvent

\* The events of a chat part that is no call.
LEMMA ChatPieces ==
  ASSUME NEW message \in Seq(PartKinds), NEW i \in 1..Len(message),
         message[i] # "tool_use", NEW style, NEW b \in Builders
  PROVE  Grown(Absorbing!Fold(b, ChatPart(style, message, i)), b, message[i],
               Part(i))
<1> DEFINE es == ChatPart(style, message, i)
           kind == message[i]
<1>1. es \in Seq(ChatEventSet)
  BY ChatPartType
<1>2. kind \in {"thinking", "text"}
  BY DEF PartKinds
<1>3. i \in Nat /\ Part(i) \in Seq(Pieces) /\ Len(Part(i)) = Chunks
      /\ Len(es) = Chunks
  BY PartType, StreamAssumption DEF ChatPart
<1>4. ASSUME NEW n \in 1..Len(es)
      PROVE  DeltaOf(es[n]) = Delta(kind, Part(i)[n])
  <2>1. Part(i)[n] = <<i, n>> /\ es[n] = ChatEvent(Delta(kind, <<i, n>>))
    BY <1>3 DEF ChatPart, Part
  <2>2. QED
    BY <2>1, ChatDelta
<1> HIDE DEF es, kind
<1>5. Grown(Absorbing!Fold(b, es), b, kind, Part(i))
  BY <1>1, <1>2, <1>3, <1>4, PiecesAbsorbed
<1>6. QED
  BY <1>5 DEF es, kind

\* The pieces of a part, one after another.
LEMMA PartGrows ==
  ASSUME NEW i \in Nat
  PROVE  /\ SubSeq(Part(i), 1, Chunks) = Part(i)
         /\ SubSeq(Part(i), 1, 0) = <<>>
         /\ \A n \in 1..Chunks :
              /\ SubSeq(Part(i), 1, n) \in Seq(Pieces)
              /\ SubSeq(Part(i), 1, n)
                   = SubSeq(Part(i), 1, n - 1) \o <<<<i, n>>>>
<1> DEFINE p == Part(i)
<1>1. p \in Seq(Pieces) /\ Len(p) = Chunks /\ Chunks \in Nat
      /\ \A n \in 1..Chunks : p[n] = <<i, n>>
  BY PartType, StreamAssumption DEF Part
<1> HIDE DEF p
<1>2. SubSeq(p, 1, Chunks) = p /\ SubSeq(p, 1, 0) = <<>>
  BY <1>1
<1>3. ASSUME NEW n \in 1..Chunks
      PROVE  /\ SubSeq(p, 1, n) \in Seq(Pieces)
             /\ SubSeq(p, 1, n) = SubSeq(p, 1, n - 1) \o <<<<i, n>>>>
  <2>1. SubSeq(p, 1, n) \in Seq(Pieces)
    BY <1>1
  <2>2. SubSeq(p, 1, n) = SubSeq(p, 1, n - 1) \o <<p[n]>>
    BY <1>1
  <2>3. QED
    BY <1>1, <2>1, <2>2
<1>4. QED
  BY <1>2, <1>3 DEF p

\* The events of a call of a chat.
LEMMA ChatCall ==
  ASSUME NEW message \in Seq(PartKinds), NEW i \in 1..Len(message),
         message[i] = "tool_use", NEW style, NEW b \in Builders,
         \A k \in 1..Len(b.calls) : b.calls[k].id # i
  PROVE  \E index : Opened(Absorbing!Fold(b, ChatPart(style, message, i)), b, i,
                           Part(i), index)
<1> DEFINE es == ChatPart(style, message, i)
           index == IF style = "unindexed" THEN 0 ELSE CallNumber(message, i)
           id(n) == IF n = 1 \/ style = "repeated" THEN i ELSE NoId
           fs == [n \in 1..Chunks |-> Fragment(id(n), index, <<<<i, n>>>>)]
           A == [n \in 1..Chunks |-> SubSeq(Part(i), 1, n)]
<1>1. es \in Seq(ChatEventSet)
  BY ChatPartType
<1>2. Chunks \in Nat \ {0} /\ i \in Nat \ {0} /\ index \in Nat
  BY CallNumberType, StreamAssumption
<1>3. ASSUME NEW n \in 1..Chunks
      PROVE  /\ es[n] = ChatEvent(CallDelta(<<fs[n]>>))
             /\ fs[n] \in Fragments
             /\ fs[n].id \in {NoId, i} /\ fs[n].index = index
             /\ fs[n].args = <<<<i, n>>>>
             /\ n = 1 => fs[n].id = i
  <2>1. id(n) \in {NoId, i} /\ id(n) \in Nat /\ (n = 1 => id(n) = i)
    BY <1>2 DEF NoId
  <2>2. <<i, n>> \in Pieces
    BY <1>2 DEF Pieces
  <2>3. <<<<i, n>>>> \in Seq(Pieces)
    BY <2>2
  <2>4. fs[n] = Fragment(id(n), index, <<<<i, n>>>>)
    OBVIOUS
  <2>5. es[n] = ChatEvent(CallDelta(<<Fragment(id(n), index, <<<<i, n>>>>)>>))
    BY DEF ChatPart
  <2> HIDE DEF id, index, fs, es
  <2>6. fs[n] \in Fragments
    BY <1>2, <2>1, <2>3, <2>4, FragmentType
  <2>7. /\ fs[n].id = id(n) /\ fs[n].index = index /\ fs[n].args = <<<<i, n>>>>
    BY <2>4 DEF Fragment
  <2>8. QED
    BY <2>1, <2>4, <2>5, <2>6, <2>7
<1>4. Len(es) = Chunks /\ Len(fs) = Chunks /\ fs = [n \in 1..Chunks |-> fs[n]]
  BY <1>2 DEF ChatPart
<1>5. /\ \A n \in 1..Chunks : A[n] = SubSeq(Part(i), 1, n)
      /\ A[Chunks] = Part(i)
  BY <1>2, PartGrows
<1>6. ASSUME NEW n \in 1..Chunks
      PROVE  /\ A[n] \in Seq(Pieces)
             /\ n = 1 => A[n] = fs[n].args
             /\ n > 1 => A[n] = A[n - 1] \o fs[n].args
  <2>1. fs[n].args = <<<<i, n>>>>
    BY <1>3
  <2>2. SubSeq(Part(i), 1, n) \in Seq(Pieces)
        /\ SubSeq(Part(i), 1, n) = SubSeq(Part(i), 1, n - 1) \o <<<<i, n>>>>
    BY <1>2, PartGrows
  <2>3. n > 1 => n - 1 \in 1..Chunks
    BY <1>2
  <2>4. SubSeq(Part(i), 1, 0) = <<>> /\ <<>> \o <<<<i, n>>>> = <<<<i, n>>>>
    BY <1>2, PartGrows
  <2>5. n = 1 => A[n] = fs[n].args
    <3>1. n = 1 => n - 1 = 0
      OBVIOUS
    <3> HIDE DEF fs, A
    <3>2. QED
      BY <1>5, <2>1, <2>2, <2>4, <3>1
  <2> HIDE DEF fs, A
  <2>6. QED
    BY <1>5, <2>1, <2>2, <2>3, <2>5
<1> HIDE DEF es, fs, A, index
<1>7. fs \in Seq(Fragments)
  <2>1. Chunks \in Nat /\ \A n \in 1..Chunks : fs[n] \in Fragments
    BY <1>2, <1>3
  <2> DEFINE F == Fragments
  <2>2. Chunks \in Nat /\ \A n \in 1..Chunks : fs[n] \in F
    BY <2>1
  <2>3. fs = [n \in 1..Chunks |-> fs[n]]
    BY <1>4
  <2> HIDE DEF F
  <2>4. fs \in Seq(F)
    BY <2>2, <2>3
  <2>5. QED
    BY <2>4 DEF F
<1>8. \A n \in 1..Len(es) : DeltaOf(es[n]) = CallDelta(<<fs[n]>>)
  BY <1>3, <1>4, ChatDelta
<1>9. /\ 1 \in 1..Chunks /\ fs[1].id = i /\ A[1] = fs[1].args
      /\ Len(es) > 0 /\ Len(es) = Len(fs) /\ i # NoId
  <2>1. 1 \in 1..Chunks /\ Len(es) > 0 /\ i # NoId
    BY <1>2, <1>4 DEF NoId
  <2>2. fs[1].id = i
    BY <1>3, <2>1
  <2>3. A[1] = fs[1].args
    BY <1>6, <2>1
  <2>4. QED
    BY <1>4, <2>1, <2>2, <2>3
<1>10. ASSUME NEW n \in 1..(Len(es) - 1)
       PROVE  A[n + 1] = A[n] \o fs[n + 1].args
  <2>1. n + 1 \in 1..Chunks /\ n + 1 > 1 /\ (n + 1) - 1 = n
    BY <1>2, <1>4
  <2>2. QED
    BY <1>6, <2>1
<1>11. \A n \in 1..Len(es) : /\ fs[n].index = index /\ fs[n].id \in {NoId, i}
                             /\ A[n] \in Seq(Pieces)
  BY <1>3, <1>4, <1>6
<1>12. Opened(Absorbing!Fold(b, es), b, i, A[Len(es)], index)
  BY <1>1, <1>2, <1>7, <1>8, <1>9, <1>10, <1>11, CallAbsorbed
<1>13. QED
  BY <1>4, <1>5, <1>12 DEF es

\* The events of a block, which is no call.
LEMMA BlockPieces ==
  ASSUME NEW message \in Seq(PartKinds), NEW i \in 1..Len(message),
         message[i] # "tool_use", NEW b \in Builders
  PROVE  Grown(Absorbing!Fold(b, Block(message, i)), b, message[i], Part(i))
<1> DEFINE es == Block(message, i)
           kind == message[i]
           event(n) == [type |-> "content_block_delta", kind |-> kind,
                        index |-> i - 1, piece |-> <<i, n>>]
<1>1. es \in Seq(BlockEventSet)
  BY BlockType
<1>2. kind \in {"thinking", "text"}
  BY DEF PartKinds
<1>3. es = [n \in 1..Chunks |-> event(n)]
  BY DEF Block
<1>4. i \in Nat /\ Part(i) \in Seq(Pieces) /\ Len(Part(i)) = Chunks
      /\ Len(es) = Chunks
  BY <1>3, PartType, StreamAssumption
<1>5. ASSUME NEW n \in 1..Len(es)
      PROVE  DeltaOf(es[n]) = Delta(kind, Part(i)[n])
  <2>1. Part(i)[n] = <<i, n>> /\ es[n] = event(n)
    BY <1>3, <1>4 DEF Part
  <2>2. DeltaOf(event(n)) = Delta(kind, <<i, n>>)
    BY <1>2 DEF DeltaOf, MessagesDelta
  <2>3. QED
    BY <2>1, <2>2
<1> HIDE DEF es, kind
<1>6. Grown(Absorbing!Fold(b, es), b, kind, Part(i))
  BY <1>1, <1>2, <1>4, <1>5, PiecesAbsorbed
<1>7. QED
  BY <1>6 DEF es, kind

\* The events of the block of a call.
LEMMA BlockCall ==
  ASSUME NEW message \in Seq(PartKinds), NEW i \in 1..Len(message),
         message[i] = "tool_use", NEW b \in Builders,
         \A k \in 1..Len(b.calls) : b.calls[k].id # i
  PROVE  \E index : Opened(Absorbing!Fold(b, Block(message, i)), b, i, Part(i),
                           index)
<1> DEFINE es == Block(message, i)
           index == i - 1
           start == [type |-> "content_block_start", index |-> index, id |-> i]
           event(n) == [type |-> "content_block_delta", kind |-> message[i],
                        index |-> index, piece |-> <<i, n>>]
           deltas == [n \in 1..Chunks |-> event(n)]
           fs == [n \in 1..(Chunks + 1) |->
                    IF n = 1 THEN Fragment(i, index, <<>>)
                    ELSE Fragment(NoId, index, <<<<i, n - 1>>>>)]
           A == [n \in 1..(Chunks + 1) |-> SubSeq(Part(i), 1, n - 1)]
<1>1. es \in Seq(BlockEventSet)
  BY BlockType
<1>2. Chunks \in Nat \ {0} /\ i \in Nat \ {0} /\ index \in Nat
  BY StreamAssumption
<1>3. es = <<start>> \o deltas
  BY DEF Block
<1>4. /\ Len(es) = Chunks + 1 /\ es[1] = start
      /\ \A n \in 2..(Chunks + 1) : es[n] = event(n - 1)
  <2>1. Len(deltas) = Chunks /\ \A n \in 1..Chunks : deltas[n] = event(n)
    BY <1>2
  <2>2. ASSUME NEW n \in 2..(Chunks + 1) PROVE es[n] = deltas[n - 1]
    BY <1>2, <1>3, <2>1
  <2>3. es[1] = start
    BY <1>3
  <2>4. Len(es) = Chunks + 1
    BY <1>2, <1>3, <2>1
  <2>5. ASSUME NEW n \in 2..(Chunks + 1) PROVE es[n] = event(n - 1)
    <3>1. n - 1 \in 1..Chunks
      BY <1>2
    <3>2. QED
      BY <2>1, <2>2, <3>1
  <2>6. QED
    BY <2>3, <2>4, <2>5
<1>5. ASSUME NEW n \in 1..(Chunks + 1)
      PROVE  /\ DeltaOf(es[n]) = CallDelta(<<fs[n]>>)
             /\ fs[n] \in Fragments
             /\ fs[n].id \in {NoId, i} /\ fs[n].index = index
             /\ fs[n].args = IF n = 1 THEN <<>> ELSE <<<<i, n - 1>>>>
             /\ n = 1 => fs[n].id = i
  <2>1. CASE n = 1
    <3>1. fs[n] = Fragment(i, index, <<>>)
      BY <2>1
    <3>2. DeltaOf(start) = CallDelta(<<Fragment(i, index, <<>>)>>)
      BY DEF DeltaOf, MessagesDelta
    <3>3. <<>> \in Seq(Pieces)
      OBVIOUS
    <3>4. es[n] = start
      BY <1>4, <2>1
    <3> HIDE DEF fs, es, index, start
    <3>5. fs[n] \in Fragments
      BY <1>2, <3>1, <3>3, FragmentType
    <3>6. fs[n].id = i /\ fs[n].index = index /\ fs[n].args = <<>>
      BY <3>1 DEF Fragment
    <3>7. QED
      BY <2>1, <3>1, <3>2, <3>4, <3>5, <3>6
  <2>2. CASE n # 1
    <3>1. fs[n] = Fragment(NoId, index, <<<<i, n - 1>>>>)
      BY <2>2
    <3>2. n - 1 \in Nat /\ n \in 2..(Chunks + 1)
      BY <1>2, <2>2
    <3>3. DeltaOf(event(n - 1))
            = CallDelta(<<Fragment(NoId, index, <<<<i, n - 1>>>>)>>)
      BY DEF DeltaOf, MessagesDelta
    <3>4. <<i, n - 1>> \in Pieces
      BY <1>2, <3>2 DEF Pieces
    <3>5. <<<<i, n - 1>>>> \in Seq(Pieces)
      BY <3>4
    <3>6. es[n] = event(n - 1)
      BY <1>4, <3>2
    <3> HIDE DEF fs, es, index, event
    <3>7. NoId \in Nat
      BY DEF NoId
    <3>8. fs[n] \in Fragments
      BY <1>2, <3>1, <3>5, <3>7, FragmentType
    <3>9. fs[n].id = NoId /\ fs[n].index = index
          /\ fs[n].args = <<<<i, n - 1>>>>
      BY <3>1 DEF Fragment
    <3>10. QED
      BY <2>2, <3>1, <3>3, <3>6, <3>8, <3>9
  <2>3. QED
    BY <2>1, <2>2
<1>6. ASSUME NEW n \in 1..(Chunks + 1)
      PROVE  /\ A[n] \in Seq(Pieces)
             /\ n = 1 => A[n] = fs[n].args
             /\ n > 1 => A[n] = A[n - 1] \o fs[n].args
  <2>1. CASE n = 1
    <3>1. A[n] = SubSeq(Part(i), 1, 0)
      BY <2>1
    <3> HIDE DEF fs, A
    <3>5. SubSeq(Part(i), 1, 0) = <<>>
      BY <1>2, PartGrows
    <3>2. A[n] = <<>> /\ <<>> \in Seq(Pieces)
      BY <3>1, <3>5
    <3>3. fs[n].args = <<>>
      BY <1>5, <2>1
    <3>4. QED
      BY <2>1, <3>2, <3>3
  <2>2. CASE n # 1
    <3>1. n - 1 \in 1..Chunks /\ n - 1 \in 1..(Chunks + 1)
          /\ A[n] = SubSeq(Part(i), 1, n - 1)
      BY <1>2, <2>2
    <3>2. A[n - 1] = SubSeq(Part(i), 1, (n - 1) - 1)
      BY <3>1
    <3> HIDE DEF fs, A
    <3>3. fs[n].args = <<<<i, n - 1>>>>
      BY <1>5, <2>2
    <3> DEFINE m == n - 1
    <3>8. m \in 1..Chunks
      BY <3>1
    <3> HIDE DEF m
    <3>9. SubSeq(Part(i), 1, m) \in Seq(Pieces)
          /\ SubSeq(Part(i), 1, m) = SubSeq(Part(i), 1, m - 1) \o <<<<i, m>>>>
      BY <1>2, <3>8, PartGrows
    <3>4. SubSeq(Part(i), 1, n - 1) \in Seq(Pieces)
      BY <3>9 DEF m
    <3>5. SubSeq(Part(i), 1, n - 1)
            = SubSeq(Part(i), 1, (n - 1) - 1) \o <<<<i, n - 1>>>>
      BY <3>9 DEF m
    <3>6. QED
      BY <2>2, <3>1, <3>2, <3>3, <3>4, <3>5
  <2>3. QED
    BY <2>1, <2>2
<1>7. A[Chunks + 1] = Part(i)
  <2>1. A[Chunks + 1] = SubSeq(Part(i), 1, Chunks)
    BY <1>2
  <2>2. QED
    BY <1>2, <2>1, PartGrows
<1>8. Len(fs) = Chunks + 1 /\ fs = [n \in 1..(Chunks + 1) |-> fs[n]]
  BY <1>2
<1> HIDE DEF es, fs, A, index
<1>9. fs \in Seq(Fragments)
  <2>1. \A n \in 1..(Chunks + 1) : fs[n] \in Fragments
    BY <1>5
  <2> DEFINE F == Fragments
             l == Chunks + 1
  <2>2. l \in Nat
    BY <1>2
  <2>3. fs = [n \in 1..l |-> fs[n]] /\ \A n \in 1..l : fs[n] \in F
    BY <1>8, <2>1
  <2> HIDE DEF F, l
  <2>4. fs \in Seq(F)
    BY <2>2, <2>3
  <2>5. QED
    BY <2>4 DEF F
<1>10. /\ 1 \in 1..(Chunks + 1) /\ Len(es) > 0 /\ Len(es) = Len(fs)
       /\ i # NoId
  BY <1>2, <1>4, <1>8 DEF NoId
<1>11. fs[1].id = i
  BY <1>5, <1>10
<1>12. A[1] = fs[1].args
  BY <1>6, <1>10
<1>13. ASSUME NEW n \in 1..(Len(es) - 1)
       PROVE  A[n + 1] = A[n] \o fs[n + 1].args
  <2>1. n + 1 \in 1..(Chunks + 1) /\ n + 1 > 1 /\ (n + 1) - 1 = n
    BY <1>2, <1>4
  <2>2. QED
    BY <1>6, <2>1
<1>14. \A n \in 1..Len(es) : /\ fs[n].index = index /\ fs[n].id \in {NoId, i}
                             /\ A[n] \in Seq(Pieces)
  BY <1>4, <1>5, <1>6
<1>15. \A n \in 1..Len(es) : DeltaOf(es[n]) = CallDelta(<<fs[n]>>)
  BY <1>4, <1>5
<1>16. Opened(Absorbing!Fold(b, es), b, i, A[Len(es)], index)
  BY <1>1, <1>2, <1>9, <1>10, <1>11, <1>12, <1>13, <1>14, <1>15, CallAbsorbed
<1>17. QED
  BY <1>4, <1>7, <1>16 DEF es

\* A message is its parts.
LEMMA Prefix ==
  ASSUME NEW message \in Seq(PartKinds), NEW i \in 1..Len(message), NEW u,
         u = SubSeq(message, 1, i - 1)
  PROVE  /\ u \in Seq(PartKinds) /\ Len(u) + 1 = i
         /\ Fits(Meant(u), u)
         /\ Meant(SubSeq(message, 1, i)) = AddPart(Meant(u), message[i])
<1>1. u \in Seq(PartKinds) /\ Len(u) + 1 = i /\ message[i] \in PartKinds
      /\ SubSeq(message, 1, i) = Append(u, message[i])
  OBVIOUS
<1>2. QED
  BY <1>1, MeantSteps, MeantFits

\* A builder has no call with the number of the part to come.
LEMMA NewId ==
  ASSUME NEW u, NEW m, Fits(m, u), NEW b, Says(b, m), Len(u) \in Nat
  PROVE  \A k \in 1..Len(b.calls) : b.calls[k].id # Len(u) + 1
BY DEF Fits, Says

\* The events of a part, in order, say that part.
LEMMA PartAbsorbed ==
  ASSUME NEW message \in Seq(PartKinds), NEW i \in 1..Len(message),
         NEW style, NEW es,
         es \in {ChatPart(style, message, i), Block(message, i)},
         NEW b, Says(b, Meant(SubSeq(message, 1, i - 1)))
  PROVE  Says(Absorbing!Fold(b, es), Meant(SubSeq(message, 1, i)))
<1> DEFINE u == SubSeq(message, 1, i - 1)
           m == Meant(u)
           c == Absorbing!Fold(b, es)
<1>1. /\ u \in Seq(PartKinds) /\ Len(u) + 1 = i /\ Fits(m, u)
      /\ Meant(SubSeq(message, 1, i)) = AddPart(m, message[i])
  BY Prefix
<1>2. b \in Builders /\ Says(b, m) /\ message[i] \in PartKinds
  BY DEF Says
<1> HIDE DEF u, m
<1>3. CASE message[i] = "tool_use"
  <2>1. \A k \in 1..Len(b.calls) : b.calls[k].id # i
    BY <1>1, <1>2, NewId
  <2>2. PICK index : Opened(c, b, i, Part(i), index)
    BY <1>2, <1>3, <2>1, ChatCall, BlockCall
  <2> HIDE DEF c
  <2>3. Says(c, AddPart(m, "tool_use"))
    BY <1>1, <1>2, <2>2, SaysMore
  <2>4. QED
    BY <1>1, <1>3, <2>3 DEF c
<1>4. CASE message[i] # "tool_use"
  <2>1. Grown(c, b, message[i], Part(i))
    BY <1>2, <1>4, ChatPieces, BlockPieces
  <2> HIDE DEF c
  <2>2. CASE message[i] = "thinking"
    <3>1. Says(c, AddPart(m, "thinking"))
      BY <1>1, <1>2, <2>1, <2>2, SaysMore
    <3>2. QED
      BY <1>1, <2>2, <3>1 DEF c
  <2>3. CASE message[i] = "text"
    <3>1. Says(c, AddPart(m, "text"))
      BY <1>1, <1>2, <2>1, <2>3, SaysMore
    <3>2. QED
      BY <1>1, <2>3, <3>1 DEF c
  <2>4. QED
    BY <1>2, <1>4, <2>2, <2>3 DEF PartKinds
<1>5. QED
  BY <1>3, <1>4

\* A flattened sequence is absorbed piece by piece.
LEMMA FlatAbsorbed ==
  ASSUME NEW S, NEW ss \in Seq(Seq(S)), NEW b
  PROVE  /\ Absorbing!Fold(b, Flat(SubSeq(ss, 1, 0))) = b
         /\ SubSeq(ss, 1, Len(ss)) = ss
         /\ \A i \in 1..Len(ss) :
              Absorbing!Fold(b, Flat(SubSeq(ss, 1, i)))
                = Absorbing!Fold(Absorbing!Fold(b, Flat(SubSeq(ss, 1, i - 1))),
                                 ss[i])
<1> DEFINE Q == Seq(S)
<1>1. SubSeq(ss, 1, 0) = <<>> /\ SubSeq(ss, 1, Len(ss)) = ss
  OBVIOUS
<1>2. Flat(<<>>) = <<>> /\ Absorbing!Fold(b, <<>>) = b
  BY FlatSteps, Absorbing!FoldEmpty
<1>3. ASSUME NEW i \in 1..Len(ss)
      PROVE  Absorbing!Fold(b, Flat(SubSeq(ss, 1, i)))
               = Absorbing!Fold(
                   Absorbing!Fold(b, Flat(SubSeq(ss, 1, i - 1))), ss[i])
  <2> DEFINE u == SubSeq(ss, 1, i - 1)
             e == ss[i]
  <2>1. u \in Seq(Q) /\ e \in Q /\ SubSeq(ss, 1, i) = Append(u, e)
    <3>1. ss \in Seq(Q)
      OBVIOUS
    <3> HIDE DEF Q
    <3>2. QED
      BY <3>1
  <2> HIDE DEF u, e
  <2>2. Flat(Append(u, e)) = Flat(u) \o e
    BY <2>1, FlatSteps
  <2>3. Flat(u) \in Seq(S)
    BY <2>1, FlatType
  <2>4. Absorbing!Fold(b, Flat(u) \o e)
          = Absorbing!Fold(Absorbing!Fold(b, Flat(u)), e)
    BY <2>1, <2>3, Absorbing!FoldJoined
  <2>5. QED
    BY <2>1, <2>2, <2>4 DEF u, e
<1>4. QED
  BY <1>1, <1>2, <1>3

\* So do the events of all parts.
LEMMA PartsAbsorbed ==
  ASSUME NEW message \in Seq(PartKinds), NEW style,
         NEW S, NEW ss \in Seq(Seq(S)), Len(ss) = Len(message),
         \A i \in 1..Len(ss) :
           ss[i] \in {ChatPart(style, message, i), Block(message, i)},
         NEW b, Says(b, Unsaid)
  PROVE  Says(Absorbing!Fold(b, Flat(ss)), Meant(message))
<1> DEFINE c(i) == Absorbing!Fold(b, Flat(SubSeq(ss, 1, i)))
           T == {i \in Nat :
                   i <= Len(ss) => Says(c(i), Meant(SubSeq(message, 1, i)))}
<1>1. 0 \in T
  <2>1. c(0) = b
    BY FlatAbsorbed
  <2>2. SubSeq(message, 1, 0) = <<>>
    OBVIOUS
  <2>3. Meant(<<>>) = Unsaid
    BY MeantSteps
  <2> HIDE DEF c
  <2>4. QED
    BY <2>1, <2>2, <2>3
<1>2. ASSUME NEW i \in Nat, i \in T PROVE i + 1 \in T
  <2>1. SUFFICES ASSUME i + 1 <= Len(ss)
                 PROVE  Says(c(i + 1), Meant(SubSeq(message, 1, i + 1)))
    OBVIOUS
  <2> DEFINE j == i + 1
  <2>2. j \in 1..Len(ss) /\ j \in 1..Len(message) /\ j - 1 = i
        /\ i <= Len(ss)
    BY <2>1
  <2>3. Says(c(j - 1), Meant(SubSeq(message, 1, j - 1)))
    BY <1>2, <2>2
  <2> HIDE DEF j
  <2>4. c(j) = Absorbing!Fold(c(j - 1), ss[j])
    BY <2>2, FlatAbsorbed
  <2> HIDE DEF c
  <2>5. Says(Absorbing!Fold(c(j - 1), ss[j]), Meant(SubSeq(message, 1, j)))
    BY <2>2, <2>3, PartAbsorbed
  <2>6. QED
    BY <2>4, <2>5 DEF j
<1>3. Nat \subseteq T
  <2> HIDE DEF T
  <2>1. QED
    BY <1>1, <1>2, Flattening!EveryNumber
<1>4. Len(ss) \in Nat /\ SubSeq(message, 1, Len(ss)) = message
  OBVIOUS
<1>5. Says(c(Len(ss)), Meant(message))
  <2>1. Len(ss) \in T /\ Len(ss) <= Len(ss)
    BY <1>3, <1>4
  <2> HIDE DEF c
  <2>2. Says(c(Len(ss)), Meant(SubSeq(message, 1, Len(ss))))
    BY <2>1
  <2>3. QED
    BY <1>4, <2>2
<1>6. SubSeq(ss, 1, Len(ss)) = ss
  BY FlatAbsorbed
<1>7. QED
  BY <1>5, <1>6

-----------------------------------------------------------------------------
(* Calls behind the other parts.                                           *)

\* A builder that knows what a message says but for its calls.
Spoke(b, m) ==
  /\ b \in Builders /\ b.thinking = m.thinking /\ b.text = m.text
  /\ b.calls = <<>> /\ DOMAIN b.byIndex = {}

\* One part more.
LEMMA SpokeMore ==
  ASSUME NEW message \in Seq(PartKinds), NEW i \in 1..Len(message), NEW es,
         es = IF message[i] = "tool_use" THEN <<>>
              ELSE ChatPart("interleaved", message, i),
         NEW b, Spoke(b, Meant(SubSeq(message, 1, i - 1)))
  PROVE  Spoke(Absorbing!Fold(b, es), Meant(SubSeq(message, 1, i)))
<1> DEFINE u == SubSeq(message, 1, i - 1)
           m == Meant(u)
           c == Absorbing!Fold(b, es)
<1>1. /\ u \in Seq(PartKinds) /\ Len(u) + 1 = i /\ Fits(m, u)
      /\ Meant(SubSeq(message, 1, i)) = AddPart(m, message[i])
  BY Prefix
<1>2. b \in Builders /\ Spoke(b, m) /\ message[i] \in PartKinds
  BY DEF Spoke
<1> HIDE DEF u, m
<1>3. CASE message[i] = "tool_use"
  <2>1. c = b
    BY <1>3, Absorbing!FoldEmpty
  <2>2. /\ AddPart(m, "tool_use").thinking = m.thinking
        /\ AddPart(m, "tool_use").text = m.text
    BY <1>1, PartAdds
  <2> HIDE DEF c
  <2>3. Spoke(c, AddPart(m, "tool_use"))
    BY <1>2, <2>1, <2>2 DEF Spoke
  <2>4. QED
    BY <1>1, <1>3, <2>3 DEF c
<1>4. CASE message[i] # "tool_use"
  <2>1. Grown(c, b, message[i], Part(i))
    BY <1>2, <1>4, ChatPieces
  <2> HIDE DEF c
  <2>2. CASE message[i] = "thinking"
    <3>1. /\ AddPart(m, "thinking").thinking = m.thinking \o Part(i)
          /\ AddPart(m, "thinking").text = m.text
      BY <1>1, PartAdds
    <3>2. Spoke(c, AddPart(m, "thinking"))
      BY <1>2, <2>1, <2>2, <3>1 DEF Spoke, Grown
    <3>3. QED
      BY <1>1, <2>2, <3>2 DEF c
  <2>3. CASE message[i] = "text"
    <3>1. /\ AddPart(m, "text").thinking = m.thinking
          /\ AddPart(m, "text").text = m.text \o Part(i)
      BY <1>1, PartAdds
    <3>2. Spoke(c, AddPart(m, "text"))
      BY <1>2, <2>1, <2>3, <3>1 DEF Spoke, Grown
    <3>3. QED
      BY <1>1, <2>3, <3>2 DEF c
  <2>4. QED
    BY <1>2, <1>4, <2>2, <2>3 DEF PartKinds
<1>5. QED
  BY <1>3, <1>4

\* All parts that are no calls.
LEMMA SpokenAbsorbed ==
  ASSUME NEW message \in Seq(PartKinds), NEW b, Spoke(b, Unsaid)
  PROVE  Spoke(Absorbing!Fold(b, SpokenParts(message)), Meant(message))
<1> DEFINE ss == [i \in DOMAIN message |->
                    IF message[i] = "tool_use" THEN <<>>
                    ELSE ChatPart("interleaved", message, i)]
           c(i) == Absorbing!Fold(b, Flat(SubSeq(ss, 1, i)))
           T == {i \in Nat :
                   i <= Len(message) =>
                     Spoke(c(i), Meant(SubSeq(message, 1, i)))}
<1>1. /\ ss \in Seq(Seq(ChatEventSet)) /\ Len(ss) = Len(message)
      /\ \A i \in 1..Len(message) :
           ss[i] = IF message[i] = "tool_use" THEN <<>>
                   ELSE ChatPart("interleaved", message, i)
  <2>1. ss \in Seq(Seq(ChatEventSet))
    BY PartsType
  <2>2. Len(ss) = Len(message) /\ DOMAIN message = 1..Len(message)
    OBVIOUS
  <2>3. QED
    BY <2>1, <2>2
<1>2. SpokenParts(message) = Flat(ss)
  BY DEF SpokenParts
<1> HIDE DEF ss
<1>3. 0 \in T
  <2>1. c(0) = b
    BY <1>1, FlatAbsorbed
  <2>2. SubSeq(message, 1, 0) = <<>>
    OBVIOUS
  <2>3. Meant(<<>>) = Unsaid
    BY MeantSteps
  <2> HIDE DEF c
  <2>4. QED
    BY <2>1, <2>2, <2>3
<1>4. ASSUME NEW i \in Nat, i \in T PROVE i + 1 \in T
  <2>1. SUFFICES ASSUME i + 1 <= Len(message)
                 PROVE  Spoke(c(i + 1), Meant(SubSeq(message, 1, i + 1)))
    OBVIOUS
  <2> DEFINE j == i + 1
  <2>2. j \in 1..Len(ss) /\ j \in 1..Len(message) /\ j - 1 = i
        /\ i <= Len(message)
    BY <1>1, <2>1
  <2>3. Spoke(c(j - 1), Meant(SubSeq(message, 1, j - 1)))
    BY <1>4, <2>2
  <2> HIDE DEF j
  <2>4. c(j) = Absorbing!Fold(c(j - 1), ss[j])
    BY <1>1, <2>2, FlatAbsorbed
  <2> HIDE DEF c
  <2>5. Spoke(Absorbing!Fold(c(j - 1), ss[j]), Meant(SubSeq(message, 1, j)))
    BY <1>1, <2>2, <2>3, SpokeMore
  <2>6. QED
    BY <2>4, <2>5 DEF j
<1>5. Nat \subseteq T
  <2> HIDE DEF T
  <2>1. QED
    BY <1>3, <1>4, Flattening!EveryNumber
<1>6. Len(message) \in Nat /\ SubSeq(message, 1, Len(message)) = message
  OBVIOUS
<1>7. Spoke(c(Len(message)), Meant(message))
  <2>1. Len(message) \in T /\ Len(message) <= Len(message)
    BY <1>5, <1>6
  <2> HIDE DEF c
  <2>2. Spoke(c(Len(message)), Meant(SubSeq(message, 1, Len(message))))
    BY <2>1
  <2>3. QED
    BY <1>6, <2>2
<1>8. SubSeq(ss, 1, Len(message)) = ss
  BY <1>1, FlatAbsorbed
<1>9. QED
  BY <1>2, <1>7, <1>8

\* What is left of a call's arguments after some of its fragments have come.
Sofar(call, n) == [id |-> call.id, args |-> SubSeq(call.args, 1, n)]

\* In the round n, k fragments have come.
Rounded(d, m, n, k) ==
  /\ d \in Builders /\ d.thinking = m.thinking /\ d.text = m.text
  /\ Len(d.calls) = IF n = 1 THEN k ELSE Len(m.calls)
  /\ \A j \in 1..Len(d.calls) :
       /\ d.calls[j] = Sofar(m.calls[j], IF j <= k THEN n ELSE n - 1)
       /\ j - 1 \in DOMAIN d.byIndex /\ d.byIndex[j - 1] = j

\* The calls, of which one has got more.
LEMMA GrowElements ==
  ASSUME NEW cs \in Seq(CallSet), NEW at \in 1..Len(cs),
         NEW more \in Seq(Pieces)
  PROVE  LET grown == Grow(cs, at, more)
         IN  /\ Len(grown) = Len(cs)
             /\ grown[at] = [id |-> cs[at].id, args |-> cs[at].args \o more]
             /\ \A j \in 1..Len(cs) \ {at} : grown[j] = cs[j]
<1> DEFINE r == cs[at]
           q == [r EXCEPT !.args = @ \o more]
           grown == [cs EXCEPT ![at] = q]
<1>1. r \in CallSet
  OBVIOUS
<1>2. q = [id |-> r.id, args |-> r.args \o more]
  <2> DEFINE v == r.args \o more
             x == r.id
             y == r.args
  <2> HIDE DEF r
  <2>1. r = [id |-> x, args |-> y]
    BY <1>1 DEF CallSet
  <2> HIDE DEF v, x, y
  <2>2. [[id |-> x, args |-> y] EXCEPT !.args = v] = [id |-> x, args |-> v]
    OBVIOUS
  <2>3. QED
    BY <2>1, <2>2 DEF v, x
<1>3. Grow(cs, at, more) = grown
  BY DEF Grow
<1>4. /\ Len(grown) = Len(cs) /\ grown[at] = q
      /\ \A j \in 1..Len(cs) \ {at} : grown[j] = cs[j]
  <2> HIDE DEF q
  <2>1. QED
    OBVIOUS
<1> HIDE DEF grown, q
<1>5. QED
  BY <1>2, <1>3, <1>4 DEF r

\* One fragment of a round.
LEMMA RoundStep ==
  ASSUME NEW m, Numbered(m.calls), NEW n \in 1..Chunks,
         NEW k \in 0..(Len(m.calls) - 1), NEW d, Rounded(d, m, n, k)
  PROVE  Rounded(Absorb(d, Round(m.calls, n)[k + 1]), m, n, k + 1)
<1> DEFINE call == m.calls[k + 1]
           id == IF n = 1 THEN call.id ELSE NoId
           piece == call.args[n]
           f == Fragment(id, k, <<piece>>)
           e == Round(m.calls, n)[k + 1]
           c == Absorb(d, e)
<1>1. /\ m.calls \in Seq(CallSet) /\ Len(m.calls) \in Nat
      /\ k + 1 \in 1..Len(m.calls) /\ k \in Nat /\ n \in Nat /\ Chunks \in Nat
      /\ d \in Builders /\ d.calls \in Seq(CallSet)
  BY StreamAssumption DEF Numbered, Rounded, Builders
<1>2. /\ call \in CallSet /\ call.id \in Nat \ {0} /\ call.args \in Seq(Pieces)
      /\ Len(call.args) = Chunks
  <2>1. call \in CallSet
    BY <1>1
  <2>2. call.id \in Nat \ {0} /\ Len(call.args) = Chunks
    BY <1>1 DEF Numbered
  <2>3. QED
    BY <2>1, <2>2 DEF CallSet
<1>3. piece \in Pieces /\ <<piece>> \in Seq(Pieces) /\ id \in Nat
  BY <1>1, <1>2 DEF NoId
<1>4. e = ChatEvent(CallDelta(<<f>>))
  BY <1>1 DEF Round
<1>5. /\ f \in Fragments /\ f.id = id /\ f.index = k /\ f.args = <<piece>>
  <2> HIDE DEF id, piece
  <2>1. f \in Fragments
    BY <1>1, <1>3, FragmentType
  <2>2. QED
    BY <2>1 DEF Fragment
<1>6. DeltaOf(e) = CallDelta(<<f>>)
  BY <1>4, ChatDelta
<1>7. SubSeq(call.args, 1, n) = SubSeq(call.args, 1, n - 1) \o <<piece>>
      /\ SubSeq(call.args, 1, n - 1) \in Seq(Pieces)
      /\ SubSeq(call.args, 1, 0) = <<>>
  <2> DEFINE a == call.args
  <2>1. a \in Seq(Pieces) /\ Len(a) = Chunks /\ piece = a[n]
    BY <1>2
  <2> HIDE DEF a, piece
  <2>2. SubSeq(a, 1, n) = SubSeq(a, 1, n - 1) \o <<piece>>
    BY <1>1, <2>1
  <2>3. SubSeq(a, 1, n - 1) \in Seq(Pieces) /\ SubSeq(a, 1, 0) = <<>>
    BY <1>1, <2>1
  <2>4. QED
    BY <2>2, <2>3 DEF a
<1>8. /\ d.thinking = m.thinking /\ d.text = m.text
      /\ Len(d.calls) = IF n = 1 THEN k ELSE Len(m.calls)
      /\ \A j \in 1..Len(d.calls) :
           /\ d.calls[j] = Sofar(m.calls[j], IF j <= k THEN n ELSE n - 1)
           /\ j - 1 \in DOMAIN d.byIndex /\ d.byIndex[j - 1] = j
  BY DEF Rounded
<1> HIDE DEF f, e, c, piece
<1>9. CASE n = 1
  <2>1. Len(d.calls) = k /\ f.id = call.id /\ f.id # NoId
    BY <1>2, <1>5, <1>8, <1>9 DEF NoId
  <2>2. ASSUME NEW j \in 1..Len(d.calls) PROVE d.calls[j].id # f.id
    <3>1. d.calls[j].id = m.calls[j].id
      <4>1. d.calls[j] = Sofar(m.calls[j], IF j <= k THEN n ELSE n - 1)
        BY <1>8
      <4>2. \A a, x : Sofar(a, x).id = a.id
        BY DEF Sofar
      <4>3. QED
        BY <4>1, <4>2
    <3>2. j \in 1..((k + 1) - 1) /\ j \in 1..Len(m.calls)
      BY <1>1, <2>1
    <3>3. m.calls[j].id < call.id /\ m.calls[j].id \in Nat
      BY <1>1, <3>2 DEF Numbered
    <3>4. QED
      BY <1>2, <2>1, <3>1, <3>3
  <2>3. Opened(c, d, f.id, f.args, f.index)
    BY <1>1, <1>5, <1>6, <2>1, <2>2, FragmentOpens DEF c
  <2>4. /\ DOMAIN c.byIndex = DOMAIN d.byIndex \cup {f.index}
        /\ \A j \in DOMAIN d.byIndex \ {f.index} :
             c.byIndex[j] = d.byIndex[j]
    BY <1>1, <1>5, <1>6, <2>1, <2>2, FragmentOpens DEF c
  <2>5. /\ c \in Builders /\ c.thinking = m.thinking /\ c.text = m.text
        /\ c.calls = Append(d.calls, [id |-> call.id, args |-> <<piece>>])
        /\ k \in DOMAIN c.byIndex /\ c.byIndex[k] = k + 1
    BY <1>5, <1>8, <2>1, <2>3 DEF Opened
  <2>6. Len(c.calls) = k + 1 /\ c.calls[k + 1] = Sofar(call, 1)
        /\ \A j \in 1..k : c.calls[j] = d.calls[j]
    <3>1. [id |-> call.id, args |-> <<piece>>] = Sofar(call, 1)
      <4>1. <<piece>> = SubSeq(call.args, 1, 1)
        BY <1>3, <1>7, <1>9
      <4> HIDE DEF call
      <4>2. QED
        BY <4>1 DEF Sofar
    <3>2. QED
      BY <1>1, <2>1, <2>5, <3>1
  <2>7. ASSUME NEW j \in 1..Len(c.calls)
        PROVE  /\ c.calls[j]
                    = Sofar(m.calls[j], IF j <= k + 1 THEN n ELSE n - 1)
               /\ j - 1 \in DOMAIN c.byIndex /\ c.byIndex[j - 1] = j
    <3>1. CASE j = k + 1
      BY <1>1, <1>9, <2>5, <2>6, <3>1
    <3>2. CASE j # k + 1
      <4>1. j \in 1..k /\ j - 1 # k
        BY <1>1, <2>6, <3>2
      <4>2. j - 1 \in DOMAIN d.byIndex /\ d.byIndex[j - 1] = j
            /\ d.calls[j] = Sofar(m.calls[j], n)
        BY <1>8, <2>1, <4>1
      <4>3. QED
        BY <1>5, <2>4, <2>6, <4>1, <4>2
    <3>3. QED
      BY <3>1, <3>2
  <2>8. Rounded(c, m, n, k + 1)
    BY <1>9, <2>5, <2>6, <2>7 DEF Rounded
  <2>9. QED
    BY <2>8 DEF c, e
<1>10. CASE n # 1
  <2>1. PICK base \in Builders :
          /\ base.thinking = d.thinking /\ base.text = d.text
          /\ base.calls = d.calls /\ base.byIndex = d.byIndex
          /\ c = MergeCall(base, f)
    BY <1>1, <1>5, <1>6, AbsorbsFragment DEF c
  <2>2. k + 1 \in 1..Len(d.calls) /\ Len(d.calls) = Len(m.calls)
    BY <1>1, <1>8, <1>10
  <2>3. (k + 1) - 1 \in DOMAIN d.byIndex /\ d.byIndex[(k + 1) - 1] = k + 1
        /\ d.calls[k + 1] = Sofar(call, n - 1)
    <3>1. ~(k + 1 <= k) /\ (k + 1) - 1 = k
      BY <1>1
    <3>2. QED
      BY <1>8, <2>2, <3>1
  <2>4. k \in DOMAIN base.byIndex /\ base.byIndex[k] = k + 1
    <3>1. (k + 1) - 1 = k
      BY <1>1
    <3>2. QED
      BY <2>1, <2>3, <3>1
  <2>5. f.id = NoId
    BY <1>5, <1>10
  <2>6. Place(base, f) = k + 1 /\ Place(base, f) \in 1..Len(base.calls)
    BY <1>5, <2>1, <2>2, <2>4, <2>5, ByIndex
  <2> DEFINE g == MergeCall(base, f)
             at == Place(base, f)
  <2>7. /\ g \in Builders /\ g.thinking = base.thinking /\ g.text = base.text
        /\ g.calls = Grow(base.calls, at, f.args)
        /\ DOMAIN g.byIndex = DOMAIN base.byIndex \cup {f.index}
        /\ g.byIndex[f.index] = at
        /\ \A j \in DOMAIN base.byIndex \ {f.index} :
             g.byIndex[j] = base.byIndex[j]
    BY <1>5, <2>6, MergesMore
  <2>8. /\ c \in Builders /\ c.thinking = m.thinking /\ c.text = m.text
        /\ c.calls = Grow(d.calls, k + 1, <<piece>>)
        /\ DOMAIN c.byIndex = DOMAIN d.byIndex
        /\ \A j \in DOMAIN d.byIndex : c.byIndex[j] = d.byIndex[j]
    <3> HIDE DEF g, at
    <3>1. c = g /\ at = k + 1
      BY <2>1, <2>6 DEF g, at
    <3>2. QED
      BY <1>5, <1>8, <2>1, <2>4, <2>7, <3>1
  <2>9. /\ Len(c.calls) = Len(d.calls)
        /\ c.calls[k + 1]
             = [id |-> d.calls[k + 1].id,
                 args |-> d.calls[k + 1].args \o <<piece>>]
        /\ \A j \in 1..Len(d.calls) \ {k + 1} : c.calls[j] = d.calls[j]
    <3> DEFINE more == <<piece>>
               grown == Grow(d.calls, k + 1, more)
    <3>1. more \in Seq(Pieces)
      BY <1>3
    <3> HIDE DEF more
    <3>2. /\ Len(grown) = Len(d.calls)
          /\ grown[k + 1] = [id |-> d.calls[k + 1].id,
                             args |-> d.calls[k + 1].args \o more]
          /\ \A j \in 1..Len(d.calls) \ {k + 1} : grown[j] = d.calls[j]
      BY <1>1, <2>2, <3>1, GrowElements
    <3>3. QED
      BY <2>8, <3>2 DEF more
  <2>10. c.calls[k + 1] = Sofar(call, n)
    <3> HIDE DEF call
    <3>1. d.calls[k + 1].id = call.id
          /\ d.calls[k + 1].args = SubSeq(call.args, 1, n - 1)
      BY <2>3 DEF Sofar
    <3>2. QED
      BY <1>7, <2>9, <3>1 DEF Sofar
  <2>11. ASSUME NEW j \in 1..Len(c.calls)
         PROVE  /\ c.calls[j]
                    = Sofar(m.calls[j], IF j <= k + 1 THEN n ELSE n - 1)
                /\ j - 1 \in DOMAIN c.byIndex /\ c.byIndex[j - 1] = j
    <3>1. j \in 1..Len(d.calls)
      BY <2>9
    <3>2. j - 1 \in DOMAIN c.byIndex /\ c.byIndex[j - 1] = j
      BY <1>8, <2>8, <3>1
    <3>3. CASE j = k + 1
      BY <1>1, <2>10, <3>2, <3>3
    <3>4. CASE j # k + 1
      <4>1. j <= k + 1 <=> j <= k
        BY <1>1, <3>1, <3>4
      <4>2. d.calls[j] = Sofar(m.calls[j], IF j <= k THEN n ELSE n - 1)
        BY <1>8, <3>1
      <4>3. c.calls[j] = d.calls[j]
        BY <2>9, <3>1, <3>4
      <4>4. QED
        BY <3>2, <4>1, <4>2, <4>3
    <3>5. QED
      BY <3>3, <3>4
  <2>12. Rounded(c, m, n, k + 1)
    BY <1>10, <2>2, <2>8, <2>9, <2>11 DEF Rounded
  <2>13. QED
    BY <2>12 DEF c, e
<1>11. QED
  BY <1>9, <1>10

\* A round.
LEMMA RoundAbsorbed ==
  ASSUME NEW m, Numbered(m.calls), NEW n \in 1..Chunks, NEW b,
         Rounded(b, m, n, 0)
  PROVE  Rounded(Absorbing!Fold(b, Round(m.calls, n)), m, n + 1, 0)
<1> DEFINE es == Round(m.calls, n)
           I == [k \in 0..Len(es) |-> {d \in Builders : Rounded(d, m, n, k)}]
<1>1. es \in Seq(ChatEventSet) /\ Len(es) = Len(m.calls) /\ Len(es) \in Nat
  <2>1. m.calls \in Seq(CallSet)
        /\ \A k \in 1..Len(m.calls) : Len(m.calls[k].args) = Chunks
    BY DEF Numbered
  <2>2. es \in Seq(ChatEventSet)
    BY <2>1, RoundType
  <2>3. Len(es) = Len(m.calls) /\ Len(m.calls) \in Nat
    BY <2>1 DEF Round
  <2>4. QED
    BY <2>2, <2>3
<1> HIDE DEF es
<1>2. b \in I[0] /\ 0 \in 0..Len(es) /\ Len(es) \in 0..Len(es)
  BY <1>1 DEF Rounded
<1>3. ASSUME NEW k \in 0..(Len(es) - 1), NEW d \in I[k]
      PROVE  Absorb(d, es[k + 1]) \in I[k + 1]
  <2>1. k \in 0..(Len(m.calls) - 1) /\ k \in 0..Len(es) /\ k + 1 \in 0..Len(es)
    BY <1>1
  <2>2. Rounded(d, m, n, k)
    BY <2>1
  <2>3. Rounded(Absorb(d, es[k + 1]), m, n, k + 1)
    BY <2>1, <2>2, RoundStep DEF es
  <2>4. QED
    BY <2>1, <2>3 DEF Rounded
<1> DEFINE c == Absorbing!Fold(b, es)
<1>4. c \in I[Len(es)]
  <2> HIDE DEF I
  <2>1. QED
    BY <1>1, <1>2, <1>3, Absorbing!FoldInvariant
<1>5. Rounded(c, m, n, Len(m.calls))
  BY <1>1, <1>2, <1>4
<1> HIDE DEF c
<1>6. Rounded(c, m, n + 1, 0)
  <2>1. /\ c \in Builders /\ c.thinking = m.thinking /\ c.text = m.text
        /\ Len(c.calls) = Len(m.calls)
    BY <1>5 DEF Rounded
  <2>2. n \in Nat /\ n + 1 # 1 /\ (n + 1) - 1 = n
    BY StreamAssumption
  <2>3. ASSUME NEW j \in 1..Len(c.calls)
        PROVE  /\ c.calls[j] = Sofar(m.calls[j], IF j <= 0 THEN n + 1
                                                 ELSE (n + 1) - 1)
               /\ j - 1 \in DOMAIN c.byIndex /\ c.byIndex[j - 1] = j
    <3>1. /\ c.calls[j] = Sofar(m.calls[j],
                                IF j <= Len(m.calls) THEN n ELSE n - 1)
          /\ j - 1 \in DOMAIN c.byIndex /\ c.byIndex[j - 1] = j
      BY <1>5 DEF Rounded
    <3>2. j <= Len(m.calls) /\ ~(j <= 0)
      BY <1>1, <2>1
    <3>3. QED
      BY <2>2, <3>1, <3>2
  <2>4. QED
    BY <2>1, <2>2, <2>3 DEF Rounded
<1>7. QED
  BY <1>6 DEF c, es

\* All rounds say the calls.
LEMMA RoundsAbsorbed ==
  ASSUME NEW m, Numbered(m.calls), NEW b, Spoke(b, m)
  PROVE  Says(Absorbing!Fold(b, Flat([n \in 1..Chunks |-> Round(m.calls, n)])),
              m)
<1> DEFINE ss == [n \in 1..Chunks |-> Round(m.calls, n)]
           c(n) == Absorbing!Fold(b, Flat(SubSeq(ss, 1, n)))
           T == {n \in Nat : n <= Chunks => Rounded(c(n), m, n + 1, 0)}
<1>1. /\ m.calls \in Seq(CallSet) /\ Len(m.calls) \in Nat
      /\ \A k \in 1..Len(m.calls) : Len(m.calls[k].args) = Chunks
  BY DEF Numbered
<1>2. ss \in Seq(Seq(ChatEventSet))
  <2> DEFINE cs == m.calls
  <2>1. cs \in Seq(CallSet) /\ \A k \in 1..Len(cs) : Len(cs[k].args) = Chunks
    BY <1>1
  <2> HIDE DEF cs
  <2>2. [n \in 1..Chunks |-> Round(cs, n)] \in Seq(Seq(ChatEventSet))
    BY <2>1, RoundsType
  <2>3. QED
    BY <2>2 DEF cs
<1>3. Len(ss) = Chunks /\ Chunks \in Nat
      /\ \A n \in 1..Chunks : ss[n] = Round(m.calls, n)
  BY StreamAssumption
<1> HIDE DEF ss
<1>4. 0 \in T
  <2>1. c(0) = b
    BY <1>2, FlatAbsorbed
  <2> HIDE DEF c
  <2>2. Rounded(b, m, 1, 0)
    <3>1. Len(b.calls) = 0 /\ 1..0 = {}
      BY EmptySeq DEF Spoke
    <3>2. QED
      BY <3>1 DEF Spoke, Rounded
  <2>3. QED
    BY <2>1, <2>2
<1>5. ASSUME NEW n \in Nat, n \in T PROVE n + 1 \in T
  <2>1. SUFFICES ASSUME n + 1 <= Chunks
                 PROVE  Rounded(c(n + 1), m, (n + 1) + 1, 0)
    OBVIOUS
  <2> DEFINE j == n + 1
  <2>2. j \in 1..Chunks /\ j \in 1..Len(ss) /\ j - 1 = n /\ n <= Chunks
    BY <1>3, <2>1
  <2>3. Rounded(c(j - 1), m, j, 0)
    BY <1>5, <2>2
  <2> HIDE DEF j
  <2>4. c(j) = Absorbing!Fold(c(j - 1), ss[j])
    BY <1>2, <2>2, FlatAbsorbed
  <2> HIDE DEF c
  <2>5. ss[j] = Round(m.calls, j)
    BY <1>3, <2>2
  <2>6. Rounded(Absorbing!Fold(c(j - 1), Round(m.calls, j)), m, j + 1, 0)
    BY <2>2, <2>3, RoundAbsorbed
  <2>7. QED
    BY <2>4, <2>5, <2>6 DEF j
<1>6. Nat \subseteq T
  <2> HIDE DEF T
  <2>1. QED
    BY <1>4, <1>5, Flattening!EveryNumber
<1>7. SubSeq(ss, 1, Chunks) = ss
  BY <1>2, <1>3, FlatAbsorbed
<1> DEFINE d == Absorbing!Fold(b, Flat(ss))
<1>8. Rounded(d, m, Chunks + 1, 0)
  <2>1. Chunks \in T /\ Chunks <= Chunks
    BY <1>3, <1>6
  <2> HIDE DEF c
  <2>2. Rounded(c(Chunks), m, Chunks + 1, 0)
    BY <2>1
  <2>3. QED
    BY <1>7, <2>2 DEF c
<1> HIDE DEF d
<1>9. Says(d, m)
  <2>1. /\ d \in Builders /\ d.thinking = m.thinking /\ d.text = m.text
        /\ Len(d.calls) = Len(m.calls)
    BY <1>8, StreamAssumption DEF Rounded
  <2>2. ASSUME NEW j \in 1..Len(d.calls) PROVE d.calls[j] = m.calls[j]
    <3>1. ~(j <= 0) /\ (Chunks + 1) - 1 = Chunks /\ j \in 1..Len(m.calls)
      BY <1>1, <1>3, <2>1
    <3>2. d.calls[j] = Sofar(m.calls[j], Chunks)
      <4>1. d.calls[j] = Sofar(m.calls[j], IF j <= 0 THEN Chunks + 1
                                           ELSE (Chunks + 1) - 1)
        BY <1>8 DEF Rounded
      <4>2. QED
        BY <3>1, <4>1
    <3> DEFINE call == m.calls[j]
    <3>3. call \in CallSet /\ Len(call.args) = Chunks
      BY <1>1, <3>1
    <3> HIDE DEF call
    <3>4. SubSeq(call.args, 1, Chunks) = call.args
      BY <3>3 DEF CallSet
    <3>5. Sofar(call, Chunks) = call
      BY <3>3, <3>4 DEF Sofar, CallSet
    <3>6. QED
      BY <3>2, <3>5 DEF call
  <2>3. d.calls \in Seq(CallSet)
    BY <2>1 DEF Builders
  <2>4. d.calls = m.calls
    BY <1>1, <2>1, <2>2, <2>3, SeqEqual
  <2>5. QED
    BY <2>1, <2>4 DEF Says
<1>10. QED
  BY <1>9 DEF d, ss

\* So does an event with all calls.
LEMMA TogetherAbsorbed ==
  ASSUME NEW m, Numbered(m.calls), NEW b, Spoke(b, m)
  PROVE  Says(Absorb(b, Together(m.calls)), m)
<1> DEFINE cs == m.calls
           fs == [k \in DOMAIN cs |-> Fragment(cs[k].id, 0, cs[k].args)]
           c == Absorb(b, Together(cs))
<1>1. /\ cs \in Seq(CallSet) /\ Len(cs) \in Nat /\ DOMAIN cs = 1..Len(cs)
      /\ b \in Builders
  BY DEF Numbered, Spoke
<1>2. DeltaOf(Together(cs)) = CallDelta(fs)
  BY ChatDelta DEF Together
<1>3. ASSUME NEW k \in 1..Len(cs)
      PROVE  /\ fs[k] \in Fragments /\ fs[k].id = cs[k].id
             /\ fs[k].args = cs[k].args /\ fs[k].id # NoId
             /\ cs[k] = [id |-> cs[k].id, args |-> cs[k].args]
             /\ \A l \in 1..(k - 1) : cs[l].id # cs[k].id
  <2>1. fs[k] = Fragment(cs[k].id, 0, cs[k].args)
    BY <1>1
  <2>2. cs[k] \in CallSet /\ 0 \in Nat
    BY <1>1
  <2>3. cs[k].id \in Nat /\ cs[k].args \in Seq(Pieces)
        /\ cs[k] = [id |-> cs[k].id, args |-> cs[k].args]
    BY <2>2 DEF CallSet
  <2>4. cs[k].id # NoId
    BY DEF Numbered, NoId
  <2>5. ASSUME NEW l \in 1..(k - 1) PROVE cs[l].id # cs[k].id
    <3>1. l \in 1..Len(cs)
      BY <1>1
    <3>2. cs[l].id < cs[k].id /\ cs[l].id \in Nat
      BY <3>1 DEF Numbered
    <3>3. QED
      BY <2>3, <3>2
  <2> HIDE DEF cs, fs
  <2>6. fs[k] \in Fragments
    BY <2>1, <2>2, <2>3, FragmentType
  <2>7. fs[k].id = cs[k].id /\ fs[k].args = cs[k].args
    BY <2>1 DEF Fragment
  <2>8. QED
    BY <2>3, <2>4, <2>5, <2>6, <2>7
<1>4. fs \in Seq(Fragments) /\ Len(fs) = Len(cs)
  <2>1. fs = [k \in 1..Len(cs) |-> fs[k]]
    BY <1>1
  <2>2. \A k \in 1..Len(cs) : fs[k] \in Fragments
    BY <1>3
  <2> DEFINE F == Fragments
  <2>3. \A k \in 1..Len(cs) : fs[k] \in F
    BY <2>2
  <2> HIDE DEF F, fs, cs
  <2>4. fs \in Seq(F) /\ Len(fs) = Len(cs)
    BY <1>1, <2>1, <2>3
  <2>5. QED
    BY <2>4 DEF F
<1>5. b.calls = <<>> /\ b.thinking = m.thinking /\ b.text = m.text
  BY DEF Spoke
<1> HIDE DEF fs, c, cs
<1>6. CASE fs = <<>>
  <2>1. Len(cs) = 0
    BY <1>4, <1>6
  <2>2. cs = <<>>
    BY <1>1, <2>1, EmptySeq
  <2>3. DeltaOf(Together(cs)) = CallDelta(<<>>)
    BY <1>2, <1>6
  <2>4. IsEmpty(CallDelta(<<>>))
    BY DEF IsEmpty, CallDelta, NoDelta
  <2>5. c = b
    BY <2>3, <2>4 DEF c, Absorb
  <2>6. QED
    BY <1>1, <1>5, <2>2, <2>5 DEF Says, c, cs
<1>7. CASE fs # <<>>
  <2>1. PICK base \in Builders :
          /\ base.thinking = b.thinking /\ base.text = b.text
          /\ base.calls = b.calls /\ base.byIndex = b.byIndex
          /\ c = Merging!Fold(base, fs)
    BY <1>1, <1>2, <1>4, <1>7, AbsorbsFragments DEF c
  <2> DEFINE I == [k \in 0..Len(fs) |->
                     {d \in Builders :
                        /\ d.thinking = m.thinking /\ d.text = m.text
                        /\ d.calls = SubSeq(cs, 1, k)}]
  <2>2. base \in I[0] /\ Len(fs) \in 0..Len(fs)
    <3>1. SubSeq(cs, 1, 0) = <<>> /\ 0 \in 0..Len(fs) /\ Len(fs) \in 0..Len(fs)
      BY <1>1, <1>4
    <3>2. QED
      BY <1>5, <2>1, <3>1
  <2>3. ASSUME NEW k \in 0..(Len(fs) - 1), NEW d \in I[k]
        PROVE  MergeCall(d, fs[k + 1]) \in I[k + 1]
    <3>1. /\ k \in 0..Len(fs) /\ k + 1 \in 0..Len(fs) /\ k + 1 \in 1..Len(cs)
          /\ k \in Nat
      BY <1>1, <1>4
    <3>2. /\ d \in Builders /\ d.thinking = m.thinking /\ d.text = m.text
          /\ d.calls = SubSeq(cs, 1, k)
      BY <3>1
    <3>3. /\ Len(d.calls) = k
          /\ \A l \in 1..k : d.calls[l] = cs[l]
      BY <1>1, <3>1, <3>2
    <3> DEFINE f == fs[k + 1]
               g == MergeCall(d, f)
    <3>4. /\ f \in Fragments /\ f.id = cs[k + 1].id /\ f.id # NoId
          /\ [id |-> f.id, args |-> f.args] = cs[k + 1]
          /\ \A l \in 1..k : cs[l].id # f.id
      <4> DEFINE j == k + 1
      <4>1. j \in 1..Len(cs) /\ j - 1 = k
        BY <3>1
      <4> HIDE DEF j
      <4>2. /\ fs[j] \in Fragments /\ fs[j].id = cs[j].id /\ fs[j].id # NoId
            /\ fs[j].args = cs[j].args
            /\ cs[j] = [id |-> cs[j].id, args |-> cs[j].args]
        BY <1>3, <4>1
      <4>3. \A l \in 1..(j - 1) : cs[l].id # cs[j].id
        BY <1>3, <4>1
      <4>4. \A l \in 1..k : cs[l].id # fs[j].id
        BY <4>1, <4>2, <4>3
      <4>5. [id |-> fs[j].id, args |-> fs[j].args] = cs[j]
        BY <4>2
      <4>6. QED
        BY <4>2, <4>4, <4>5 DEF j
    <3> HIDE DEF f
    <3>5. \A l \in 1..Len(d.calls) : d.calls[l].id # f.id
      BY <3>3, <3>4
    <3>6. /\ g \in Builders /\ g.thinking = d.thinking /\ g.text = d.text
          /\ g.calls = Append(d.calls, [id |-> f.id, args |-> f.args])
      BY <3>2, <3>4, <3>5, MergesNew
    <3>7. SubSeq(cs, 1, k + 1) = Append(SubSeq(cs, 1, k), cs[k + 1])
      <4> DEFINE s == SubSeq(cs, 1, k + 1)
                 t == Append(SubSeq(cs, 1, k), cs[k + 1])
      <4>1. s \in Seq(CallSet) /\ t \in Seq(CallSet) /\ Len(s) = k + 1
            /\ Len(t) = k + 1
        BY <1>1, <3>1
      <4>2. ASSUME NEW l \in 1..(k + 1) PROVE s[l] = cs[l] /\ t[l] = cs[l]
        <5> DEFINE u == SubSeq(cs, 1, k)
        <5>1. u \in Seq(CallSet) /\ Len(u) = k /\ k \in Nat
              /\ \A i \in 1..k : u[i] = cs[i]
          BY <1>1, <3>1
        <5>2. s[l] = cs[l]
          BY <1>1, <3>1
        <5> HIDE DEF u
        <5>3. Append(u, cs[k + 1])[l] = cs[l]
          BY <5>1
        <5>4. QED
          BY <5>2, <5>3 DEF u
      <4> HIDE DEF s, t
      <4>3. s = t
        BY <4>1, <4>2, SeqEqual
      <4>4. QED
        BY <4>3 DEF s, t
    <3> HIDE DEF g
    <3>8. g \in I[k + 1]
      BY <3>1, <3>2, <3>4, <3>6, <3>7
    <3>9. QED
      BY <3>8 DEF g, f
  <2>4. Merging!Fold(base, fs) \in I[Len(fs)]
    <3> HIDE DEF I
    <3>1. QED
      BY <1>4, <2>2, <2>3, Merging!FoldInvariant
  <2>5. SubSeq(cs, 1, Len(fs)) = cs
    BY <1>1, <1>4
  <2>6. /\ c \in Builders /\ c.thinking = m.thinking /\ c.text = m.text
        /\ c.calls = cs
    BY <2>1, <2>2, <2>4, <2>5
  <2>7. QED
    BY <2>6 DEF Says, c, cs
<1>8. QED
  BY <1>6, <1>7

-----------------------------------------------------------------------------
(* The message.                                                            *)

\* The first event of a chat stream, which has a role only.
LEMMA RoleAbsorbed ==
  LET first == ChatEvent([NoDelta EXCEPT !.role = TRUE])
      b == Absorb(EmptyBuilder, first)
  IN  Says(b, Unsaid) /\ Spoke(b, Unsaid)
<1> DEFINE d == [NoDelta EXCEPT !.role = TRUE]
           e == EmptyBuilder
           base == [e EXCEPT !.role = TRUE, !.thinking = @ \o d.thinking,
                             !.text = @ \o d.text]
           c == Absorb(e, ChatEvent(d))
<1>1. /\ d.role = TRUE /\ d.thinking = <<>> /\ d.text = <<>> /\ d.calls = <<>>
  BY DEF NoDelta
<1>2. ~IsEmpty(d)
  BY <1>1 DEF IsEmpty
<1>3. DeltaOf(ChatEvent(d)) = d
  BY ChatDelta
<1>4. c = FoldLeft(MergeCall, base, d.calls)
  BY <1>2, <1>3 DEF Absorb, Update
<1>5. FoldLeft(MergeCall, base, <<>>) = base
  BY Merging!FoldEmpty, SameFolds
<1>6. c = base
  BY <1>1, <1>4, <1>5
<1>7. /\ e \in Builders /\ e.thinking = <<>> /\ e.text = <<>>
      /\ e.calls = <<>> /\ e.byIndex = <<>> /\ <<>> \o <<>> = <<>>
      /\ <<>> \in Seq(Pieces)
  BY EmptyType DEF EmptyBuilder
<1> HIDE DEF e
<1>8. /\ base.thinking = <<>> /\ base.text = <<>> /\ base.calls = <<>>
      /\ base.byIndex = <<>>
  BY <1>1, <1>7 DEF Builders
<1>9. base \in Builders
  <2>1. e.thinking \o d.thinking \in Seq(Pieces)
        /\ e.text \o d.text \in Seq(Pieces)
    BY <1>1, <1>7
  <2>2. QED
    BY <1>7, <2>1 DEF Builders
<1> HIDE DEF base, c, d
<1>10. DOMAIN <<>> = {}
  OBVIOUS
<1>11. Says(c, Unsaid)
  BY <1>6, <1>8, <1>9 DEF Says, Unsaid
<1>12. Spoke(c, Unsaid)
  BY <1>6, <1>8, <1>9, <1>10 DEF Spoke, Unsaid
<1>13. QED
  BY <1>11, <1>12 DEF c, d, e

\* The events of a chat stream between the first and the last two.
LEMMA ChatAbsorbed ==
  ASSUME NEW message \in Seq(PartKinds), NEW style \in Styles, NEW b,
         Says(b, Unsaid), Spoke(b, Unsaid)
  PROVE  Says(Absorbing!Fold(b, ChatEvents(style, message)), Meant(message))
<1> DEFINE m == Meant(message)
           calls == m.calls
           spoken == SpokenParts(message)
           d == Absorbing!Fold(b, spoken)
<1>1. Whole(message).calls = calls
  BY DEF Whole, Build
<1>2. Numbered(m.calls)
  BY <1>1, CallsFit
<1>3. spoken \in Seq(ChatEventSet)
  BY PartsType
<1>4. Spoke(d, m)
  BY SpokenAbsorbed
<1> HIDE DEF m, spoken, d
<1>5. CASE style = "interleaved"
  <2> DEFINE rounds == Flat([n \in 1..Chunks |-> Round(calls, n)])
  <2>1. ChatEvents(style, message) = spoken \o rounds
    BY <1>1, <1>5 DEF ChatEvents, spoken
  <2>2. calls \in Seq(CallSet)
        /\ \A k \in 1..Len(calls) : Len(calls[k].args) = Chunks
    BY <1>2 DEF Numbered
  <2>3. rounds \in Seq(ChatEventSet)
    <3> HIDE DEF calls
    <3>1. QED
      BY <2>2, RoundsType
  <2>4. Says(Absorbing!Fold(d, rounds), m)
    BY <1>2, <1>4, RoundsAbsorbed
  <2> HIDE DEF rounds
  <2>5. Absorbing!Fold(b, spoken \o rounds) = Absorbing!Fold(d, rounds)
    BY <1>3, <2>3, Absorbing!FoldJoined DEF d
  <2>6. QED
    BY <2>1, <2>4, <2>5 DEF m
<1>6. CASE style = "together"
  <2> DEFINE e == Together(calls)
  <2>1. ChatEvents(style, message) = spoken \o <<e>>
    BY <1>1, <1>6 DEF ChatEvents, spoken
  <2>2. e \in ChatEventSet
    <3>1. calls \in Seq(CallSet)
          /\ \A k \in 1..Len(calls) : Len(calls[k].args) = Chunks
      BY <1>2 DEF Numbered
    <3> HIDE DEF calls
    <3>2. QED
      BY <3>1, RoundType
  <2>3. Says(Absorb(d, e), m)
    BY <1>2, <1>4, TogetherAbsorbed
  <2> HIDE DEF e
  <2>4. spoken \o <<e>> = Append(spoken, e)
    BY <1>3, <2>2
  <2>5. Absorbing!Fold(b, Append(spoken, e)) = Absorb(d, e)
    BY <1>3, <2>2, Absorbing!FoldAppend DEF d
  <2>6. QED
    BY <2>1, <2>3, <2>4, <2>5 DEF m
<1>7. CASE style \notin {"interleaved", "together"}
  <2> DEFINE ss == [i \in DOMAIN message |-> ChatPart(style, message, i)]
  <2>1. ChatEvents(style, message) = Flat(ss)
    BY <1>7 DEF ChatEvents, ChatParts
  <2>2. ss \in Seq(Seq(ChatEventSet))
    BY PartsType
  <2>3. Len(ss) = Len(message)
        /\ \A i \in 1..Len(ss) : ss[i] = ChatPart(style, message, i)
    OBVIOUS
  <2> HIDE DEF ss
  <2>4. Says(Absorbing!Fold(b, Flat(ss)), m)
    BY <2>2, <2>3, PartsAbsorbed DEF m
  <2>5. QED
    BY <2>1, <2>4 DEF m
<1>8. QED
  BY <1>5, <1>6, <1>7

\* The blocks of the Messages protocol.
LEMMA BlocksAbsorbed ==
  ASSUME NEW message \in Seq(PartKinds), NEW b, Says(b, Unsaid)
  PROVE  Says(Absorbing!Fold(b, Flat([i \in DOMAIN message |->
                                        Block(message, i)])), Meant(message))
<1> DEFINE ss == [i \in DOMAIN message |-> Block(message, i)]
<1>1. ss \in Seq(Seq(BlockEventSet))
  BY BlocksType
<1>2. Len(ss) = Len(message)
      /\ \A i \in 1..Len(ss) : ss[i] = Block(message, i)
  OBVIOUS
<1> HIDE DEF ss
<1>3. Says(Absorbing!Fold(b, Flat(ss)), Meant(message))
  BY <1>1, <1>2, PartsAbsorbed
<1>4. QED
  BY <1>3 DEF ss

\* A script between events that bring nothing but a role.
LEMMA Between ==
  ASSUME NEW S, NEW first \in S, NEW es \in Seq(S), NEW last \in S,
         NEW end \in S,
         Absorb(Absorbing!Fold(Absorb(EmptyBuilder, first), es), last)
           = Absorbing!Fold(Absorb(EmptyBuilder, first), es),
         Absorb(Absorbing!Fold(Absorb(EmptyBuilder, first), es), end)
           = Absorbing!Fold(Absorb(EmptyBuilder, first), es)
  PROVE  Absorbed(<<first>> \o es \o <<last, end>>)
           = Absorbing!Fold(Absorb(EmptyBuilder, first), es)
<1> DEFINE u == <<first>>
           v == u \o es
           w == Append(v, last)
           c == Absorbing!Fold(Absorb(EmptyBuilder, first), es)
<1>1. u = Append(<<>>, first) /\ <<>> \in Seq(S)
  OBVIOUS
<1>2. u \in Seq(S)
  OBVIOUS
<1>3. v \in Seq(S)
  BY <1>2
<1>4. w \in Seq(S)
  BY <1>3
<1>5. u \o es \o <<last, end>> = Append(w, end)
  <2> HIDE DEF v
  <2>1. v \o <<last, end>> = Append(Append(v, last), end)
    BY <1>3
  <2>2. QED
    BY <2>1 DEF v, w
<1>6. Absorbing!Fold(EmptyBuilder, u) = Absorb(EmptyBuilder, first)
  <2> DEFINE none == <<>>
  <2>1. none \in Seq(S)
    OBVIOUS
  <2>2. Absorbing!Fold(EmptyBuilder, none) = EmptyBuilder
    BY Absorbing!FoldEmpty
  <2> HIDE DEF none, u
  <2>3. Absorbing!Fold(EmptyBuilder, Append(none, first))
          = Absorb(Absorbing!Fold(EmptyBuilder, none), first)
    BY <2>1, Absorbing!FoldAppend
  <2>4. QED
    BY <1>1, <2>2, <2>3 DEF none
<1>7. Absorbing!Fold(EmptyBuilder, v) = c
  <2> HIDE DEF u
  <2>1. Absorbing!Fold(EmptyBuilder, u \o es)
          = Absorbing!Fold(Absorbing!Fold(EmptyBuilder, u), es)
    BY <1>2, Absorbing!FoldJoined
  <2>2. QED
    BY <1>6, <2>1
<1>8. Absorbing!Fold(EmptyBuilder, w) = c
  <2> HIDE DEF v
  <2>1. Absorbing!Fold(EmptyBuilder, Append(v, last))
          = Absorb(Absorbing!Fold(EmptyBuilder, v), last)
    BY <1>3, Absorbing!FoldAppend
  <2>2. QED
    BY <1>7, <2>1
<1>9. Absorbing!Fold(EmptyBuilder, Append(w, end)) = c
  <2> HIDE DEF w
  <2>1. Absorbing!Fold(EmptyBuilder, Append(w, end))
          = Absorb(Absorbing!Fold(EmptyBuilder, w), end)
    BY <1>4, Absorbing!FoldAppend
  <2>2. QED
    BY <1>8, <2>1
<1>10. QED
  BY <1>5, <1>9, SameFolds DEF Absorbed

-----------------------------------------------------------------------------
(* The whole script.                                                       *)

\* What a whole response brings to an empty builder is the message, however
\* its provider cuts it up.
THEOREM ScriptAbsorbed ==
  ASSUME NEW kind \in {"openai", "anthropic"}, NEW style \in Styles,
         NEW message \in Seq(PartKinds)
  PROVE  Build(Absorbed(Script(kind, style, message))) = Whole(message)
<1> DEFINE all == Absorbed(Script(kind, style, message))
<1>1. CASE kind = "openai"
  <2> DEFINE first == ChatEvent([NoDelta EXCEPT !.role = TRUE])
             last == ChatEvent(NoDelta)
             end == Event("[DONE]")
             es == ChatEvents(style, message)
             S == ChatEventSet \cup {end}
             b == Absorb(EmptyBuilder, first)
             c == Absorbing!Fold(b, es)
  <2>1. Says(b, Unsaid) /\ Spoke(b, Unsaid)
    BY RoleAbsorbed
  <2>2. Says(c, Meant(message))
    <3> HIDE DEF b
    <3>1. QED
      BY <2>1, ChatAbsorbed
  <2>3. es \in Seq(S)
    <3>1. es \in Seq(ChatEventSet)
      BY ChatEventsType
    <3> HIDE DEF es
    <3>2. QED
      BY <3>1
  <2>4. first \in S /\ last \in S /\ end \in S
    BY DeltaType DEF ChatEvent, ChatEventSet
  <2>5. Absorb(c, last) = c
    <3>1. DeltaOf(last) = NoDelta
      BY ChatDelta
    <3>2. IsEmpty(NoDelta)
      BY DEF IsEmpty, NoDelta
    <3>3. QED
      BY <3>1, <3>2 DEF Absorb
  <2>6. Absorb(c, end) = c
    <3>1. end.type = "[DONE]"
      BY DEF Event
    <3> HIDE DEF c, end
    <3>2. QED
      BY <3>1, NothingAbsorbed
  <2>7. Script(kind, style, message) = <<first>> \o es \o <<last, end>>
    BY <1>1 DEF Script, ChatScript
  <2> HIDE DEF first, last, end, es, S
  <2>8. Absorbed(<<first>> \o es \o <<last, end>>) = c
    BY <2>3, <2>4, <2>5, <2>6, Between
  <2>9. all = c
    BY <2>7, <2>8
  <2> HIDE DEF c, all
  <2>10. QED
    BY <2>2, <2>9 DEF Says, Build, Whole, all
<1>2. CASE kind = "anthropic"
  <2> DEFINE first == Event("message_start")
             last == Event("message_delta")
             end == Event("message_stop")
             es == Flat([i \in DOMAIN message |-> Block(message, i)])
             S == BlockEventSet \cup {first, last, end}
             b == Absorb(EmptyBuilder, first)
             c == Absorbing!Fold(b, es)
  <2>1. first.type = "message_start" /\ last.type = "message_delta"
        /\ end.type = "message_stop"
    BY DEF Event
  <2>2. b = EmptyBuilder
    <3> HIDE DEF first
    <3>1. QED
      BY <2>1, NothingAbsorbed
  <2>3. Says(b, Unsaid)
    BY <2>2, EmptyType DEF Says, EmptyBuilder, Unsaid
  <2>4. Says(c, Meant(message))
    <3> HIDE DEF b
    <3>1. QED
      BY <2>3, BlocksAbsorbed
  <2>5. es \in Seq(S)
    <3>1. es \in Seq(BlockEventSet)
      BY BlocksType
    <3> HIDE DEF es
    <3>2. QED
      BY <3>1
  <2>6. first \in S /\ last \in S /\ end \in S
    OBVIOUS
  <2>7. Script(kind, style, message) = <<first>> \o es \o <<last, end>>
    BY <1>2 DEF Script, MessagesScript
  <2> HIDE DEF first, last, end, es, S
  <2>8. Absorb(c, last) = c /\ Absorb(c, end) = c
    <3> HIDE DEF c
    <3>1. QED
      BY <2>1, NothingAbsorbed
  <2>9. Absorbed(<<first>> \o es \o <<last, end>>) = c
    BY <2>5, <2>6, <2>8, Between
  <2>10. all = c
    BY <2>7, <2>9
  <2> HIDE DEF c, all
  <2>11. QED
    BY <2>4, <2>10 DEF Says, Build, Whole, all
<1>3. QED
  BY <1>1, <1>2

\* A message that has parts says something.
LEMMA SaysSomething ==
  ASSUME NEW message \in Seq(PartKinds), message # <<>>
  PROVE  ~( /\ Whole(message).thinking = <<>> /\ Whole(message).text = <<>>
            /\ Whole(message).calls = <<>> )
<1> DEFINE n == Len(message)
           u == SubSeq(message, 1, n - 1)
           kind == message[n]
<1>1. n \in Nat \ {0}
  BY EmptySeq
<1>2. u \in Seq(PartKinds) /\ kind \in PartKinds /\ message = Append(u, kind)
  BY <1>1
<1> HIDE DEF u, kind
<1> DEFINE m == Meant(u)
           w == Meant(message)
           i == Len(u) + 1
<1>3. Fits(m, u) /\ w = AddPart(m, kind)
  BY <1>2, MeantFits, MeantSteps
<1>4. /\ m.thinking \in Seq(Pieces) /\ m.text \in Seq(Pieces)
      /\ m.calls \in Seq(CallSet)
  BY <1>3 DEF Fits
<1>5. i \in Nat /\ Part(i) \in Seq(Pieces) /\ Len(Part(i)) = Chunks
      /\ Chunks > 0
  BY <1>2, PartType, StreamAssumption
<1>6. Whole(message).thinking = w.thinking /\ Whole(message).text = w.text
      /\ Whole(message).calls = w.calls
  BY DEF Whole, Build
<1> HIDE DEF m, w
<1>7. CASE kind = "thinking"
  <2>1. w.thinking = m.thinking \o Part(i)
    BY <1>2, <1>3, <1>7, PartAdds
  <2> DEFINE p == Part(i)
  <2> HIDE DEF p, i
  <2>2. Len(m.thinking \o p) # 0
    BY <1>4, <1>5 DEF p
  <2>3. QED
    BY <1>6, <2>1, <2>2 DEF p
<1>8. CASE kind = "text"
  <2>1. w.text = m.text \o Part(i)
    BY <1>2, <1>3, <1>8, PartAdds
  <2> DEFINE p == Part(i)
  <2> HIDE DEF p, i
  <2>2. Len(m.text \o p) # 0
    BY <1>4, <1>5 DEF p
  <2>3. QED
    BY <1>6, <2>1, <2>2 DEF p
<1>9. CASE kind = "tool_use"
  <2>1. w.calls = Append(m.calls, Call(i))
    BY <1>2, <1>3, <1>9, PartAdds
  <2> DEFINE call == Call(i)
             calls == Append(m.calls, call)
  <2>2. call \in CallSet
    BY <1>5 DEF Call, CallSet
  <2> HIDE DEF call
  <2>3. Len(calls) # 0
    BY <1>4, <2>2
  <2>4. w.calls = calls
    BY <2>1 DEF call
  <2> HIDE DEF calls
  <2>5. w.calls # <<>>
    BY <2>3, <2>4
  <2>6. QED
    BY <1>6, <2>5
<1>10. QED
  BY <1>2, <1>7, <1>8, <1>9 DEF PartKinds

-----------------------------------------------------------------------------
(* The goroutines.                                                         *)

\* The script of the response at hand.
LEMMA OwnScript ==
  ASSUME StreamTypeOK
  PROVE  /\ model.message \in Seq(PartKinds)
         /\ script \in Seq(ProviderEvents) /\ Len(script) \in Nat \ {0}
         /\ script[Len(script)] = End(model.kind)
         /\ \A i \in 1..(Len(script) - 1) : script[i] \in Body(model.kind)
<1>1. /\ model.kind \in {"openai", "anthropic"} /\ model.style \in Styles
      /\ model.message \in Seq(PartKinds)
  BY StreamAssumption DEF StreamTypeOK
<1>2. QED
  BY <1>1, ScriptFacts DEF script

\* What is left of a script.
LEMMA Rest ==
  ASSUME NEW S, NEW s \in Seq(S), NEW n \in 0..Len(s), NEW w,
         w = SubSeq(s, n + 1, Len(s))
  PROVE  /\ Len(w) = Len(s) - n
         /\ \A i \in 1..Len(w) : w[i] = s[n + i]
         /\ w # <<>> =>
              /\ n + 1 \in 1..Len(s) /\ Head(w) = s[n + 1]
              /\ Tail(w) = SubSeq(s, n + 2, Len(s)) /\ Len(Tail(w)) = Len(w) - 1
         /\ w = <<>> => n = Len(s)
<1>1. /\ w \in Seq(S) /\ Len(w) = Len(s) - n
      /\ \A i \in 1..Len(w) : w[i] = s[n + i]
  OBVIOUS
<1>2. ASSUME w = <<>> PROVE n = Len(s)
  <2>1. Len(w) = 0
    BY <1>1, <1>2, EmptySeq
  <2>2. QED
    BY <1>1, <2>1
<1>3. ASSUME w # <<>>
      PROVE  /\ n + 1 \in 1..Len(s) /\ Head(w) = s[n + 1]
             /\ Len(Tail(w)) = Len(w) - 1
  BY <1>1, <1>3
<1>4. ASSUME w # <<>> PROVE Tail(w) = SubSeq(s, n + 2, Len(s))
  <2>1. Len(w) > 0 /\ n + 2 \in Int /\ Len(s) \in Nat
    BY <1>1, <1>4
  <2>2. Tail(w) \in Seq(S) /\ SubSeq(s, n + 2, Len(s)) \in Seq(S)
    BY <1>1, <1>4, <2>1
  <2>3. Len(Tail(w)) = Len(SubSeq(s, n + 2, Len(s)))
    BY <1>1, <1>3, <1>4, <2>1
  <2>4. \A i \in 1..Len(Tail(w)) :
          Tail(w)[i] = SubSeq(s, n + 2, Len(s))[i]
    BY <1>1, <1>3, <1>4, <2>1
  <2>5. QED
    BY <2>2, <2>3, <2>4, SeqEqual
<1>5. QED
  BY <1>1, <1>2, <1>3, <1>4

\* Nobody changes the response; a failure and a cancel are for good.
LEMMA Lasting ==
  ASSUME StreamTypeOK, [Next]_vars
  PROVE  /\ model' = model /\ script' = script
         /\ whole' => whole
         /\ mute => mute'
         /\ mute' => mute \/ ~whole'
         /\ ctxDone => ctxDone'
<1>1. model' = model
  BY DEF Next, Internal, vars, ProviderCloses, ConnectionCut,
         ProviderFails, Cancel, ReadEvent, ReaderCancelled, ReadEnds,
         CloseEvents, CloseErr, RelayReceives, RelaySeesClose, RelaySeesErr,
         RelayCancelled, AdapterConverts, AdapterSeesClose, AdapterReceives,
         AdapterSeesEnd, AdapterCancelled, Deliver, RangeEnds, ReaderSends,
         readerVars, relayVars, adapterVars, loopVars
<1>2. whole' = whole \/ whole' = FALSE
  BY DEF Next, Internal, vars, ProviderCloses, ConnectionCut,
         ProviderFails, Cancel, ReadEvent, ReaderCancelled, ReadEnds,
         CloseEvents, CloseErr, RelayReceives, RelaySeesClose, RelaySeesErr,
         RelayCancelled, AdapterConverts, AdapterSeesClose, AdapterReceives,
         AdapterSeesEnd, AdapterCancelled, Deliver, RangeEnds, ReaderSends,
         readerVars
<1>3. ctxDone' = ctxDone \/ ctxDone' = TRUE
  BY DEF Next, Internal, vars, ProviderCloses, ConnectionCut,
         ProviderFails, Cancel, ReadEvent, ReaderCancelled, ReadEnds,
         CloseEvents, CloseErr, RelayReceives, RelaySeesClose, RelaySeesErr,
         RelayCancelled, AdapterConverts, AdapterSeesClose, AdapterReceives,
         AdapterSeesEnd, AdapterCancelled, Deliver, RangeEnds, ReaderSends,
         readerVars
<1>4. mute' = mute \/ (mute' = TRUE /\ whole' = FALSE)
  BY DEF Next, Internal, vars, ProviderCloses, ConnectionCut,
         ProviderFails, Cancel, ReadEvent, ReaderCancelled, ReadEnds,
         CloseEvents, CloseErr, RelayReceives, RelaySeesClose, RelaySeesErr,
         RelayCancelled, AdapterConverts, AdapterSeesClose, AdapterReceives,
         AdapterSeesEnd, AdapterCancelled, Deliver, RangeEnds, ReaderSends
<1>5. QED
  BY <1>1, <1>2, <1>3, <1>4 DEF script

\* The invariant holds at the beginning.
LEMMA InvInit == Init => IInv
<1> SUFFICES ASSUME Init PROVE IInv
  OBVIOUS
<1>1. /\ model.kind \in {"openai", "anthropic"} /\ model.style \in Styles
      /\ model.message \in Messages
  BY DEF Init, Styles
<1>2. wire = script /\ script \in Seq(ProviderEvents)
      /\ Len(script) \in Nat \ {0}
      /\ script[Len(script)] = End(model.kind)
      /\ \A i \in 1..(Len(script) - 1) : script[i] \in Body(model.kind)
  BY <1>1, ScriptFacts, StreamAssumption DEF Init, script
<1>3. StreamTypeOK
  <2>1. wire \in Seq(StreamEvents)
    <3>1. ProviderEvents \subseteq StreamEvents
      BY DEF StreamEvents
    <3>2. QED
      BY <1>2, <3>1
  <2>2. QED
    BY <1>1, <2>1
       DEF Init, StreamTypeOK, Readers, Relays, Adapters, Outcomes
<1>4. FlowInv
  <2>1. HasRead = 0 /\ HasSent = 0 /\ HasConverted = 0 /\ HasMerged = 0
    BY <1>2 DEF Init, HasRead, HasSent, HasConverted, HasMerged
  <2>2. SubSeq(script, 1, Len(script)) = script
        /\ Absorbed(SubSeq(script, 1, 0)) = EmptyBuilder
    BY <1>2, AbsorbedSteps
  <2>3. QED
    BY <1>2, <2>1, <2>2 DEF Init, FlowInv, Unread, Held, Merged, Leaving
<1>5. CutInv
  BY DEF Init, CutInv
<1>6. CleanInv
  <2>1. SUFFICES ASSUME Anthropic
        PROVE \A i \in 1..Len(wire) : wire[i].type \notin Failures
    BY DEF Init, CleanInv
  <2>2. ASSUME NEW i \in 1..(Len(script) - 1)
        PROVE  script[i].type \notin Failures
    BY <1>1, <1>2, <2>2, BodyTypes
  <2>3. script[Len(script)].type \notin Failures
    BY <1>2 DEF End, Event, Failures
  <2>4. QED
    BY <1>2, <2>2, <2>3
<1>7. OutcomeInv
  BY DEF Init, OutcomeInv
<1>8. QED
  BY <1>3, <1>4, <1>5, <1>6, <1>7 DEF IInv

\* The types are kept.
LEMMA TypeStep == IInv /\ [Next]_vars => StreamTypeOK'
<1> SUFFICES ASSUME IInv, [Next]_vars PROVE StreamTypeOK'
  OBVIOUS
<1>1. StreamTypeOK
  BY DEF IInv
<1>2. model' = model
  BY <1>1, Lasting
<1>3. wire' \in Seq(StreamEvents)
  <2>1. /\ <<>> \in Seq(StreamEvents)
        /\ <<Event("broken")>> \in Seq(StreamEvents)
        /\ <<Event("error")>> \in Seq(StreamEvents)
        /\ <<Event("bareError")>> \in Seq(StreamEvents)
    BY DEF StreamEvents
  <2>2. wire # <<>> => Tail(wire) \in Seq(StreamEvents)
    BY <1>1 DEF StreamTypeOK
  <2>3. wire' \in {wire, <<>>, <<Event("broken")>>, <<Event("error")>>,
                  <<Event("bareError")>>}
          \/ (wire # <<>> /\ wire' = Tail(wire))
    BY DEF Next, Internal, vars, ProviderCloses, ConnectionCut,
         ProviderFails, Cancel, ReadEvent, ReaderCancelled, ReadEnds,
         CloseEvents, CloseErr, RelayReceives, RelaySeesClose, RelaySeesErr,
         RelayCancelled, AdapterConverts, AdapterSeesClose, AdapterReceives,
         AdapterSeesEnd, AdapterCancelled, Deliver, RangeEnds, ReaderSends,
         readerVars
  <2>4. QED
    BY <1>1, <2>1, <2>2, <2>3 DEF StreamTypeOK
<1>4. conn' \in {"open", "eof", "error"}
  BY <1>1 DEF StreamTypeOK, Next, Internal, vars, ProviderCloses, ConnectionCut,
         ProviderFails, Cancel, ReadEvent, ReaderCancelled, ReadEnds,
         CloseEvents, CloseErr, RelayReceives, RelaySeesClose, RelaySeesErr,
         RelayCancelled, AdapterConverts, AdapterSeesClose, AdapterReceives,
         AdapterSeesEnd, AdapterCancelled, Deliver, RangeEnds, ReaderSends,
         readerVars
<1>5. whole' \in BOOLEAN
  BY <1>1 DEF StreamTypeOK, Next, Internal, vars, ProviderCloses, ConnectionCut,
         ProviderFails, Cancel, ReadEvent, ReaderCancelled, ReadEnds,
         CloseEvents, CloseErr, RelayReceives, RelaySeesClose, RelaySeesErr,
         RelayCancelled, AdapterConverts, AdapterSeesClose, AdapterReceives,
         AdapterSeesEnd, AdapterCancelled, Deliver, RangeEnds, ReaderSends,
         readerVars
<1>6. streamErr' \in BOOLEAN /\ mute' \in BOOLEAN
  BY <1>1 DEF StreamTypeOK, Next, Internal, vars, ProviderCloses, ConnectionCut,
         ProviderFails, Cancel, ReadEvent, ReaderCancelled, ReadEnds,
         CloseEvents, CloseErr, RelayReceives, RelaySeesClose, RelaySeesErr,
         RelayCancelled, AdapterConverts, AdapterSeesClose, AdapterReceives,
         AdapterSeesEnd, AdapterCancelled, Deliver, RangeEnds, ReaderSends,
         readerVars
<1>7. ctxDone' \in BOOLEAN
  BY <1>1 DEF StreamTypeOK, Next, Internal, vars, ProviderCloses, ConnectionCut,
         ProviderFails, Cancel, ReadEvent, ReaderCancelled, ReadEnds,
         CloseEvents, CloseErr, RelayReceives, RelaySeesClose, RelaySeesErr,
         RelayCancelled, AdapterConverts, AdapterSeesClose, AdapterReceives,
         AdapterSeesEnd, AdapterCancelled, Deliver, RangeEnds, ReaderSends,
         readerVars
<1>8. reader' \in Readers
  BY <1>1 DEF StreamTypeOK, Next, Internal, vars, ProviderCloses, ConnectionCut,
         ProviderFails, Cancel, ReadEvent, ReaderCancelled, ReadEnds,
         CloseEvents, CloseErr, RelayReceives, RelaySeesClose, RelaySeesErr,
         RelayCancelled, AdapterConverts, AdapterSeesClose, AdapterReceives,
         AdapterSeesEnd, AdapterCancelled, Deliver, RangeEnds, ReaderSends,
         Readers, readerVars
<1>9. relay' \in Relays
  BY <1>1 DEF StreamTypeOK, Next, Internal, vars, ProviderCloses, ConnectionCut,
         ProviderFails, Cancel, ReadEvent, ReaderCancelled, ReadEnds,
         CloseEvents, CloseErr, RelayReceives, RelaySeesClose, RelaySeesErr,
         RelayCancelled, AdapterConverts, AdapterSeesClose, AdapterReceives,
         AdapterSeesEnd, AdapterCancelled, Deliver, RangeEnds, ReaderSends,
         Relays, EmitError, Anthropic, relayVars
<1>10. adapter' \in Adapters
  BY <1>1 DEF StreamTypeOK, Next, Internal, vars, ProviderCloses, ConnectionCut,
         ProviderFails, Cancel, ReadEvent, ReaderCancelled, ReadEnds,
         CloseEvents, CloseErr, RelayReceives, RelaySeesClose, RelaySeesErr,
         RelayCancelled, AdapterConverts, AdapterSeesClose, AdapterReceives,
         AdapterSeesEnd, AdapterCancelled, Deliver, RangeEnds, ReaderSends,
         Adapters, adapterVars
<1>11. loop' \in Outcomes
  BY <1>1 DEF StreamTypeOK, Next, Internal, vars, ProviderCloses, ConnectionCut,
         ProviderFails, Cancel, ReadEvent, ReaderCancelled, ReadEnds,
         CloseEvents, CloseErr, RelayReceives, RelaySeesClose, RelaySeesErr,
         RelayCancelled, AdapterConverts, AdapterSeesClose, AdapterReceives,
         AdapterSeesEnd, AdapterCancelled, Deliver, RangeEnds, ReaderSends,
         Outcomes, loopVars
<1>12. Relays' = Relays
  BY <1>2 DEF Relays, Anthropic
<1>13. adapter' = "last" => chunk' = FailureChunk
  BY <1>1 DEF StreamTypeOK, Next, Internal, vars, ProviderCloses, ConnectionCut,
         ProviderFails, Cancel, ReadEvent, ReaderCancelled, ReadEnds,
         CloseEvents, CloseErr, RelayReceives, RelaySeesClose, RelaySeesErr,
         RelayCancelled, AdapterConverts, AdapterSeesClose, AdapterReceives,
         AdapterSeesEnd, AdapterCancelled, Deliver, RangeEnds, ReaderSends,
         adapterVars
<1>14. QED
  BY <1>1, <1>2, <1>3, <1>4, <1>5, <1>6, <1>7, <1>8, <1>9, <1>10, <1>11, <1>12,
     <1>13
     DEF StreamTypeOK, Readers, Adapters, Outcomes

\* Where a response stands that neither failed nor was cancelled.
LEMMA Standing ==
  ASSUME IInv, whole, ~ctxDone
  PROVE  /\ Len(wire) \in 0..Len(script) /\ HasRead \in 0..Len(script)
         /\ wire # <<>> =>
              /\ HasRead + 1 \in 1..Len(script)
              /\ Head(wire) = script[HasRead + 1]
              /\ Tail(wire) = SubSeq(script, HasRead + 2, Len(script))
              /\ Len(Tail(wire)) = Len(wire) - 1
         /\ wire = <<>> => HasRead = Len(script)
         /\ HasSent \in Int /\ HasConverted \in Int /\ HasMerged \in Nat
         /\ HasMerged <= HasConverted /\ HasConverted <= HasSent
         /\ HasSent <= HasRead
         /\ reader = "send" => HasSent = HasRead - 1
<1>1. /\ Len(wire) \in 0..Len(script) /\ HasMerged \in 0..Len(script)
      /\ wire = SubSeq(script, HasRead + 1, Len(script))
  BY DEF IInv, FlowInv, Unread, Merged
<1>2. script \in Seq(ProviderEvents) /\ Len(script) \in Nat
  BY OwnScript DEF IInv
<1>3. HasRead \in 0..Len(script)
  BY <1>1, <1>2 DEF HasRead
<1>4. wire # <<>> =>
        HasRead + 1 \in 1..Len(script) /\ Head(wire) = script[HasRead + 1]
  BY <1>1, <1>2, <1>3, Rest
<1>5. wire # <<>> => Tail(wire) = SubSeq(script, HasRead + 2, Len(script))
  BY <1>1, <1>2, <1>3, Rest
<1>6. wire # <<>> => Len(Tail(wire)) = Len(wire) - 1
  BY <1>1, <1>2, <1>3, Rest
<1>7. wire = <<>> => HasRead = Len(script)
  BY <1>1, <1>2, <1>3, Rest
<1>8. QED
  BY <1>1, <1>3, <1>4, <1>5, <1>6, <1>7 DEF HasSent, HasConverted, HasMerged

\* A stream that neither failed nor was cancelled.
Going == IInv /\ whole /\ ~ctxDone

\* Such a stream has all of these.
LEMMA Facts ==
  ASSUME Going, [Next]_vars
  PROVE  /\ Unread /\ Held /\ Merged /\ Leaving
         /\ script' = script /\ script \in Seq(ProviderEvents)
         /\ Anthropic' = Anthropic
<1>1. script' = script /\ model' = model
  BY Lasting DEF Going, IInv
<1>2. QED
  BY <1>1, OwnScript DEF Going, IInv, FlowInv, Anthropic

\* The counts are numbers, and a step moves them.
LEMMA Moves ==
  ASSUME Going, [Next]_vars
  PROVE  /\ Len(wire') = Len(wire) => HasRead' = HasRead
         /\ Len(wire') = Len(wire) - 1 => HasRead' = HasRead + 1
         /\ Len(script) \in Nat \ {0} /\ Len(wire) \in Nat
         /\ HasRead \in Nat /\ HasRead' \in Int /\ HasRead <= Len(script)
         /\ HasSent \in Int /\ HasConverted \in Int /\ HasMerged \in Nat
         /\ reader' # "send" => HasSent' = HasRead'
         /\ reader' = "send" => HasSent' = HasRead' - 1
         /\ relay' # "send" => HasConverted' = HasSent'
         /\ relay' = "send" => HasConverted' = HasSent' - 1
         /\ adapter' # "send" => HasMerged' = HasConverted'
         /\ adapter' = "send" => HasMerged' = HasConverted' - 1
         /\ reader # "send" => HasSent = HasRead
         /\ reader = "send" => HasSent = HasRead - 1
         /\ relay # "send" => HasConverted = HasSent
         /\ relay = "send" => HasConverted = HasSent - 1
         /\ adapter # "send" => HasMerged = HasConverted
         /\ adapter = "send" => HasMerged = HasConverted - 1
<1>1. /\ Len(script) \in Nat \ {0} /\ Len(wire) \in Nat
      /\ HasRead \in Nat /\ HasRead <= Len(script)
      /\ HasSent \in Int /\ HasConverted \in Int /\ HasMerged \in Nat
  BY OwnScript, Standing DEF Going, IInv
<1>2. Len(wire') \in Nat /\ Len(script') = Len(script)
  BY TypeStep, Facts DEF Going, StreamTypeOK
<1>3. /\ Len(wire') = Len(wire) => HasRead' = HasRead
      /\ Len(wire') = Len(wire) - 1 => HasRead' = HasRead + 1
      /\ HasRead' \in Int
  BY <1>1, <1>2 DEF HasRead
<1>4. /\ reader' # "send" => HasSent' = HasRead'
      /\ reader' = "send" => HasSent' = HasRead' - 1
      /\ relay' # "send" => HasConverted' = HasSent'
      /\ relay' = "send" => HasConverted' = HasSent' - 1
      /\ adapter' # "send" => HasMerged' = HasConverted'
      /\ adapter' = "send" => HasMerged' = HasConverted' - 1
  BY Zenon DEF HasSent, HasConverted, HasMerged
<1>5. /\ reader # "send" => HasSent = HasRead
      /\ reader = "send" => HasSent = HasRead - 1
      /\ relay # "send" => HasConverted = HasSent
      /\ relay = "send" => HasConverted = HasSent - 1
      /\ adapter # "send" => HasMerged = HasConverted
      /\ adapter = "send" => HasMerged = HasConverted - 1
  BY Zenon DEF HasSent, HasConverted, HasMerged
<1>6. QED
  BY <1>1, <1>3, <1>4, <1>5

\* The reader reads an event.
LEMMA FlowReads ==
  ASSUME Going, ReadEvent
  PROVE  Unread' /\ Held' /\ Merged' /\ Leaving'
<1>1. [Next]_vars
  BY DEF Next
<1>2. /\ wire # <<>> /\ reader = "read" /\ reader' = "send"
      /\ readEvent' = Head(wire) /\ wire' = Tail(wire)
      /\ UNCHANGED <<conn, streamErr, relay, relayEvent, adapter, chunk,
                     builder>>
  BY DEF ReadEvent, relayVars, adapterVars, loopVars
<1>3. /\ readEvent' = script[HasRead + 1] /\ Len(wire') = Len(wire) - 1
      /\ wire' = SubSeq(script, HasRead + 2, Len(script))
      /\ HasRead + 1 \in 1..Len(script)
  BY <1>2, Standing DEF Going
<1>4. /\ HasRead' = HasRead + 1 /\ HasSent' = HasSent
      /\ HasConverted' = HasConverted /\ HasMerged' = HasMerged
  <2>1. Len(wire') = Len(wire) - 1
    BY <1>3
  <2>2. HasRead' = HasRead + 1
    BY <1>1, <2>1, Moves
  <2>3. QED
    BY <1>1, <1>2, <2>2, Moves
<1>5. Unread'
  <2>1. HasRead' + 1 = HasRead + 2
    BY <1>1, <1>4, Moves
  <2>2. Len(wire') \in 0..Len(script)
    BY <1>1, <1>3, Facts DEF Unread, HasRead
  <2>3. QED
    BY <1>1, <1>3, <2>1, <2>2, Facts DEF Unread
<1>6. Held' /\ Merged'
  BY <1>1, <1>2, <1>3, <1>4, Facts DEF Held, Merged
<1>7. Leaving'
  BY <1>1, <1>2, <1>4, Facts DEF Leaving
<1>8. QED
  BY <1>5, <1>6, <1>7

\* The relay takes an event of the reader.
LEMMA FlowRelays ==
  ASSUME Going, RelayReceives
  PROVE  Unread' /\ Held' /\ Merged' /\ Leaving'
<1>1. [Next]_vars
  BY DEF Next, Internal
<1>2. /\ reader = "send" /\ reader' = "read" /\ relay = "recv" /\ Anthropic
      /\ UNCHANGED <<wire, conn, streamErr, readEvent, adapter, chunk, builder>>
  BY DEF RelayReceives, ReaderSends, adapterVars, loopVars
<1>3. readEvent = script[HasRead]
  BY <1>1, <1>2, Facts DEF Held
<1>4. readEvent.type # "broken"
  BY <1>1, <1>2 DEF Going, IInv, CleanInv, Failures
<1>5. relay' = "send" /\ relayEvent' = readEvent
  BY <1>2, <1>4 DEF RelayReceives
<1>6. /\ HasRead' = HasRead /\ HasSent' = HasRead /\ HasSent = HasRead - 1
      /\ HasConverted' = HasConverted /\ HasMerged' = HasMerged
  BY <1>1, <1>2, <1>5, Moves
<1>7. Unread' /\ Held' /\ Merged'
  BY <1>1, <1>2, <1>3, <1>5, <1>6, Facts
     DEF Unread, Held, Merged
<1>8. Leaving'
  BY <1>1, <1>2, <1>5, <1>6, Facts DEF Leaving
<1>9. QED
  BY <1>7, <1>8

\* Nobody reads or passes on an event: the steps of a reader at its end, the
\* provider's close, and the end of the range.
LEMMA FlowStays ==
  ASSUME Going, [Next]_vars, whole', ~ctxDone',
         UNCHANGED <<wire, readEvent, relay, relayEvent, adapter, chunk,
                     builder>>,
         reader' = reader \/ (wire = <<>> /\ reader' \notin {"read", "send"}),
         reader # "send" \/ reader' = "send",
         conn' = conn \/ wire = <<>>,
         reader' \in {"read", "send"} => streamErr' = streamErr
  PROVE  Unread' /\ Held' /\ Merged' /\ Leaving'
<1>1. /\ HasRead' = HasRead /\ HasSent' = HasSent
      /\ HasConverted' = HasConverted /\ HasMerged' = HasMerged
  BY Moves
<1>2. Unread' /\ Held' /\ Merged'
  BY <1>1, Facts DEF Unread, Held, Merged
<1>3. Leaving'
  BY <1>1, Facts DEF Leaving
<1>4. QED
  BY <1>2, <1>3

\* When the events of a whole response are over, all have been sent.
LEMMA AllSent ==
  ASSUME Going, [Next]_vars, EventsClosed \/ ErrReady
  PROVE  HasSent = Len(script) /\ reader # "send"
<1>1. reader \notin {"read", "send"}
  BY Facts DEF EventsClosed, ErrReady, Leaving, Going, IInv, StreamTypeOK
<1>2. wire = <<>> /\ reader # "send"
  BY <1>1, Facts DEF Leaving
<1>3. HasRead = Len(script)
  BY <1>2, Standing DEF Going
<1>4. QED
  BY <1>2, <1>3, Moves

\* So nobody sees the close of the channels before the last event.
LEMMA NotEarly ==
  ASSUME Going, [Next]_vars
  PROVE  /\ ~RelaySeesClose /\ ~RelaySeesErr /\ ~AdapterSeesClose
         /\ ~AdapterSeesEnd
<1>1. ASSUME RelaySeesClose \/ RelaySeesErr PROVE FALSE
  <2>1. /\ EventsClosed \/ ErrReady
        /\ Anthropic /\ relay \in {"recv", "await"}
    BY <1>1 DEF RelaySeesClose, RelaySeesErr
  <2>2. HasSent = Len(script)
    BY <2>1, AllSent
  <2>3. HasConverted < Len(script)
    BY <2>1, Facts DEF Leaving
  <2>4. QED
    BY <2>1, <2>2, <2>3, Moves
<1>2. ASSUME AdapterSeesClose PROVE FALSE
  <2>1. Anthropic /\ relay = "done" /\ adapter # "done"
    BY <1>2 DEF AdapterSeesClose
  <2>2. HasConverted = Len(script) /\ HasConverted < Len(script)
    BY <2>1, Facts DEF Leaving
  <2>3. QED
    BY <2>2, Moves
<1>3. ASSUME AdapterSeesEnd PROVE FALSE
  <2>1. /\ EventsClosed \/ ErrReady
        /\ ~Anthropic /\ adapter = "recv"
    BY <1>3 DEF AdapterSeesEnd
  <2>2. HasSent = Len(script) /\ relay # "send"
    BY <2>1, AllSent DEF Going, IInv, StreamTypeOK, Relays
  <2>3. HasConverted < Len(script)
    BY <2>1, Facts DEF Leaving
  <2>4. QED
    BY <2>2, <2>3, Moves
<1>4. QED
  BY <1>1, <1>2, <1>3

\* An event that comes to an adapter is the end if and only if it is the last.
LEMMA LastIsEnd ==
  ASSUME Going, [Next]_vars, NEW n \in 1..Len(script)
  PROVE  /\ n = Len(script) => script[n] = End(model.kind)
         /\ n < Len(script) => script[n] \in Body(model.kind)
         /\ n < Len(script) => script[n].type \notin Terminators \cup Failures
         /\ model.kind \in {"openai", "anthropic"}
<1>1. /\ script[Len(script)] = End(model.kind)
      /\ \A i \in 1..(Len(script) - 1) : script[i] \in Body(model.kind)
      /\ Len(script) \in Nat /\ model.kind \in {"openai", "anthropic"}
  BY OwnScript DEF Going, IInv, StreamTypeOK
<1>2. n < Len(script) => script[n] \in Body(model.kind)
  BY <1>1
<1>3. QED
  BY <1>1, <1>2, BodyTypes

\* One event more has come to the builder.
LEMMA MergesOne ==
  ASSUME Going, [Next]_vars, NEW n \in 1..Len(script), HasMerged = n - 1,
         HasMerged' = n, builder' = Absorb(builder, script[n])
  PROVE  Merged'
<1>1. builder = Absorbed(SubSeq(script, 1, n - 1))
  BY Facts DEF Merged
<1>2. Absorbed(SubSeq(script, 1, n))
        = Absorb(Absorbed(SubSeq(script, 1, n - 1)), script[n])
  BY Facts, AbsorbedSteps
<1>3. n \in 0..Len(script)
  OBVIOUS
<1>4. QED
  BY <1>1, <1>2, <1>3, Facts DEF Merged

\* The relay's event is converted.
LEMMA FlowConverts ==
  ASSUME Going, AdapterConverts
  PROVE  Unread' /\ Held' /\ Merged' /\ Leaving'
<1>1. [Next]_vars
  BY DEF Next, Internal
<1>2. /\ relay = "send" /\ adapter = "recv" /\ Anthropic
      /\ UNCHANGED <<wire, conn, reader, readEvent, streamErr, relayEvent,
                     builder>>
  BY DEF AdapterConverts, readerVars, loopVars
<1> DEFINE n == HasSent
           e == relayEvent
<1>3. e = script[n] /\ n \in 1..Len(script) /\ HasConverted = n - 1
      /\ HasMerged = n - 1
  <2>1. HasConverted = n - 1 /\ HasMerged = n - 1 /\ n <= Len(script)
    BY <1>1, <1>2, Moves
  <2>2. n \in 1..Len(script)
    BY <1>1, <2>1, Moves
  <2>3. QED
    BY <1>1, <1>2, <2>1, <2>2, Facts DEF Held
<1>4. e.type \notin {"error", "streamError"}
  BY <1>2 DEF Going, IInv, CleanInv, Failures
<1>5. /\ HasRead' = HasRead /\ HasSent' = n /\ HasConverted' = n
  <2>1. relay' # "send"
    BY DEF AdapterConverts
  <2>2. QED
    BY <1>1, <1>2, <2>1, Moves
<1>6. Unread'
  BY <1>1, <1>2, <1>5, Facts DEF Unread
<1>7. CASE n = Len(script)
  <2>1. e.type = "message_stop"
    BY <1>1, <1>2, <1>3, <1>7, LastIsEnd DEF End, Event, Anthropic
  <2>2. relay' = "done" /\ adapter' = "done"
    BY <1>4, <2>1 DEF AdapterConverts
  <2>3. HasMerged' = n
    BY <1>1, <1>5, <2>2, Moves
  <2>4. Merged'
    BY <1>1, <1>2, <1>3, <2>1, <2>3, MergesOne, NothingAbsorbed
  <2>5. Held' /\ Leaving'
    BY <1>1, <1>2, <1>5, <1>7, <2>2, Facts DEF Held, Leaving
  <2>6. QED
    BY <1>6, <2>4, <2>5
<1>8. CASE n < Len(script)
  <2>1. /\ e \in Body("anthropic")
        /\ e.type # "message_stop" /\ DeltaOf(e) = MessagesDelta(e)
        /\ e.type \in {"message_start", "content_block_start",
                       "content_block_delta", "message_delta"}
    BY <1>1, <1>2, <1>3, <1>8, LastIsEnd, BodyTypes DEF Anthropic, Terminators
  <2>2. relay' = "recv"
    BY <1>4, <2>1 DEF AdapterConverts
  <2>3. CASE e.type = "message_start"
    <3>1. adapter' = "recv" /\ chunk' = chunk
      BY <1>2, <2>3 DEF AdapterConverts, adapterVars
    <3>2. HasMerged' = n
      BY <1>1, <1>5, <3>1, Moves
    <3>3. Merged'
      BY <1>1, <1>2, <1>3, <2>3, <3>2, MergesOne, NothingAbsorbed
    <3>4. Held' /\ Leaving'
      BY <1>1, <1>2, <1>5, <1>8, <2>2, <3>1, Facts DEF Held, Leaving
    <3>5. QED
      BY <1>6, <3>3, <3>4
  <2>4. CASE e.type # "message_start"
    <3>1. adapter' = "send" /\ chunk' = Chunk(DeltaOf(script[n]))
      BY <1>3, <2>1, <2>4 DEF AdapterConverts
    <3>2. HasMerged' = HasMerged
      BY <1>1, <1>3, <1>5, <3>1, Moves
    <3>3. Merged'
      BY <1>1, <1>2, <3>2, Facts DEF Merged
    <3>4. Held' /\ Leaving'
      BY <1>1, <1>2, <1>5, <1>8, <2>2, <3>1, Facts DEF Held, Leaving
    <3>5. QED
      BY <1>6, <3>3, <3>4
  <2>5. QED
    BY <2>3, <2>4
<1>9. QED
  BY <1>3, <1>7, <1>8

\* The adapter of the openai client takes an event of the reader.
LEMMA FlowReceives ==
  ASSUME Going, AdapterReceives
  PROVE  Unread' /\ Held' /\ Merged' /\ Leaving'
<1>1. [Next]_vars
  BY DEF Next, Internal
<1>2. /\ reader = "send" /\ reader' = "read" /\ adapter = "recv" /\ ~Anthropic
      /\ UNCHANGED <<wire, conn, readEvent, streamErr, relay, relayEvent,
                     builder>>
  BY DEF AdapterReceives, ReaderSends, relayVars, loopVars
<1>3. relay # "send" /\ relay' # "send"
  BY <1>2 DEF Going, IInv, StreamTypeOK, Relays
<1> DEFINE n == HasRead
           e == readEvent
<1>4. e = script[n] /\ n \in 1..Len(script) /\ HasConverted = n - 1
      /\ HasMerged = n - 1
  <2>1. HasConverted = n - 1 /\ HasMerged = n - 1 /\ n <= Len(script)
    BY <1>1, <1>2, <1>3, Moves
  <2>2. n \in 1..Len(script)
    BY <1>1, <2>1, Moves
  <2>3. QED
    BY <1>1, <1>2, <2>1, <2>2, Facts DEF Held
<1>5. HasRead' = n /\ HasSent' = n /\ HasConverted' = n
  BY <1>1, <1>2, <1>3, Moves
<1>6. Unread'
  BY <1>1, <1>2, <1>5, Facts DEF Unread
<1>7. model.kind = "openai"
  BY <1>1, <1>2, <1>4, LastIsEnd DEF Anthropic
<1>8. CASE n = Len(script)
  <2>1. e.type = "[DONE]"
    BY <1>1, <1>4, <1>7, <1>8, LastIsEnd DEF End, Event
  <2>2. adapter' = "done"
    BY <2>1 DEF AdapterReceives
  <2>3. HasMerged' = n
    BY <1>1, <1>5, <2>2, Moves
  <2>4. Merged'
    BY <1>1, <1>2, <1>4, <2>1, <2>3, MergesOne, NothingAbsorbed
  <2>5. Held' /\ Leaving'
    BY <1>1, <1>2, <1>3, <1>5, <1>8, <2>2, Facts DEF Held, Leaving
  <2>6. QED
    BY <1>6, <2>4, <2>5
<1>9. CASE n < Len(script)
  <2>1. e.type = "chunk" /\ DeltaOf(e) = e.delta
    BY <1>1, <1>4, <1>7, <1>9, LastIsEnd, BodyTypes
  <2>2. adapter' = "send" /\ chunk' = Chunk(DeltaOf(script[n]))
    BY <1>4, <2>1 DEF AdapterReceives
  <2>3. HasMerged' = HasMerged
    BY <1>1, <1>4, <1>5, <2>2, Moves
  <2>4. Merged'
    BY <1>1, <1>2, <2>3, Facts DEF Merged
  <2>5. Held' /\ Leaving'
    BY <1>1, <1>2, <1>3, <1>5, <1>9, <2>2, Facts DEF Held, Leaving
  <2>6. QED
    BY <1>6, <2>4, <2>5
<1>10. QED
  BY <1>4, <1>8, <1>9

\* The loop takes a chunk.
LEMMA FlowDelivers ==
  ASSUME Going, Deliver
  PROVE  Unread' /\ Held' /\ Merged' /\ Leaving' /\ ~chunk.error
<1>1. [Next]_vars
  BY DEF Next, Internal
<1>2. UNCHANGED <<wire, conn, reader, readEvent, streamErr, relay, relayEvent,
                  chunk>>
  BY DEF Deliver, readerVars, relayVars
<1>3. adapter = "send" /\ adapter' = "recv"
  BY <1>1, Facts DEF Deliver, Leaving
<1> DEFINE n == HasConverted
<1>4. HasMerged = n - 1 /\ n \in 1..Len(script)
  <2>1. HasMerged = n - 1 /\ n <= Len(script)
    BY <1>1, <1>3, Moves
  <2>2. QED
    BY <1>1, <2>1, Moves
<1>5. chunk = Chunk(DeltaOf(script[n]))
  BY <1>1, <1>3, Facts DEF Held
<1>6. ~chunk.error /\ chunk.delta = DeltaOf(script[n])
  BY <1>5 DEF Chunk
<1>7. builder' = Absorb(builder, script[n])
  BY <1>6 DEF Deliver, Absorb, loopVars
<1>8. /\ HasRead' = HasRead /\ HasSent' = HasSent
      /\ HasConverted' = n /\ HasMerged' = n
  BY <1>1, <1>2, <1>3, Moves
<1>9. Merged'
  BY <1>1, <1>4, <1>7, <1>8, MergesOne
<1>10. Unread' /\ Held' /\ Leaving'
  BY <1>1, <1>2, <1>3, <1>8, Facts DEF Unread, Held, Leaving
<1>11. QED
  BY <1>6, <1>9, <1>10

\* The stream of a response that neither failed nor was cancelled goes on.
LEMMA FlowStep == IInv /\ [Next]_vars => FlowInv'
<1> SUFFICES ASSUME IInv, [Next]_vars, whole', ~ctxDone'
             PROVE  Unread' /\ Held' /\ Merged' /\ Leaving'
  BY DEF FlowInv
<1>1. Going
  BY Lasting DEF Going, IInv
<1>2. ~ctxDone
  BY <1>1 DEF Going
<1>3. CASE ProviderCloses
  BY <1>1, <1>3, FlowStays DEF ProviderCloses, relayVars, adapterVars, loopVars
<1>4. CASE ConnectionCut
  BY <1>4 DEF ConnectionCut
<1>5. CASE ProviderFails
  BY <1>5 DEF ProviderFails
<1>6. CASE Cancel
  BY <1>6 DEF Cancel
<1>7. CASE ReadEvent
  BY <1>1, <1>7, FlowReads
<1>8. CASE ReaderCancelled \/ RelayCancelled \/ AdapterCancelled
  BY <1>2, <1>8 DEF ReaderCancelled, RelayCancelled, AdapterCancelled
<1>9. CASE ReadEnds
  BY <1>1, <1>9, FlowStays DEF ReadEnds, relayVars, adapterVars, loopVars
<1>10. CASE CloseEvents \/ CloseErr
  <2>1. wire = <<>>
    BY <1>1, <1>10, Facts DEF CloseEvents, CloseErr, Leaving
  <2>2. QED
    BY <1>1, <1>10, <2>1, FlowStays
       DEF CloseEvents, CloseErr, relayVars, adapterVars, loopVars
<1>11. CASE RelayReceives
  BY <1>1, <1>11, FlowRelays
<1>12. CASE RelaySeesClose \/ RelaySeesErr \/ AdapterSeesClose \/ AdapterSeesEnd
  BY <1>1, <1>12, NotEarly
<1>13. CASE AdapterConverts
  BY <1>1, <1>13, FlowConverts
<1>14. CASE AdapterReceives
  BY <1>1, <1>14, FlowReceives
<1>15. CASE Deliver
  BY <1>1, <1>15, FlowDelivers
<1>16. CASE RangeEnds
  BY <1>1, <1>16, FlowStays
     DEF RangeEnds, readerVars, relayVars, adapterVars
<1>17. CASE UNCHANGED vars
  BY <1>1, <1>17, FlowStays DEF vars
<1>18. QED
  BY <1>3, <1>4, <1>5, <1>6, <1>7, <1>8, <1>9, <1>10, <1>11, <1>12, <1>13,
     <1>14, <1>15, <1>16, <1>17 DEF Next, Internal

\* The end does not come once the response has failed.
LEMMA CutStep == IInv /\ [Next]_vars => CutInv'
<1> SUFFICES ASSUME IInv, [Next]_vars, ~whole', ~mute', ~ctxDone'
             PROVE  /\ \A i \in 1..Len(wire') : wire'[i].type \notin Terminators
                    /\ reader' = "send" => readEvent'.type \notin Terminators
                    /\ relay' = "send" => relayEvent'.type \notin Terminators
                    /\ loop' = "range" => adapter' # "done"
                    /\ relay' = "done" => adapter' \in {"last", "done"}
  BY DEF CutInv
<1>1. ~ctxDone /\ ~mute
  BY Lasting DEF IInv
<1>2. CASE whole
  <2>1. Going
    BY <1>1, <1>2 DEF Going
  <2>2. ConnectionCut \/ ProviderFails
    BY <1>2 DEF Next, Internal, vars, ProviderCloses, Cancel, ReadEvent,
         ReaderCancelled, ReadEnds, CloseEvents, CloseErr, RelayReceives,
         RelaySeesClose, RelaySeesErr, RelayCancelled, AdapterConverts,
         AdapterSeesClose, AdapterReceives, AdapterSeesEnd, AdapterCancelled,
         Deliver, RangeEnds, ReaderSends, readerVars
  <2>3. /\ wire # <<>>
        /\ wire' \in {<<>>, <<Event("broken")>>, <<Event("error")>>}
        /\ UNCHANGED <<reader, readEvent, relay, relayEvent, adapter>>
    BY <1>2, <2>2 DEF ConnectionCut, ProviderFails, relayVars, adapterVars
  <2>4. HasRead < Len(script) /\ Len(script) \in Nat
    <3>1. Len(script) \in Nat /\ HasRead \in Nat
      BY <2>1, Moves
    <3>2. HasRead + 1 \in 1..Len(script)
      BY <2>3, <1>1, <1>2, Standing
    <3>3. QED
      BY <3>1, <3>2
  <2>5. \A i \in 1..Len(wire') : wire'[i].type \notin Terminators
    BY <2>3 DEF Event, Terminators
  <2>6. ASSUME reader = "send" PROVE readEvent.type \notin Terminators
    <3>1. readEvent = script[HasRead] /\ reader = "send"
      BY <2>1, <2>6, Facts DEF Held
    <3>2. HasRead \in 1..Len(script)
      BY <2>1, <2>6, Moves, Facts DEF Merged
    <3>3. QED
      BY <2>1, <2>4, <3>1, <3>2, LastIsEnd
  <2>7. ASSUME relay = "send" PROVE relayEvent.type \notin Terminators
    <3>1. relayEvent = script[HasSent]
      BY <2>1, <2>7, Facts DEF Held
    <3>2. HasSent \in 1..Len(script) /\ HasSent < Len(script)
      BY <2>1, <2>4, <2>7, Moves
    <3>3. QED
      BY <2>1, <3>1, <3>2, LastIsEnd
  <2>8. HasConverted < Len(script)
    BY <2>1, <2>4, Moves
  <2>9. adapter # "done" /\ (Anthropic => relay # "done")
    BY <2>1, <2>4, <2>8, Facts, Moves DEF Leaving
  <2>10. relay # "done"
    BY <2>9 DEF IInv, StreamTypeOK, Relays
  <2>11. QED
    BY <2>3, <2>5, <2>6, <2>7, <2>9, <2>10
<1>3. CASE ~whole
  <2>1. /\ \A i \in 1..Len(wire) : wire[i].type \notin Terminators
        /\ reader = "send" => readEvent.type \notin Terminators
        /\ relay = "send" => relayEvent.type \notin Terminators
        /\ loop = "range" => adapter # "done"
        /\ relay = "done" => adapter \in {"last", "done"}
    BY <1>1, <1>3 DEF IInv, CutInv
  <2>2. \A i \in 1..Len(wire') : wire'[i].type \notin Terminators
    <3>1. wire' = wire \/ wire' \in {<<>>, <<Event("broken")>>}
            \/ (ReadEvent /\ wire # <<>> /\ wire' = Tail(wire))
      BY <1>3 DEF Next, Internal, vars, ProviderCloses, ConnectionCut,
         ProviderFails, Cancel, ReadEvent,
         ReaderCancelled, ReadEnds, CloseEvents, CloseErr, RelayReceives,
         RelaySeesClose, RelaySeesErr, RelayCancelled, AdapterConverts,
         AdapterSeesClose, AdapterReceives, AdapterSeesEnd, AdapterCancelled,
         Deliver, RangeEnds, ReaderSends, readerVars
    <3>2. wire \in Seq(StreamEvents)
      BY DEF IInv, StreamTypeOK
    <3>3. CASE wire # <<>> /\ wire' = Tail(wire)
      BY <2>1, <3>2, <3>3
    <3>4. CASE wire' \in {<<>>, <<Event("broken")>>}
      BY <3>4 DEF Event, Terminators
    <3>5. QED
      BY <2>1, <3>1, <3>3, <3>4
  <2>3. reader' = "send" => readEvent'.type \notin Terminators
    <3>1. \/ UNCHANGED <<reader, readEvent>> \/ reader' # "send"
          \/ (ReadEvent /\ wire # <<>> /\ readEvent' = Head(wire))
      BY <1>3 DEF Next, Internal, vars, ProviderCloses, ConnectionCut,
         ProviderFails, Cancel, ReadEvent,
         ReaderCancelled, ReadEnds, CloseEvents, CloseErr, RelayReceives,
         RelaySeesClose, RelaySeesErr, RelayCancelled, AdapterConverts,
         AdapterSeesClose, AdapterReceives, AdapterSeesEnd, AdapterCancelled,
         Deliver, RangeEnds, ReaderSends, readerVars
    <3>2. wire # <<>> => Head(wire) = wire[1] /\ 1 \in 1..Len(wire)
      BY DEF IInv, StreamTypeOK
    <3>3. QED
      BY <2>1, <3>1, <3>2
  <2>4. relay' = "send" => relayEvent'.type \notin Terminators
    <3>1. \/ UNCHANGED <<relay, relayEvent>> \/ relay' # "send"
          \/ relayEvent' = Event("streamError")
          \/ (reader = "send" /\ relayEvent' = readEvent)
      BY <1>3 DEF Next, Internal, vars, ProviderCloses, ConnectionCut,
         ProviderFails, Cancel, ReadEvent,
         ReaderCancelled, ReadEnds, CloseEvents, CloseErr, RelayReceives,
         RelaySeesClose, RelaySeesErr, RelayCancelled, AdapterConverts,
         AdapterSeesClose, AdapterReceives, AdapterSeesEnd, AdapterCancelled,
         Deliver, RangeEnds, ReaderSends, readerVars, relayVars, EmitError
    <3>2. Event("streamError").type \notin Terminators
      BY DEF Event, Terminators
    <3>3. QED
      BY <2>1, <3>1, <3>2
  <2>5. loop' = "range" => adapter' # "done"
    <3>1. SUFFICES ASSUME loop' = "range" PROVE adapter' # "done"
      OBVIOUS
    <3>2. loop = "range"
      BY <3>1 DEF Next, Internal, vars, ProviderCloses, ConnectionCut,
         ProviderFails, Cancel, ReadEvent,
         ReaderCancelled, ReadEnds, CloseEvents, CloseErr, RelayReceives,
         RelaySeesClose, RelaySeesErr, RelayCancelled, AdapterConverts,
         AdapterSeesClose, AdapterReceives, AdapterSeesEnd, AdapterCancelled,
         Deliver, RangeEnds, loopVars
    <3>3. adapter # "done"
      BY <2>1, <3>2
    <3>4. CASE AdapterConverts
      BY <2>1, <3>3, <3>4 DEF AdapterConverts, adapterVars, Terminators
    <3>5. CASE AdapterReceives
      <4>1. readEvent.type # "[DONE]"
        BY <2>1, <3>5 DEF AdapterReceives, ReaderSends, Terminators
      <4>2. QED
        BY <3>3, <3>5, <4>1 DEF AdapterReceives
    <3>6. CASE AdapterSeesClose
      BY <2>1, <3>6 DEF AdapterSeesClose
    <3>7. CASE AdapterCancelled
      BY <1>1, <3>7 DEF AdapterCancelled
    <3>8. CASE Deliver
      <4>1. CASE adapter = "last"
        <5>1. chunk.error
          BY <4>1 DEF IInv, StreamTypeOK, FailureChunk
        <5>2. loop' = "errored"
          BY <3>8, <5>1 DEF Deliver
        <5>3. QED
          BY <3>1, <5>2
      <4>2. CASE adapter # "last"
        BY <3>8, <4>2 DEF Deliver
      <4>3. QED
        BY <4>1, <4>2
    <3>9. CASE AdapterSeesEnd
      BY <3>9 DEF AdapterSeesEnd
    <3>10. QED
      BY <3>3, <3>4, <3>5, <3>6, <3>7, <3>8, <3>9
         DEF Next, Internal, vars, ProviderCloses, ConnectionCut,
         ProviderFails, Cancel, ReadEvent,
         ReaderCancelled, ReadEnds, CloseEvents, CloseErr, RelayReceives,
         RelaySeesClose, RelaySeesErr, RelayCancelled, RangeEnds, adapterVars
  <2>6. relay' = "done" => adapter' \in {"last", "done"}
    <3>1. SUFFICES ASSUME relay' = "done" PROVE adapter' \in {"last", "done"}
      OBVIOUS
    <3>2. CASE AdapterConverts
      BY <2>1, <3>1, <3>2 DEF AdapterConverts, adapterVars, Terminators
    <3>3. CASE AdapterReceives \/ AdapterSeesEnd
      <4>1. relay # "done" /\ relay' = relay
        BY <3>3 DEF AdapterReceives, AdapterSeesEnd, IInv, StreamTypeOK, Relays,
           relayVars
      <4>2. QED
        BY <3>1, <4>1
    <3>4. CASE AdapterSeesClose \/ AdapterCancelled
      BY <3>4 DEF AdapterSeesClose, AdapterCancelled
    <3>5. CASE RelayReceives \/ RelaySeesErr \/ RelaySeesClose
      BY <1>1, <3>1, <3>5
         DEF RelayReceives, RelaySeesErr, RelaySeesClose, EmitError
    <3>6. CASE RelayCancelled
      BY <1>1, <3>6 DEF RelayCancelled
    <3>7. CASE Deliver
      <4>1. relay = "done"
        BY <3>1, <3>7 DEF Deliver, relayVars
      <4>2. adapter = "last"
        BY <2>1, <3>7, <4>1 DEF Deliver
      <4>3. QED
        BY <3>7, <4>2 DEF Deliver
    <3>8. ASSUME UNCHANGED <<relay, adapter>>
          PROVE  adapter' \in {"last", "done"}
      BY <2>1, <3>1, <3>8
    <3>9. QED
      BY <3>2, <3>3, <3>4, <3>5, <3>6, <3>7, <3>8
         DEF Next, Internal, vars, ProviderCloses, ConnectionCut,
         ProviderFails, Cancel, ReadEvent,
         ReaderCancelled, ReadEnds, CloseEvents, CloseErr,
         RangeEnds, adapterVars, relayVars
  <2>7. QED
    BY <2>2, <2>3, <2>4, <2>5, <2>6
<1>4. QED
  BY <1>2, <1>3

\* The anthropic client goes on without a failure.
LEMMA CleanStep == IInv /\ [Next]_vars => CleanInv'
<1> SUFFICES ASSUME IInv, [Next]_vars, whole', Anthropic'
             PROVE  /\ \A i \in 1..Len(wire') : wire'[i].type \notin Failures
                    /\ reader' = "send" => readEvent'.type \notin Failures
                    /\ relay' = "send" => relayEvent'.type \notin Failures
                    /\ adapter' # "last"
                    /\ adapter' = "send" => ~chunk'.error
  BY DEF CleanInv
<1>1. whole /\ Anthropic
  BY Lasting DEF IInv, Anthropic
<1>2. /\ \A i \in 1..Len(wire) : wire[i].type \notin Failures
      /\ reader = "send" => readEvent.type \notin Failures
      /\ relay = "send" => relayEvent.type \notin Failures
      /\ adapter # "last"
      /\ adapter = "send" => ~chunk.error
  BY <1>1 DEF IInv, CleanInv
<1>3. wire \in Seq(StreamEvents)
  BY DEF IInv, StreamTypeOK
<1>4. \A i \in 1..Len(wire') : wire'[i].type \notin Failures
  <2>1. wire' = wire \/ (wire # <<>> /\ wire' = Tail(wire))
    BY DEF Next, Internal, vars, ProviderCloses, ConnectionCut,
         ProviderFails, Cancel, ReadEvent,
         ReaderCancelled, ReadEnds, CloseEvents, CloseErr, RelayReceives,
         RelaySeesClose, RelaySeesErr, RelayCancelled, AdapterConverts,
         AdapterSeesClose, AdapterReceives, AdapterSeesEnd, AdapterCancelled,
         Deliver, RangeEnds, ReaderSends, readerVars
  <2>2. CASE wire # <<>> /\ wire' = Tail(wire)
    BY <1>2, <1>3, <2>2
  <2>3. QED
    BY <1>2, <2>1, <2>2
<1>5. reader' = "send" => readEvent'.type \notin Failures
  <2>1. \/ UNCHANGED <<reader, readEvent>> \/ reader' # "send"
        \/ (ReadEvent /\ wire # <<>> /\ readEvent' = Head(wire))
    BY DEF Next, Internal, vars, ProviderCloses, ConnectionCut,
         ProviderFails, Cancel, ReadEvent,
         ReaderCancelled, ReadEnds, CloseEvents, CloseErr, RelayReceives,
         RelaySeesClose, RelaySeesErr, RelayCancelled, AdapterConverts,
         AdapterSeesClose, AdapterReceives, AdapterSeesEnd, AdapterCancelled,
         Deliver, RangeEnds, ReaderSends, readerVars
  <2>2. wire # <<>> => Head(wire) = wire[1] /\ 1 \in 1..Len(wire)
    BY <1>3
  <2>3. QED
    BY <1>2, <2>1, <2>2
<1>6. relay' = "send" => relayEvent'.type \notin Failures
  <2>1. CASE RelayReceives
    <3>1. reader = "send" /\ readEvent.type \notin Failures
      BY <1>2, <2>1 DEF RelayReceives, ReaderSends
    <3>2. relayEvent' = readEvent
      BY <2>1, <3>1 DEF RelayReceives, Failures
    <3>3. QED
      BY <3>1, <3>2
  <2>2. CASE RelaySeesErr
    <3>1. CASE ctxDone
      BY <2>2, <3>1 DEF RelaySeesErr, EmitError
    <3>2. CASE ~ctxDone
      BY <1>1, <2>2, <3>2, NotEarly DEF Going
    <3>3. QED
      BY <3>1, <3>2
  <2>3. UNCHANGED <<relay, relayEvent>> \/ relay' # "send" \/ RelayReceives
          \/ RelaySeesErr
    BY DEF Next, Internal, vars, ProviderCloses, ConnectionCut,
         ProviderFails, Cancel, ReadEvent,
         ReaderCancelled, ReadEnds, CloseEvents, CloseErr,
         RelaySeesClose, RelayCancelled, AdapterConverts,
         AdapterSeesClose, AdapterReceives, AdapterSeesEnd, AdapterCancelled,
         Deliver, RangeEnds, relayVars
  <2>4. QED
    BY <1>2, <2>1, <2>2, <2>3
<1>7. adapter' # "last" /\ (adapter' = "send" => ~chunk'.error)
  <2>1. CASE AdapterConverts
    <3>1. relayEvent.type \notin Failures
      BY <1>2, <2>1 DEF AdapterConverts
    <3>2. adapter' \in {"recv", "done"}
            \/ (adapter' = "send" /\ chunk' = Chunk(MessagesDelta(relayEvent)))
      BY <2>1, <3>1 DEF AdapterConverts, adapterVars, Failures
    <3>3. ~Chunk(MessagesDelta(relayEvent)).error
      BY DEF Chunk
    <3>4. QED
      BY <3>2, <3>3
  <2>2. UNCHANGED <<adapter, chunk>> \/ adapter' \in {"done", "recv"}
          \/ AdapterConverts
    BY <1>1, <1>2 DEF Next, Internal, vars, ProviderCloses, ConnectionCut,
         ProviderFails, Cancel, ReadEvent,
         ReaderCancelled, ReadEnds, CloseEvents, CloseErr, RelayReceives,
         RelaySeesClose, RelaySeesErr, RelayCancelled,
         AdapterSeesClose, AdapterReceives, AdapterSeesEnd, AdapterCancelled,
         Deliver, RangeEnds, adapterVars
  <2>3. QED
    BY <1>2, <2>1, <2>2
<1>8. QED
  BY <1>4, <1>5, <1>6, <1>7

\* The loop leaves its range for a reason.
LEMMA OutcomeStep == IInv /\ [Next]_vars => OutcomeInv'
<1> SUFFICES ASSUME IInv, [Next]_vars PROVE OutcomeInv'
  OBVIOUS
<1>1. /\ script' = script /\ Anthropic' = Anthropic
      /\ whole' => whole
      /\ mute => mute'
      /\ mute' => mute \/ ~whole'
      /\ ctxDone => ctxDone'
  BY Lasting DEF IInv, Anthropic
<1>2. /\ mute => ~whole
      /\ loop = "errored" => ~whole \/ (ctxDone /\ ~Anthropic)
      /\ loop = "cancelled" => ctxDone
      /\ loop = "empty" => ~whole \/ IsEmpty(Absorbed(script))
      /\ loop = "accepted" =>
           /\ ~ctxDone
           /\ mute \/ (whole /\ wire = <<>> /\ builder = Absorbed(script))
  BY DEF IInv, OutcomeInv
<1>3. \/ loop' = loop
      \/ /\ Deliver /\ loop = "range"
         /\ ((loop' = "errored" /\ chunk.error) \/ loop' = "sinkFailed")
      \/ RangeEnds
  BY DEF Next, Internal, vars, ProviderCloses, ConnectionCut,
       ProviderFails, Cancel, ReadEvent,
       ReaderCancelled, ReadEnds, CloseEvents, CloseErr, RelayReceives,
       RelaySeesClose, RelaySeesErr, RelayCancelled, AdapterConverts,
       AdapterSeesClose, AdapterReceives, AdapterSeesEnd, AdapterCancelled,
       Deliver, loopVars
<1>4. CASE RangeEnds
  <2>1. /\ adapter = "done" /\ loop = "range"
        /\ UNCHANGED <<wire, whole, mute, builder, ctxDone, relay>>
        /\ loop' = IF ctxDone THEN "cancelled"
                   ELSE IF IsEmpty(builder) THEN "empty" ELSE "accepted"
    BY <1>4 DEF RangeEnds, readerVars, relayVars
  <2>2. CASE ctxDone
    BY <1>1, <1>2, <2>1, <2>2 DEF OutcomeInv
  <2>3. CASE mute /\ ~ctxDone
    BY <1>1, <1>2, <2>1, <2>3 DEF OutcomeInv
  <2>4. CASE ~mute /\ ~ctxDone
    <3>1. whole
      BY <2>1, <2>4 DEF IInv, CutInv, StreamTypeOK
    <3>2. Going
      BY <2>4, <3>1 DEF Going
    <3>3. HasConverted = Len(script)
      BY <2>1, <3>2, Facts DEF Leaving
    <3>4. HasMerged = Len(script) /\ HasRead = Len(script)
      BY <2>1, <3>2, <3>3, Moves
    <3>5. builder = Absorbed(script)
      BY <3>2, <3>4, Facts, AbsorbedSteps DEF Merged
    <3>6. wire = <<>>
      <4>1. wire # <<>> => HasRead + 1 \in 1..Len(script)
        BY <2>4, <3>1, Standing
      <4>2. Len(script) \in Nat
        BY <3>2, Moves
      <4>3. QED
        BY <3>4, <4>1, <4>2
    <3>7. loop' \in {"empty", "accepted"}
          /\ (loop' = "empty" => IsEmpty(builder))
      BY <2>1, <2>4
    <3>8. QED
      BY <1>1, <2>1, <2>4, <3>1, <3>5, <3>6, <3>7 DEF OutcomeInv
  <2>5. QED
    BY <2>2, <2>3, <2>4
<1>5. CASE Deliver /\ loop = "range"
           /\ ((loop' = "errored" /\ chunk.error) \/ loop' = "sinkFailed")
  <2>1. UNCHANGED <<whole, ctxDone>> /\ adapter \in {"send", "last"}
    BY <1>5 DEF Deliver, readerVars
  <2>2. ASSUME whole, chunk.error PROVE ctxDone /\ ~Anthropic
    <3>1. ctxDone
      <4>1. SUFFICES ASSUME ~ctxDone PROVE FALSE
        OBVIOUS
      <4>2. Going
        BY <2>2, <4>1 DEF Going
      <4>3. QED
        BY <1>5, <2>2, <4>2, FlowDelivers
    <3>2. ~Anthropic
      BY <2>1, <2>2 DEF IInv, CleanInv
    <3>3. QED
      BY <3>1, <3>2
  <2>3. QED
    BY <1>1, <1>2, <1>5, <2>1, <2>2 DEF OutcomeInv
<1>6. CASE loop' = loop
  <2>1. CASE loop # "accepted"
    BY <1>1, <1>2, <1>6, <2>1 DEF OutcomeInv
  <2>2. CASE loop = "accepted"
    <3>1. ctxDone' = ctxDone
      BY <1>2, <2>2 DEF Next, Internal, vars, ProviderCloses, ConnectionCut,
       ProviderFails, Cancel, ReadEvent,
       ReaderCancelled, ReadEnds, CloseEvents, CloseErr, RelayReceives,
       RelaySeesClose, RelaySeesErr, RelayCancelled, AdapterConverts,
       AdapterSeesClose, AdapterReceives, AdapterSeesEnd, AdapterCancelled,
       Deliver, RangeEnds, ReaderSends, readerVars, loopVars
    <3>2. CASE mute
      BY <1>1, <1>2, <1>6, <2>2, <3>1, <3>2 DEF OutcomeInv
    <3>3. CASE ~mute
      <4>1. UNCHANGED <<whole, wire, builder>>
        BY <1>2, <2>2, <3>3
        DEF Next, Internal, vars, ProviderCloses, ConnectionCut,
       ProviderFails, Cancel, ReadEvent,
       ReaderCancelled, ReadEnds, CloseEvents, CloseErr, RelayReceives,
       RelaySeesClose, RelaySeesErr, RelayCancelled, AdapterConverts,
       AdapterSeesClose, AdapterReceives, AdapterSeesEnd, AdapterCancelled,
       Deliver, RangeEnds, ReaderSends, readerVars, loopVars
      <4>2. QED
        BY <1>1, <1>2, <1>6, <2>2, <3>1, <3>3, <4>1 DEF OutcomeInv
    <3>4. QED
      BY <3>2, <3>3
  <2>3. QED
    BY <2>1, <2>2
<1>7. QED
  BY <1>3, <1>4, <1>5, <1>6

\* The invariant is kept by every step, and so it always holds.
THEOREM Inductive == Spec => []IInv
<1>1. IInv /\ [Next]_vars => IInv'
  <2>1. IInv /\ [Next]_vars =>
          StreamTypeOK' /\ FlowInv' /\ CutInv' /\ CleanInv' /\ OutcomeInv'
    BY TypeStep, FlowStep, CutStep, CleanStep, OutcomeStep
  <2>2. QED
    BY <2>1 DEF IInv
<1>2. QED
  BY InvInit, <1>1, PTL DEF Spec

-----------------------------------------------------------------------------
(* The properties.                                                         *)

\* What is said of the script holds of the model's own.
LEMMA ModelScript ==
  ASSUME StreamTypeOK
  PROVE  /\ model.message \in Seq(PartKinds)
         /\ Build(Absorbed(script)) = Whole(model.message)
         /\ IsEmpty(Absorbed(script)) => model.message = <<>>
<1>1. /\ model.kind \in {"openai", "anthropic"} /\ model.style \in Styles
      /\ model.message \in Seq(PartKinds)
  BY StreamAssumption DEF StreamTypeOK
<1>2. Build(Absorbed(script)) = Whole(model.message)
  BY <1>1, ScriptAbsorbed DEF script
<1>3. ASSUME IsEmpty(Absorbed(script)), model.message # <<>> PROVE FALSE
  <2> DEFINE b == Absorbed(script)
  <2>1. b.thinking = <<>> /\ b.text = <<>> /\ b.calls = <<>>
    BY <1>3 DEF IsEmpty
  <2> HIDE DEF b
  <2>2. Build(b).thinking = <<>> /\ Build(b).text = <<>>
        /\ Build(b).calls = <<>>
    BY <2>1 DEF Build
  <2>3. QED
    BY <1>1, <1>2, <1>3, <2>2, SaysSomething DEF b
<1>4. QED
  BY <1>1, <1>2, <1>3

\* A failed stream has a cause, and an orderly end is accepted.
THEOREM FailuresHaveCauses == Spec => []FailureHasCause
<1>1. IInv => FailureHasCause
  BY ModelScript DEF IInv, OutcomeInv, FailureHasCause
<1>2. QED
  BY <1>1, Inductive, PTL

\* The message that the loop accepts is the provider's, unless the provider
\* has reported an error without saying which.
THEOREM AcceptedWhole == Spec => []AcceptedIsWhole
<1>1. IInv => AcceptedIsWhole
  BY ModelScript DEF IInv, OutcomeInv, AcceptedIsWhole
<1>2. QED
  BY <1>1, Inductive, PTL
=============================================================================

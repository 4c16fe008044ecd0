---------------------------- MODULE SessionStore ----------------------------
(***************************************************************************)
(* The session files (session/session.go) under the handlers that use them *)
(* at the same time (agent/manager.go): NewSession saves an empty file;    *)
(* Prompt loads the file, saves it before the agent loop and again after   *)
(* it, each time all of it, from its own copy; DeleteSession removes it;   *)
(* ListSessions reads one file after the other.  No lock orders them:      *)
(* Manager.mu guards a map that none of them reads.                        *)
(*                                                                         *)
(* Save is os.WriteFile, two steps on one open file: it is opened and      *)
(* truncated, then written from its start.  A writer keeps writing to the  *)
(* file it has opened when that file has been removed, and over what       *)
(* another writer has put into it.  Either step may fail: then the file is *)
(* left as it is, or with a part of what was to be written.                *)
(*                                                                         *)
(* The id of a session is unknown to the client until session/new has been *)
(* answered.  A prompt records two events, the user's message and the      *)
(* agent's; what happens in between is AgentTurn's.  The order of a list,  *)
(* by the time of the last save, is left out.                              *)
(***************************************************************************)
EXTENDS Naturals, Sequences

CONSTANTS Sessions,   \* the session ids
          Prompts,    \* session/prompt requests
          SessionOf,  \* the session of each of them
          Deletes,    \* the sessions the client may delete
          Crashes,    \* whether the process may die
          SaveFaults  \* the sessions whose saves may fail, on a full disk say

ASSUME StoreAssumption ==
  /\ SessionOf \in [Prompts -> Sessions]
  /\ Crashes \in BOOLEAN
  /\ Deletes \subseteq Sessions /\ SaveFaults \subseteq Sessions

VARIABLES
  file,     \* per session: its file on disk
  born,     \* per session: where session/new stands
  pc,       \* per prompt: where its handler stands
  copy,     \* per prompt: the events of its Session value
  holds,    \* the prompts whose open file is the one on disk
  deleted,  \* the sessions whose session/delete has been answered
  listing,  \* where session/list stands: "idle", "reading", "answered"
  left,     \* the files it has still to look at
  loaded,   \* the sessions it has loaded and not yet looked up, at most one
  found,    \* the sessions it names
  shared,   \* history: the sessions in which two prompts have overlapped
  cutShort, \* history: the sessions whose last save was cut, by a crash or by
            \* a fault, after it had truncated the file
  steady    \* history: the sessions whose file has been whole ever since the
            \* list was asked for

history == <<shared, cutShort>>
list == <<listing, left, loaded, found>>
vars == <<file, born, pc, copy, holds, deleted, list, history, steady>>

Event(kind, p) == [kind |-> kind, of |-> p]

Absent == [state |-> "absent", events |-> <<>>]
Whole(events) == [state |-> "whole", events |-> events]
\* No JSON document: empty, or with the rest of a longer one at its end.
Torn(events) == [state |-> "torn", events |-> events]

Pcs == {"unsent", "loaded", "saving", "running", "replied", "finishing",
        "failed", "rescuing", "end_turn", "error"}
Answers == {"end_turn", "error"}

Init ==
  /\ file = [s \in Sessions |-> Absent]
  /\ born = [s \in Sessions |-> "no"]
  /\ pc = [p \in Prompts |-> "unsent"]
  /\ copy = [p \in Prompts |-> <<>>]
  /\ holds = {}
  /\ deleted = {}
  /\ listing = "idle" /\ left = {} /\ loaded = {} /\ found = {}
  /\ shared = {}
  /\ cutShort = {}
  /\ steady = {}

Active(p) == pc[p] \notin {"unsent"} \cup Answers

Saving(s) ==
  \/ born[s] = "saving"
  \/ \E p \in Prompts :
       SessionOf[p] = s /\ pc[p] \in {"saving", "finishing", "rescuing"}

Go(p, to) == pc' = [pc EXCEPT ![p] = to]

-----------------------------------------------------------------------------
(* Manager.NewSession                                                      *)

Create(s) ==
  /\ born[s] = "no"
  /\ born' = [born EXCEPT ![s] = "saving"]
  /\ file' = [file EXCEPT ![s] = Torn(<<>>)]
  /\ UNCHANGED <<pc, copy, holds, deleted, list, history>>

AnswerNew(s) ==
  /\ born[s] = "saving"
  /\ born' = [born EXCEPT ![s] = "answered"]
  /\ file' = [file EXCEPT ![s] = Whole(<<>>)]
  /\ UNCHANGED <<pc, copy, holds, deleted, list, history>>

\* Mutant of NewFails: the error of the save is dropped.
NewFailsUnseen(s) ==
  /\ s \in SaveFaults
  /\ born[s] = "no"
  /\ born' = [born EXCEPT ![s] = "answered"]
  /\ UNCHANGED <<file, pc, copy, holds, deleted, list, history>>

\* The save fails, before or after it has made the file: the client gets an
\* error and never learns the id.
NewFails(s) ==
  /\ s \in SaveFaults
  /\ \/ born[s] = "no" /\ UNCHANGED file
     \/ /\ born[s] = "saving"
        /\ \E f \in {Torn(<<>>), Whole(<<>>)} :
             file' = [file EXCEPT ![s] = f]
  /\ born' = [born EXCEPT ![s] = "lost"]
  /\ UNCHANGED <<pc, copy, holds, deleted, list, history>>

-----------------------------------------------------------------------------
(* Manager.Prompt                                                          *)

\* What is absent or no JSON is answered with an error.
Load(p) ==
  /\ pc[p] = "unsent"
  /\ born[SessionOf[p]] = "answered" /\ SessionOf[p] \notin deleted
  /\ LET others == {q \in Prompts : SessionOf[q] = SessionOf[p] /\ Active(q)}
     IN shared' = IF others = {} THEN shared ELSE shared \cup {SessionOf[p]}
  /\ LET f == file[SessionOf[p]]
     IN IF f.state = "whole"
        THEN /\ copy' = [copy EXCEPT ![p] = Append(f.events, Event("user", p))]
             /\ Go(p, "loaded")
        ELSE /\ Go(p, "error")
             /\ UNCHANGED copy
  /\ UNCHANGED <<file, born, holds, deleted, list, cutShort>>

\* The agent of the session cannot be used, or the client not be told the title.
Refuse(p) ==
  /\ pc[p] = "loaded"
  /\ Go(p, "error")
  /\ UNCHANGED <<file, born, copy, holds, deleted, list, history>>

\* The first half of Save; it makes the file if there is none.
Truncate(p, from, to) ==
  /\ pc[p] = from
  /\ Go(p, to)
  /\ file' = [file EXCEPT ![SessionOf[p]] = Torn(<<>>)]
  /\ holds' = holds \cup {p}
  /\ UNCHANGED <<born, copy, deleted, list, history>>

\* The second half; what another writer has put into the file in between
\* shows behind what is written now if it is longer.
Write(p, from, to) ==
  /\ pc[p] = from
  /\ Go(p, to)
  /\ LET s == SessionOf[p]
     IN IF p \in holds
        THEN \/ file' = [file EXCEPT ![s] = Whole(copy[p])]
             \/ /\ file[s].events # <<>>
                /\ file' = [file EXCEPT ![s] = Torn(file[s].events)]
        ELSE UNCHANGED file
  /\ holds' = holds \ {p}
  /\ cutShort' = cutShort \ {SessionOf[p]}
  /\ UNCHANGED <<born, copy, deleted, list, shared>>

\* The save fails before the file is open.
OpenFails(p, from, to) ==
  /\ pc[p] = from
  /\ Go(p, to)
  /\ UNCHANGED <<file, born, copy, holds, deleted, list, history>>

\* It fails behind that, with nothing written, a part, or (closing) all of it.
WriteFails(p, from, to) ==
  /\ pc[p] = from
  /\ Go(p, to)
  /\ LET s == SessionOf[p]
     IN IF p \in holds
        THEN \E f \in {file[s], Torn(copy[p]), Whole(copy[p])} :
               file' = [file EXCEPT ![s] = f]
        ELSE UNCHANGED file
  /\ holds' = holds \ {p}
  /\ cutShort' = cutShort \cup {SessionOf[p]}
  /\ UNCHANGED <<born, copy, deleted, list, shared>>

\* Mutant of SaveReply: the answer is given without the second save.
AnswerUnsaved(p) ==
  /\ pc[p] = "replied"
  /\ Go(p, "end_turn")
  /\ UNCHANGED <<file, born, copy, holds, deleted, list, history>>

SavePrompt(p) ==
  Truncate(p, "loaded", "saving") \/ Write(p, "saving", "running")
SaveReply(p) == Truncate(p, "replied", "finishing")
                  \/ Write(p, "finishing", "end_turn")
\* What is saved after a loop that failed, Done's own save included; whether
\* that works makes no difference to the answer.
Rescue(p) ==
  Truncate(p, "failed", "rescuing") \/ Write(p, "rescuing", "error")

SaveFails(p) ==
  /\ SessionOf[p] \in SaveFaults
  /\ \/ OpenFails(p, "loaded", "error") \/ WriteFails(p, "saving", "error")
     \/ OpenFails(p, "replied", "failed")
     \/ WriteFails(p, "finishing", "failed")
     \/ OpenFails(p, "failed", "error") \/ WriteFails(p, "rescuing", "error")

\* Mutant of Run: the answer is recorded behind what the file now has.
RunOnFile(p) ==
  /\ pc[p] = "running"
  /\ Go(p, "replied")
  /\ copy' = [copy EXCEPT ![p] =
               Append(file[SessionOf[p]].events, Event("agent", p))]
  /\ UNCHANGED <<file, born, holds, deleted, list, history>>

\* The agent loop, on the prompt's own copy.
Run(p) ==
  /\ pc[p] = "running"
  /\ Go(p, "replied")
  /\ copy' = [copy EXCEPT ![p] = Append(@, Event("agent", p))]
  /\ UNCHANGED <<file, born, holds, deleted, list, history>>

\* It fails, with nothing recorded or with what it has recorded.
LoopFails(p) ==
  /\ pc[p] = "running"
  /\ Go(p, "failed")
  /\ \/ UNCHANGED copy
     \/ copy' = [copy EXCEPT ![p] = Append(@, Event("agent", p))]
  /\ UNCHANGED <<file, born, holds, deleted, list, history>>

-----------------------------------------------------------------------------
(* ListSessions: session.List reads the directory once, and then every file*)
(* of it, in the order of their names, which are random.                   *)

ReadDir ==
  /\ listing = "idle"
  /\ listing' = "reading"
  /\ left' = {s \in Sessions : file[s].state # "absent"}
  /\ found' = {}
  /\ UNCHANGED <<file, born, pc, copy, holds, deleted, loaded, history>>

\* Mutant of LoadListed: the list ends at a file that cannot be loaded.
LoadListedOrEnd(s) ==
  /\ s \in left /\ loaded = {}
  /\ IF file[s].state = "whole"
     THEN loaded' = {s} /\ left' = left \ {s}
     ELSE left' = {} /\ UNCHANGED loaded
  /\ UNCHANGED <<file, born, pc, copy, holds, deleted, listing, found, history>>

\* A file that is gone, or no JSON at this moment, is passed over.
LoadListed(s) ==
  /\ s \in left /\ loaded = {}
  /\ left' = left \ {s}
  /\ loaded' = {t \in {s} : file[t].state = "whole"}
  /\ UNCHANGED <<file, born, pc, copy, holds, deleted, listing, found, history>>

\* Then the time of its last change is asked for; it may be gone by now.
StatListed(s) ==
  /\ s \in loaded
  /\ loaded' = {}
  /\ found' = found \cup {t \in {s} : file[t].state # "absent"}
  /\ UNCHANGED <<file, born, pc, copy, holds, deleted, listing, left, history>>

AnswerList ==
  /\ listing = "reading" /\ left = {} /\ loaded = {}
  /\ listing' = "answered"
  /\ UNCHANGED <<file, born, pc, copy, holds, deleted, left, loaded, found,
                 history>>

ListStep == (\E s \in Sessions : LoadListed(s) \/ StatListed(s)) \/ AnswerList

-----------------------------------------------------------------------------
(* DeleteSession, and the end of the process                               *)

Delete(s) ==
  /\ s \in Deletes \ deleted /\ born[s] = "answered"
  /\ file' = [file EXCEPT ![s] = Absent]
  /\ holds' = {p \in holds : SessionOf[p] # s}
  /\ deleted' = deleted \cup {s}
  /\ UNCHANGED <<born, pc, copy, list, history>>

\* What was being handled is not answered; a session that was being made stays
\* unknown.
Crash ==
  /\ Crashes
  /\ (\E p \in Prompts : Active(p)) \/ \E s \in Sessions : Saving(s)
  /\ pc' = [p \in Prompts |-> IF Active(p) THEN "error" ELSE pc[p]]
  /\ born' = [s \in Sessions |->
               IF born[s] = "saving" THEN "lost" ELSE born[s]]
  /\ listing' = IF listing = "reading" THEN "idle" ELSE listing
  /\ left' = {} /\ loaded' = {}
  /\ holds' = {}
  /\ cutShort' = cutShort \cup {s \in Sessions : Saving(s)}
  /\ UNCHANGED <<file, copy, deleted, found, shared>>

PromptStep(p) == \/ Load(p) \/ Refuse(p) \/ SavePrompt(p)
                 \/ Run(p) \/ SaveReply(p)
                 \/ LoopFails(p) \/ Rescue(p) \/ SaveFails(p)

Step == \/ \E s \in Sessions :
             Create(s) \/ AnswerNew(s) \/ NewFails(s) \/ Delete(s)
        \/ \E p \in Prompts : PromptStep(p)
        \/ ListStep
        \/ Crash

AllWhole == {s \in Sessions : file'[s].state = "whole"}

Next == \/ ReadDir /\ steady' = AllWhole
        \/ Step /\ steady' = IF listing = "reading" THEN steady \cap AllWhole
                             ELSE steady

Spec == Init /\ [][Next]_vars

-----------------------------------------------------------------------------
(* Properties                                                              *)

\* Where prompts come one at a time: the file of a session that the client knows
\* can be read, by session/load, session/list and the next prompt, but while a
\* save of it is under way and after one that was cut behind its truncation
\* (session.go:206) as long as no later save was completed.  What fails
\* elsewhere, before a file is opened or in the loop, costs no session.
ReadableUnlessSaving ==
  \A s \in Sessions \ (deleted \cup shared \cup cutShort) :
    born[s] = "answered" => file[s].state = "whole" \/ Saving(s)

\* session/list names every session whose file has been whole since the list was
\* asked for (session.List), whatever happens to the others' files meanwhile.
ListIsComplete == listing = "answered" => steady \subseteq found

\* What p has recorded is in its session's file, in the order of the turn.
Recorded(p) ==
  LET events == file[SessionOf[p]].events
  IN \E i \in 1..(Len(events) - 1) : /\ events[i] = Event("user", p)
                                    /\ events[i + 1] = Event("agent", p)

\* "`events` is the append-only display protocol history used by ACP replay"
\* (docs/AGENT_LOOP_ROADMAP.md:34): what an answered prompt has recorded stays
\* in the file of its session, which is there to be read between saves.
HistoryIsAppendOnly ==
  \A p \in Prompts :
    /\ pc[p] = "end_turn"
    /\ SessionOf[p] \notin deleted /\ ~Saving(SessionOf[p])
    => file[SessionOf[p]].state = "whole" /\ Recorded(p)

\* The part of it that holds: what an answered prompt has recorded is in the
\* file of its session whenever that can be read, where prompts come one turn at
\* a time, whatever happens to others, whichever later turns and saves fail or
\* are cut (agent/manager.go:310-316), and through crashes.
AnsweredInTurnIsRecorded ==
  \A p \in Prompts :
    /\ pc[p] = "end_turn"
    /\ SessionOf[p] \notin shared
    /\ file[SessionOf[p]].state = "whole"
    => Recorded(p)

\* Whatever overlaps, fails or is deleted: a file that can be read holds turns
\* of its own session, each at most once, every answer next to its question.
TurnsInPlace ==
  \A s \in Sessions : file[s].state = "whole" =>
    \A i \in 1..Len(file[s].events) :
      LET e == file[s].events[i]
      IN /\ SessionOf[e.of] = s
         /\ \A j \in 1..Len(file[s].events) : file[s].events[j] = e => j = i
         /\ e.kind = "agent" =>
              i > 1 /\ file[s].events[i - 1] = Event("user", e.of)

=============================================================================

----------------------------- MODULE EngineHistory -----------------------------
(***************************************************************************)
(* The conversation an Engine keeps (internal/engine): the history its     *)
(* next prompt resumes from, the transcript its host shows, and the session*)
(* file both are rebuilt from, as prompts, Compact, Rewind, BeginSession   *)
(* and restarts change them.                                               *)
(*                                                                         *)
(* Prompts and BeginSession hold promptMu; Compact and Rewind do not, and  *)
(* Compact works on a copy between two short locks.  EngineRun has what    *)
(* happens inside a run: here it ends with one of the lists of messages it *)
(* can leave.  The system message that starts every history is left out; a *)
(* reply stands for an assistant message with the results of its calls.    *)
(*                                                                         *)
(* An operator whose comment starts with "Fault:" is a wrong version of    *)
(* the definition below it, used to see that a property notices.           *)
(***************************************************************************)
EXTENDS Integers, SequencesExt

CONSTANTS Texts,        \* prompts
          MaxPrompts,   \* bound on the prompts given
          MaxSessions,  \* bound on the session files
          MaxRestarts,  \* bound on the restarts
          Turnwise,     \* the host edits the history only between prompts
          None          \* no run, no copy, no reply

VARIABLES
  prior,       \* Engine.prior
  transcript,  \* Engine.transcript
  sess,        \* Engine.sess: the file in use
  disk,        \* each file's last snapshot and turns
  run,         \* the prompt that holds promptMu, with what it read at its start
  copy,        \* the history Compact took, while it works on it
  said,        \* the text the last Rewind returned
  prompts, restarts,  \* how many so far
  asked,       \* history: the prompts given in each session, asides excepted
  edited,      \* history: changed or not saved since the last snapshot
  plain,       \* history: neither compacted nor resumed since the session began
  gone         \* history: the prompt the last Rewind took back, its only one, if not given again

live == <<prior, transcript, sess>>
vars == <<live, disk, run, copy, said, prompts, restarts, asked, edited, plain, gone>>

Sessions == 1..MaxSessions

User(t) == [role |-> "user", text |-> t, synthetic |-> FALSE]
Note    == [role |-> "user", text |-> "note", synthetic |-> TRUE]
Stub    == [role |-> "user", text |-> "stub", synthetic |-> FALSE]
Reply   == [role |-> "assistant", text |-> "reply", synthetic |-> FALSE]

\* Synthetic is not saved.
Saved(msgs) == [i \in DOMAIN msgs |-> [msgs[i] EXCEPT !.synthetic = FALSE]]

Init ==
  /\ prior = <<>> /\ transcript = <<>> /\ sess = 1
  /\ disk = [s \in Sessions |-> [hist |-> <<>>, turns |-> <<>>]]
  /\ run = None /\ copy = None /\ said = None
  /\ prompts = 0 /\ restarts = 0
  /\ asked = [s \in Sessions |-> {}]
  /\ edited = FALSE /\ plain = TRUE /\ gone = None

-----------------------------------------------------------------------------
(* Compaction.                                                             *)

\* The kept window starts at a user message, or at the first that is not the
\* result of a call, which a reply never is here.
AlignKeepAtUser(kept) ==
  IF \E i \in DOMAIN kept : kept[i].role = "user"
    THEN SubSeq(kept, SelectInSeq(kept, LAMBDA m : m.role = "user"), Len(kept))
    ELSE kept

\* Snipped, with every message in place, or dropped to a stub and a window of at
\* least two messages.  The pins of earlier prompts are part of the stub.
Compacted(msgs) ==
  {msgs} \cup {<<Stub>> \o AlignKeepAtUser(SubSeq(msgs, i, Len(msgs))) : i \in 2..Len(msgs) - 1}

\* The user and assistant messages of a history, as the host sees them.
ToPublic(msgs) == Saved(msgs)

-----------------------------------------------------------------------------
(* PromptWith.                                                             *)

Quiet == Turnwise => copy = None

\* The setup: what the run works from is read, the prompt is logged.  A write to
\* the file may fail; the run goes on.
PromptStart(t, ephemeral) ==
  /\ run = None /\ Quiet /\ prompts < MaxPrompts
  /\ prompts' = prompts + 1
  /\ run' = [text |-> t, ephemeral |-> ephemeral, base |-> prior, sess |-> sess,
             at |-> "run", result |-> <<>>, answer |-> <<>>]
  /\ IF ephemeral
       THEN UNCHANGED <<disk, asked, gone>>
       ELSE /\ disk' \in {disk, [disk EXCEPT ![sess].turns = Append(@, User(t))]}
            /\ asked' = [asked EXCEPT ![sess] = @ \cup {t}]
            /\ gone' = IF gone = t THEN None ELSE gone
  /\ UNCHANGED <<live, copy, said, restarts, edited, plain>>

\* What a run sent last: its prompt, and after a reply a steer or a nudge.
Sent(base, t) == {Append(base, User(t)), base \o <<User(t), Reply, Note>>}

\* The loop returns, with an answer or without, and may have compacted what it sent.
\* An aside leaves no trace; a turn becomes the history.
PromptCommit ==
  /\ run # None /\ run.at = "run"
  /\ IF run.ephemeral
       THEN /\ run' = None
            /\ UNCHANGED <<prior, transcript, edited, plain>>
       ELSE \E sent \in Sent(run.base, run.text), answer \in {<<>>, <<Reply>>} :
              /\ prior' \in {h \o answer : h \in Compacted(sent)}
              /\ transcript' = Append(transcript, User(run.text)) \o answer
              /\ run' = [run EXCEPT !.at = "log", !.result = prior', !.answer = answer]
              /\ edited' = TRUE
              /\ plain' = (plain /\ prior' = sent \o answer)
  /\ UNCHANGED <<sess, disk, copy, said, prompts, restarts, asked, gone>>

\* The answer is logged.
PromptLog ==
  /\ run # None /\ run.at = "log"
  /\ disk' \in {disk, [disk EXCEPT ![run.sess].turns = @ \o run.answer]}
  /\ run' = [run EXCEPT !.at = "save"]
  /\ UNCHANGED <<live, copy, said, prompts, restarts, asked, edited, plain, gone>>

\* Fault: the history the run began with is saved.
PromptSaveBase ==
  /\ run # None /\ run.at = "save"
  /\ \/ /\ disk' = [disk EXCEPT ![run.sess].hist = Saved(run.base)]
        /\ edited' = (prior # run.result)
     \/ UNCHANGED <<disk, edited>>
  /\ run' = None
  /\ UNCHANGED <<live, copy, said, prompts, restarts, asked, plain, gone>>

\* The history is saved, or the save fails, and promptMu is released.
PromptSave ==
  /\ run # None /\ run.at = "save"
  /\ \/ /\ disk' = [disk EXCEPT ![run.sess].hist = Saved(run.result)]
        /\ edited' = (prior # run.result)
     \/ UNCHANGED <<disk, edited>>
  /\ run' = None
  /\ UNCHANGED <<live, copy, said, prompts, restarts, asked, plain, gone>>

-----------------------------------------------------------------------------
(* The rest of the engine's interface.                                     *)

\* Fault: only the transcript is cleared.
BeginSessionKeeps ==
  /\ run = None /\ Quiet /\ sess < MaxSessions
  /\ prior' = prior /\ transcript' = <<>> /\ sess' = sess + 1
  /\ edited' = FALSE /\ plain' = TRUE /\ gone' = None
  /\ UNCHANGED <<disk, run, copy, said, prompts, restarts, asked>>

BeginSession ==
  /\ run = None /\ Quiet /\ sess < MaxSessions
  /\ prior' = <<>> /\ transcript' = <<>> /\ sess' = sess + 1
  /\ edited' = FALSE /\ plain' = TRUE /\ gone' = None
  /\ UNCHANGED <<disk, run, copy, said, prompts, restarts, asked>>

CompactRead ==
  /\ copy = None /\ prior # <<>> /\ (Turnwise => run = None)
  /\ copy' = prior
  /\ UNCHANGED <<live, disk, run, said, prompts, restarts, asked, edited, plain, gone>>

CompactWrite ==
  /\ copy # None
  /\ prior' \in Compacted(copy)
  /\ transcript' = ToPublic(prior')
  /\ copy' = None
  /\ edited' = TRUE /\ plain' = FALSE
  /\ UNCHANGED <<sess, disk, run, said, prompts, restarts, asked, gone>>

\* The last user message, injected by the host or not.
LastUser(msgs) == SelectLastInSeq(msgs, LAMBDA m : m.role = "user")

\* The last user message the host did not inject.
LastPrompt(msgs) == SelectLastInSeq(msgs, LAMBDA m : m.role = "user" /\ ~m.synthetic)

\* Fault: the cut is off by one.
RewindKeepsPrompt ==
  /\ (Turnwise => run = None) /\ Quiet
  /\ LET i == LastPrompt(prior)
         j == LastUser(transcript)
     IN  /\ i > 0
         /\ said' = prior[i].text
         /\ prior' = SubSeq(prior, 1, i)
         /\ transcript' = IF j > 0 THEN SubSeq(transcript, 1, j - 1) ELSE transcript
         /\ gone' = IF said' \in Texts /\ \A k \in 1..i - 1 : prior[k].text # said'
                      THEN said' ELSE None
  /\ edited' = TRUE
  /\ UNCHANGED <<sess, disk, run, copy, prompts, restarts, asked, plain>>

Rewind ==
  /\ (Turnwise => run = None) /\ Quiet
  /\ LET i == LastPrompt(prior)
         j == LastUser(transcript)
     IN  /\ i > 0
         /\ said' = prior[i].text
         /\ prior' = SubSeq(prior, 1, i - 1)
         /\ transcript' = IF j > 0 THEN SubSeq(transcript, 1, j - 1) ELSE transcript
         /\ gone' = IF said' \in Texts /\ \A k \in 1..i - 1 : prior[k].text # said'
                      THEN said' ELSE None
  /\ edited' = TRUE
  /\ UNCHANGED <<sess, disk, run, copy, prompts, restarts, asked, plain>>

\* LoadMessages and LoadTranscriptEvents.
Resumed(file) == IF file.hist # <<>> THEN file.hist ELSE file.turns

\* The process ends, in the midst of a run or not, and resumes its last session.
Restart ==
  /\ restarts < MaxRestarts /\ restarts' = restarts + 1
  /\ prior' = Resumed(disk[sess]) /\ transcript' = disk[sess].turns
  /\ run' = None /\ copy' = None
  /\ edited' = FALSE /\ plain' = FALSE /\ gone' = None
  /\ UNCHANGED <<sess, disk, said, prompts, asked>>

Next ==
  \/ \E t \in Texts, ephemeral \in BOOLEAN : PromptStart(t, ephemeral)
  \/ PromptCommit \/ PromptLog \/ PromptSave
  \/ BeginSession \/ CompactRead \/ CompactWrite \/ Rewind \/ Restart

Spec == Init /\ [][Next]_vars

-----------------------------------------------------------------------------
(* Properties.                                                             *)

\* The prompts in a list of messages, in order.
PromptsIn(msgs) ==
  LET kept[i \in 0..Len(msgs)] ==
        IF i = 0 THEN <<>>
        ELSE IF msgs[i].text \in Texts THEN Append(kept[i - 1], msgs[i].text)
        ELSE kept[i - 1]
  IN  kept[Len(msgs)]

\* The prompts in a list of messages are of session s.
Own(msgs, s) == \A i \in DOMAIN msgs : msgs[i].text \in Texts => msgs[i].text \in asked[s]

\* A session holds its own turns only: a prompt of another session, or an aside,
\* is in no history, transcript or file of it (PromptOpts.Ephemeral: "leave no
\* trace"; BeginSession: "a fresh JSONL session").
OwnTurns ==
  /\ Own(prior, sess) /\ Own(transcript, sess)
  /\ \A s \in Sessions : Own(disk[s].hist, s) /\ Own(disk[s].turns, s)

\* What the host shows and what the model sees are the same prompts, through runs
\* that fail, asides and rewinds, as long as nothing was compacted or resumed.
TranscriptAligned == plain => PromptsIn(prior) = PromptsIn(transcript)

\* Between runs, a resume finds the history the engine has, unless it was edited
\* or could not be saved since (Rewind: "a later resume is consistent").
ResumeFaithful == run = None /\ ~edited => Saved(prior) = Resumed(disk[sess])

\* A turn that Rewind dropped is not in the history again before someone gives its
\* prompt again (Rewind: "drops the most recent user-assistant exchange from the
\* live context").
RewoundStaysOut == gone # None => \A i \in DOMAIN prior : prior[i].text # gone

\* Rewind lands on the user's own prompt, "never a warning or steer string".
RewindSkipsNudges == said # "note"
================================================================================

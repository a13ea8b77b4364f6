------------------------------ MODULE SessionMC ------------------------------
(***************************************************************************)
(* The run of the conversation and its file: SessionStore, the file that   *)
(* processes share, and EngineHistory, the history an engine keeps and     *)
(* rebuilds from it.  A behaviour is one of the two; the variables of the  *)
(* other stay as they start.                                               *)
(*                                                                         *)
(* The histories are what prompts leave of a batch of tool calls: refused,  *)
(* then after a prompt that failed, then with a batch that was halted, so   *)
(* that two deltas in a row fit under one checkpoint; and an edit of the    *)
(* first.                                                                  *)
(***************************************************************************)
EXTENDS SessionStore, TLC

CONSTANTS Texts, MaxPrompts, MaxSessions, MaxRestarts, Turnwise

VARIABLES part, prior, transcript, sess, disk, run, copy, said,
          prompts, restarts, asked, edited, plain, gone

history == <<prior, transcript, sess, disk, run, copy, said,
             prompts, restarts, asked, edited, plain, gone>>

History == INSTANCE EngineHistory

\* The messages of a conversation, and a prompt that holds promptMu.
Spoken == [role : {"user", "assistant"}, text : Texts \cup {"note", "stub", "reply"}, synthetic : BOOLEAN]

Runs == [text : Texts, ephemeral : BOOLEAN, base : Seq(Spoken), sess : History!Sessions,
         at : {"run", "log", "save"}, result : Seq(Spoken), answer : {<<>>, <<History!Reply>>}]

ASSUME TextsAssumption    == Texts \cap {"note", "stub", "reply"} = {}
ASSUME SessionsAssumption == MaxSessions \in Nat \ {0}
ASSUME RunsAssumption     == None \notin Runs

sys == Msg("system", "s")

\* A batch that is refused whole for the calls without an id.
refused == <<sys, Msg("user", "u"), Asks(<<"x", NoId, "x", Signed, "y">>),
             Answer("x", "r"), Answer(NoId, "r"), Answer("y", "r")>>

\* A prompt that got no answer, and one whose last call was denied and halted,
\* behind two calls with one id.
failed == Append(refused, Msg("user", "u"))
halted == failed \o <<Msg("user", "v"), Asks(<<"y", "y", "z">>),
                      Answer("y", "a"), Answer("y", "b")>>

\* A history of the length of the first, with a result of a call it has lost.
shorter == <<sys, Msg("user", "v"), Asks(<<"x">>), Answer("x", "a"), Answer("w", "a"), Msg("user", "u")>>

MCHistories == {refused, failed, halted, shorter}

MCTurns == {Msg("user", "u")}

MCMessages == UNION {ToSet(h) : h \in MCHistories} \cup MCTurns

Symmetry == Permutations(Writers) \cup Permutations(Texts)

MCInit == part \in {"file", "history"} /\ Init /\ History!Init

MCNext ==
  /\ UNCHANGED part
  /\ \/ part = "file" /\ Next /\ UNCHANGED history
     \/ part = "history" /\ History!Next /\ UNCHANGED vars

MCSpec == MCInit /\ [][MCNext]_<<part, vars, history>>

\* A session holds its own turns only (PromptOpts.Ephemeral: "leave no trace";
\* BeginSession: "a fresh JSONL session"), and what the host shows and what the
\* model sees are the same prompts, until something is compacted or resumed.
TurnsInPlace == History!OwnTurns /\ History!TranscriptAligned

\* Between runs, a resume finds the history the engine has, unless it was edited
\* or could not be saved since (Rewind: "a later resume is consistent"); and a
\* turn that Rewind dropped is not in the history again before someone gives its
\* prompt again ("drops the most recent user-assistant exchange from the live
\* context").
ResumesAsLeft == History!ResumeFaithful /\ History!RewoundStaysOut

\* The history an engine keeps and the one it would resume.
HistoryKept == TurnsInPlace /\ ResumesAsLeft
================================================================================

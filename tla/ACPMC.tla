-------------------------------- MODULE ACPMC --------------------------------
(***************************************************************************)
(* The run of ext/acp: Peers, the peers mow delegates to, and ACPAgent,    *)
(* mow as the agent of an editor.  A behaviour is one of the two; the      *)
(* variables of the other stay as they start.                              *)
(***************************************************************************)
EXTENDS Peers

CONSTANTS Editors, Sids, QueueCap

VARIABLES part,
          editor, loop, req, bound, fresh, sid, sessions, cancels, active, allow, queue, token,
          holder, forwarders, closes

agentVars == <<editor, loop, req, bound, fresh, sid, sessions, cancels, active, allow, queue,
               token, holder, forwarders, closes>>

(***************************************************************************)
(* Peers and engines                                                       *)
(***************************************************************************)

\* A native peer that wants to write.
OneAgent ==
    {[native |-> TRUE, write |-> "yes", shell |-> "inherit", readOnly |-> "inherit",
      permission |-> "inherit"]}

\* An engine that may do everything and one that may only run commands.
Full == [write |-> TRUE, shell |-> TRUE]
Narrow == [write |-> FALSE, shell |-> TRUE]
TwoEngines == <<{Full}, {Full, Narrow}>>

(***************************************************************************)
(* Editors                                                                 *)
(***************************************************************************)

AnEditor(once, prompts, streams) ==
    [most |-> [k \in {"prompt", "goal", "load", "new", "close", "always"} |->
                 IF k = "prompt" THEN prompts ELSE IF k \in once THEN 1 ELSE 0],
     streams |-> streams]

(* The session is closed and opened again around two prompts; around a     *)
(* prompt and a goal; around a prompt and a setting; a load meets the new  *)
(* session.                                                                *)
FourEditors == {AnEditor({"close", "load"}, 2, TRUE),
                AnEditor({"goal", "close"}, 1, TRUE),
                AnEditor({"always", "close", "load"}, 1, FALSE),
                AnEditor({"load", "close", "new"}, 1, TRUE)}

A == INSTANCE ACPAgent

\* A provider streams or does not.
ASSUME EditorsAssumption == \A e \in Editors : e.streams \in BOOLEAN

(***************************************************************************)
(* One of the two                                                          *)
(***************************************************************************)

all == <<part, vars, agentVars>>

NoEditor == A!Init /\ editor = CHOOSE e \in Editors : TRUE

MCInit ==
    /\ Init
    /\ \/ part = "peers" /\ NoEditor
       \/ part = "agent" /\ A!Init

MCNext ==
    /\ UNCHANGED part
    /\ \/ part = "peers" /\ Next /\ UNCHANGED agentVars
       \/ part = "agent" /\ A!Next /\ UNCHANGED vars

MCSpec ==
    /\ MCInit /\ [][MCNext]_all
    /\ WF_vars(part = "peers" /\ (Reap \/ \E c \in Callers : Exec(c)))
    /\ WF_agentVars(part = "agent" /\ (A!TakeSetting \/ \E i \in DOMAIN req : A!Work(i)))

\* A power tool runs only on the editor's word; a prompt finds its slot free and its
\* cancel within reach; its answer is shown, and when all is answered nothing of a
\* run is left behind: no listener, no callback, no cancel.
PromptsKept ==
    part = "agent" =>
        /\ A!Gated /\ A!SlotIsFree /\ A!CancelReaches
        /\ A!ShownAlone /\ A!NothingLeft

\* Every call of a peer ends and no dead peer stays in the pool; once the editor is
\* gone every handler answers and serve returns.
EveryCallEnds ==
    []<>(/\ part = "peers" =>
              /\ \A c \in Callers : call[c].pc = "idle"
              /\ closed \/ \A s \in pool : slot[s].st = "up" => Alive(s)
         /\ part = "agent" /\ loop = "ended" =>
              \A i \in DOMAIN req : A!Answered(i) \/ req[i].pc = "queued")
=============================================================================

-------------------------------- MODULE LLMMC --------------------------------
(***************************************************************************)
(* The run of the client: LLMCall, one call of the model against a server  *)
(* that may fail it, and EngineModel, the client's model, effort and wire  *)
(* under the callers that build and change it.  A behaviour is one of the  *)
(* two; the variables of the other stay as they start.                     *)
(***************************************************************************)
EXTENDS LLMCall

CONSTANTS Callers, Configs, Recorded, Catalogs, HostCalls, MaxCalls, NoRuntime, Nobody

VARIABLES part,
          cfg, shared, explicit, runEffort, builder, closed, keyed, callerPc, call, local,
          cancelled, left, result, record, choice, pin, ignored

modelVars == <<cfg, shared, explicit, runEffort, builder, closed, keyed, callerPc, call, local,
               cancelled, left, result, record, choice, pin, ignored>>

(***************************************************************************)
(* Histories, frames and bodies of a call                                  *)
(***************************************************************************)

(* A turn of model "m1" with reasoning, two calls and one that is only a   *)
(* signature, and one without.                                             *)
MCHistories ==
    {<<SystemMsg,
       Msg("user", TRUE, <<>>, "", <<>>),
       Msg("assistant", FALSE, <<CallOf("a", "n", "fa"), CallOf("b", "n", ""), CallOf("", "s", "")>>,
           "", <<"m1">>),
       Msg("tool", TRUE, <<>>, "a", <<>>),
       Msg("tool", FALSE, <<>>, "b", <<>>),
       Msg("assistant", TRUE, <<>>, "", <<"m2">>)>>,
     <<Msg("user", TRUE, <<>>, "", <<>>)>>}

T(t) == [t |-> t]
Text(d) == [t |-> "text", text |-> d]
Tool(at, id, name, args) == [t |-> "tool", at |-> at, id |-> id, name |-> name, args |-> args]
ItemF(t, at, item, id, args) ==
    [t |-> t, at |-> at, item |-> item, id |-> id, name |-> "n", args |-> args]
ArgsF(t, at, item, args) == [t |-> t, at |-> at, item |-> item, args |-> args]

Body(text, calls, cut, failed) == [text |-> text, calls |-> calls, cut |-> cut, failed |-> failed]

MCBodies ==
    {Body(<<"a">>, <<>>, FALSE, FALSE), Body(<<"a">>, <<Acc("c0", "n", <<"c0">>)>>, TRUE, FALSE),
     Body(<<>>, <<Acc("c0", "", <<>>)>>, FALSE, FALSE), Body(<<>>, <<>>, FALSE, TRUE)}

Texts == {Text(<<"a">>), Text(<<"a", "b">>)}

MCFrames(w) ==
    CASE w = "chat" ->
           Texts \cup {T("junk"), T("done"), T("error"), T("other")}
             \cup {[t |-> "finish", stop |-> "stop"],
                   Tool(0, "c0", "n", <<>>), Tool(0, "", "", <<"c0">>), Tool(2, "c2", "n", <<"c2">>)}
      [] w = "anthropic" ->
           Texts \cup {T("ping"), T("stop"), T("error"), T("other")}
             \cup {[t |-> "finish", stop |-> "end_turn"],
                   Tool(1, "c1", "n", <<>>), [t |-> "args", at |-> 1, args |-> <<"c1">>],
                   [t |-> "args", at |-> 2, args |-> <<"c2">>]}
      [] w = "responses" ->
           Texts \cup {T("created"), T("other"), T("error"), T("incomplete"), T("garbled")}
             \cup {ItemF("item", 0, "i0", "c0", <<>>), ItemF("item", 1, "i1", "c1", <<>>),
                   ItemF("item.done", 1, "i1", "c1", <<"c1">>),
                   ArgsF("args", 1, "i1", <<"c1">>), ArgsF("args", 0, "i1", <<"c1">>), ArgsF("args.done", 0, "i0", <<"c0">>)}
             \cup {[t |-> "completed", response |-> b] : b \in MCBodies}

(* Place n has call "cn" and item "in".                                    *)
MCCallAt(n) == CASE n = 0 -> "c0" [] n = 1 -> "c1" [] OTHER -> "c2"
MCPlaceOf(item) == IF item = "i0" THEN 0 ELSE 1

(***************************************************************************)
(* Configurations, catalogs and calls of the host                          *)
(***************************************************************************)

Id(base, tier) == [base |-> base, tier |-> tier]
Conf(id, effort, onWire, fixed) == [id |-> id, effort |-> effort, wire |-> onWire, explicit |-> fixed]
Row(id, efforts, def, prefers, wires, facet) ==
    [id |-> id, efforts |-> efforts, def |-> def, wire |-> prefers, wires |-> wires,
     facet |-> facet, group |-> FALSE]

MCConfigs ==
    {Conf(Id("m1", ""), "", "chat", FALSE), Conf(Id("m1", "low"), "", "responses", TRUE)}

MCRecorded == {NoRuntime, [model |-> "m2", wire |-> "chat", effort |-> "max"]}

(* No catalog (the fetch failed) and two the gateway may have: m1 with a    *)
(* row of its own and a tiered one, and m1 as a model for images.           *)
MCCatalogs ==
    {<<>>,
     <<Row(Id("m1", ""), {}, "high", "", {"chat", "responses"}, "chat"),
       Row(Id("m1", "low"), {"low", "medium", "high"}, "", "", {}, ""),
       Row(Id("m2", ""), {}, "", "anthropic", {}, "")>>,
     <<Row(Id("m1", ""), {}, "", "", {}, "image"),
       Row(Id("m2", ""), {"medium", "max"}, "max", "responses", {}, "")>>}

Model(id) == [op |-> "model", id |-> id]
Effort(e) == [op |-> "effort", effort |-> e]

MCCalls ==
    {Model(Id("m1", "")), Model(Id("m2", "low")), Effort("max"),
     [op |-> "wire", wire |-> "anthropic"], [op |-> "list"],
     [op |-> "prompt", simple |-> TRUE]}

M == INSTANCE EngineModel WITH
       client <- shared, pc <- callerPc,
       Calls <- HostCalls

\* What a host may call; nobody is no caller.
ASSUME ModelAssumption ==
    /\ Nobody \notin Callers
    /\ \A c \in HostCalls : c.op \in {"model", "effort", "wire", "list", "prompt"}
    /\ \A c \in Configs : c.explicit \in BOOLEAN

(***************************************************************************)
(* One of the two                                                          *)
(***************************************************************************)

all == <<part, vars, modelVars>>

NoModel ==
    /\ cfg = Nobody /\ shared = M!NoClient /\ explicit = FALSE /\ runEffort = "" /\ builder = Nobody
    /\ closed = FALSE /\ keyed = FALSE /\ callerPc = Nobody /\ call = Nobody /\ local = Nobody
    /\ cancelled = Nobody /\ left = 0 /\ result = Nobody /\ record = NoRuntime
    /\ choice = "" /\ pin = "" /\ ignored = Nobody

NoCallUnderWay ==
    /\ wire = "chat" /\ model = "m1" /\ ~streaming /\ prefix = 0
    /\ Len(history) = 1

MCInit ==
    /\ Init
    /\ \/ part = "call" /\ NoModel
       \/ part = "model" /\ NoCallUnderWay /\ M!Init

MCNext ==
    /\ UNCHANGED part
    /\ \/ part = "call" /\ Next /\ UNCHANGED modelVars
       \/ part = "model" /\ M!Next /\ UNCHANGED vars

MCSpec ==
    /\ MCInit /\ [][MCNext]_all
    /\ WF_vars(part = "call" /\ CallStep)
    /\ \A p \in Callers : WF_modelVars(part = "model" /\ M!Step(p))

\* What the host was shown is what the call returns; a reply that was cut off is
\* not returned as an answer; a call of a tool arrives whole.
RepliesWhole == ShownIsReturned /\ CompleteOnly /\ CallsWhole

\* What comes from the model is whole, and so is what goes to it.
ExchangeWhole == RepliesWhole /\ RequestReplayable

\* What the operator chose, effort and wire, stays through every switch, refresh
\* and late build; configuration and client tell one story; the cheaper effort
\* of one prompt does not reach the next.
ChoicesKept ==
    part = "model" => M!ChoiceKept /\ M!PinnedWireKept /\ M!ConfigAgrees /\ M!OverrideEnds

\* A caller fails for its own reasons: another caller that gave up while it built
\* the client takes nobody with it (engine.go, ensureLLM).
OwnFailure == [][part = "model" => M!FailsForItself]_modelVars

\* A call of the model ends, and nobody waits for the client for ever.
CallsEnd ==
    []<>(/\ part = "call" => phase = "over"
         /\ part = "model" => \A p \in Callers : callerPc[p] \notin {"ensure", "wait", "build"})
=============================================================================

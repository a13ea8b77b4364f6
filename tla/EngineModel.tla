---------------------------- MODULE EngineModel ----------------------------
(***************************************************************************)
(* Which model, effort and wire an engine's requests use:                  *)
(* internal/engine/engine_model.go, ensureLLM and New in engine.go and the *)
(* effort rules of internal/llm/effort.go.                                 *)
(*                                                                         *)
(* The client is built once, by whichever caller needs it first, with the  *)
(* catalog fetched outside e.mu; the others wait.  A host sets the model,  *)
(* the effort and the wire and refreshes the catalog while a prompt sends  *)
(* requests.  Each action is one critical section of e.mu, or one step     *)
(* between two of them.                                                    *)
(*                                                                         *)
(* A model id is its lean name and a legacy tier suffix.  The gateway      *)
(* lists rows; a catalog is a partial function from lean names to the      *)
(* efforts, default effort and wire of the chat models among them.         *)
(*                                                                         *)
(* An operator whose comment starts with "Fault:" is a wrong version of    *)
(* the definition below it, used to see that a property notices.           *)
(***************************************************************************)
EXTENDS Naturals, FiniteSets, Sequences

CONSTANTS
    Callers,   \* the goroutines of the host
    Configs,   \* configurations New may get: model id, effort, wire, pinned wire
    Recorded,  \* runtimes a resumed session may have recorded, NoRuntime if none
    Catalogs,  \* lists GET /models may answer with, empty if it fails
    Calls,     \* the calls a host may make
    MaxCalls   \* bound: the calls of all of them

CONSTANTS NoRuntime, Nobody

NoClient == <<>>  (* a nil *llm.Client *)
Unset == ""       (* a field that is not set *)

VARIABLES
    cfg,        \* e.cfg.LLM: model, effort, wire, explicit
    client,     \* e.client: model, effort, pinned, wire, catalog; NoClient before
    explicit,   \* e.wireExplicit
    runEffort,  \* e.runEffort
    builder,    \* who holds e.llmInitializing
    closed,     \* e.closed
    keyed,      \* there is a key and a model to build a client with
    pc,         \* [Callers -> what the goroutine is about to do]
    call,       \* [Callers -> the call it is in]
    local,      \* [Callers -> its snapshot: a configuration, a client or a record]
    cancelled,  \* [Callers -> its context is cancelled]
    left,       \* calls that may still be made
    result,     \* [Callers -> how its last call ended]
    record,     \* the last runtime event of the session file
    choice,     \* history: the effort the operator chose and the model allows
    pin,        \* history: the wire the operator chose
    ignored     \* history: [Callers -> the choice its last request did not follow]

host == <<pc, call, local, cancelled, left, result>>
history == <<choice, pin, ignored>>
vars == <<cfg, client, explicit, runEffort, builder, closed, keyed, host, record, history>>

-----------------------------------------------------------------------------
(* The rules of effort.go.                                                 *)
Static == {"none", "low", "medium", "high"}
HighCost == {"high", "max"}

Entry(catalog, m) ==
    IF m \in DOMAIN catalog THEN catalog[m] ELSE [efforts |-> {}, def |-> Unset, wire |-> Unset]

ChatWires == {"chat", "responses", "anthropic"}

(* What a row prefers, or the first of what it supports.                   *)
WireOf(r) ==
    IF r.wire # Unset THEN r.wire
    ELSE IF "chat" \in r.wires THEN "chat"
    ELSE IF "anthropic" \in r.wires THEN "anthropic"
    ELSE IF "responses" \in r.wires THEN "responses" ELSE Unset

(* CollapseEffortTiersInCatalog: the rows of one lean name become one row, *)
(* each field from the first row that has it.                              *)
Collapsed(rows, name) ==
    LET own == SelectSeq(rows, LAMBDA r : r.id.base = name)
        First(Of(_), none) ==
            LET has == SelectSeq(own, LAMBDA r : Of(r) # none)
            IN IF has = <<>> THEN none ELSE Of(has[1])
    IN [efforts |-> First(LAMBDA r : r.efforts, {}), def |-> First(LAMBDA r : r.def, Unset),
        wire |-> First(WireOf, Unset), facet |-> First(LAMBDA r : r.facet, Unset),
        group |-> own[1].group]

(* filterChatModels: no groups, no other facets, no other wires.           *)
ForChat(row) ==
    ~row.group /\ row.facet \in {Unset, "chat"} /\ row.wire \in ChatWires \cup {Unset}

Listed(rows) ==
    LET names == {rows[i].id.base : i \in DOMAIN rows}
    IN [name \in {n \in names : ForChat(Collapsed(rows, n))} |-> Collapsed(rows, name)]

(* An empty effort is always taken; without a listed set the static one    *)
(* decides.                                                                *)
Allowed(e, efforts) ==
    e = Unset \/ IF efforts = {} THEN e \in Static ELSE e \in efforts

(* NormalizeConfiguredModel: a tier suffix becomes the effort when none is *)
(* set.  An effort outside the static set counts as none.                  *)
ConfiguredEffort(id, e) ==
    LET eff == IF e \in Static THEN e ELSE Unset
    IN IF id.tier # Unset /\ eff = Unset THEN id.tier ELSE eff

(* Fault: a listed default always wins.                                    *)
SyncEffortUnpinned(c) ==
    LET info == Entry(c.catalog, c.model) IN
    IF c.model \notin DOMAIN c.catalog THEN c
    ELSE [c EXCEPT !.pinned = FALSE,
                   !.effort = IF info.def # Unset THEN info.def
                              ELSE IF @ \in info.efforts THEN @ ELSE Unset]

(* SyncEffortToModel: a pinned effort survives where the model takes it,   *)
(* otherwise the model's default rules; without an entry nothing changes.  *)
SyncEffort(c) ==
    LET info == Entry(c.catalog, c.model) IN
    IF c.model \notin DOMAIN c.catalog \/ (c.pinned /\ c.effort \in info.efforts) THEN c
    ELSE [c EXCEPT !.pinned = FALSE,
                   !.effort = IF info.def # Unset THEN info.def
                              ELSE IF @ \in info.efforts THEN @ ELSE Unset]

(* The wire the catalog prefers, unless the operator pinned one.           *)
Preferred(c, fixed) ==
    LET w == Entry(c.catalog, c.model).wire
    IN IF fixed \/ w = Unset THEN c ELSE [c EXCEPT !.wire = w]

Client(conf, catalog) ==
    [model |-> conf.model, effort |-> conf.effort, pinned |-> conf.effort # Unset,
     wire |-> conf.wire, catalog |-> catalog]

(* SuggestEffortForPrompt: "medium" for a short mechanical prompt.         *)
Downshift(simple, c) ==
    /\ simple
    /\ c.effort \in HighCost
    /\ Allowed("medium", Entry(c.catalog, c.model).efforts)

(* What a client and the configuration beside it agree on.                 *)
Mirror(c) == [cfg EXCEPT !.model = c.model, !.effort = c.effort, !.wire = c.wire]

(* What Model(), Wire() and Effort() say.                                  *)
Shown == IF client = NoClient THEN cfg ELSE client
Policy(x) == [model |-> x.model, wire |-> x.wire, effort |-> x.effort]

(* The operator's choice lasts while the model in use takes it.            *)
StillChosen(e, c) ==
    IF c.model \in DOMAIN c.catalog /\ e \notin c.catalog[c.model].efforts THEN Unset ELSE e

-----------------------------------------------------------------------------
(* New: the configuration is normalised, a client is built at once or left *)
(* to ensureLLM, and a resumed session's runtime is put on top.            *)
Configured(conf) ==
    [model |-> conf.id.base, effort |-> ConfiguredEffort(conf.id, conf.effort),
     wire |-> conf.wire, explicit |-> conf.explicit]

Built(conf, catalog) == Preferred(SyncEffort(Client(conf, catalog)), conf.explicit)

(* SetModel, then SetWire, then the recorded effort if the model takes it. *)
ResumedLive(c, r) ==
    LET m == SyncEffort([c EXCEPT !.model = r.model])
        w == [m EXCEPT !.wire = r.wire]
    IN IF r.effort # Unset /\ Allowed(r.effort, Entry(w.catalog, w.model).efforts)
       THEN [w EXCEPT !.effort = r.effort, !.pinned = TRUE] ELSE w

ResumedDeferred(conf, r) ==
    [conf EXCEPT !.model = r.model, !.wire = r.wire,
                 !.effort = IF r.effort = Unset THEN @ ELSE r.effort]

NoCall == [op |-> "none"]

Init ==
    /\ \E given \in Configs, r \in Recorded, rows \in Catalogs, deferred \in BOOLEAN :
         LET conf == Configured(given)
             catalog == Listed(rows)
             c == IF r = NoRuntime THEN Built(conf, catalog)
                  ELSE ResumedLive(Built(conf, catalog), r)
         IN IF deferred
            THEN /\ cfg = IF r = NoRuntime THEN conf ELSE ResumedDeferred(conf, r)
                 /\ client = NoClient
                 /\ explicit = FALSE
                 /\ keyed \in BOOLEAN
                 /\ record = IF r = NoRuntime THEN r
                             ELSE Policy(cfg)
                 /\ choice = cfg.effort
                 /\ pin = (IF conf.explicit THEN cfg.wire ELSE Unset)
            ELSE /\ client = c
                 /\ cfg = [model |-> c.model, effort |-> c.effort, wire |-> c.wire,
                           explicit |-> conf.explicit \/ r # NoRuntime]
                 /\ explicit = cfg.explicit
                 /\ keyed = TRUE
                 /\ record = IF r = NoRuntime THEN r ELSE Policy(c)
                 /\ choice = (IF c.pinned THEN c.effort ELSE Unset)
                 /\ pin = (IF cfg.explicit THEN c.wire ELSE Unset)
    /\ runEffort = Unset
    /\ builder = Nobody
    /\ closed = FALSE
    /\ pc = [p \in Callers |-> "idle"]
    /\ call = [p \in Callers |-> NoCall]
    /\ local = [p \in Callers |-> NoClient]
    /\ cancelled = [p \in Callers |-> FALSE]
    /\ left = MaxCalls
    /\ result = [p \in Callers |-> "none"]
    /\ ignored = [p \in Callers |-> Unset]

-----------------------------------------------------------------------------
Goto(p, l) == pc' = [pc EXCEPT ![p] = l]

End(p, how) ==
    /\ Goto(p, "idle")
    /\ result' = [result EXCEPT ![p] = how]
    /\ cancelled' = [cancelled EXCEPT ![p] = FALSE]
    /\ local' = [local EXCEPT ![p] = NoClient]
    /\ call' = [call EXCEPT ![p] = NoCall]
    /\ UNCHANGED left

Move(p, l) == Goto(p, l) /\ UNCHANGED <<call, local, cancelled, left, result>>

Keep(p, l, x) ==
    /\ Goto(p, l)
    /\ local' = [local EXCEPT ![p] = x]
    /\ UNCHANGED <<call, cancelled, left, result>>

engine == <<cfg, client, explicit, runEffort, closed, keyed, record, history>>

(* After ensureLLM: setters go on whatever it said, the others need it.    *)
Ensured(p, ok) ==
    IF ok \/ call[p].op \in {"model", "effort"} THEN Move(p, call[p].op)
    ELSE End(p, "failed")

(* A host calls.  Prompts take promptMu one at a time; SetWire does not    *)
(* build a client.                                                         *)
Begin(p) ==
    /\ pc[p] = "idle"
    /\ left > 0
    /\ \E c \in Calls :
         /\ c.op = "prompt" => \A q \in Callers : pc[q] # "idle" => call[q].op # "prompt"
         /\ call' = [call EXCEPT ![p] = c]
         /\ Goto(p, IF c.op = "wire" THEN "wire" ELSE "ensure")
    /\ left' = left - 1
    /\ result' = [result EXCEPT ![p] = "none"]
    /\ UNCHANGED <<engine, builder, local, cancelled>>

(* The setters make their own context, which nobody cancels.               *)
Cancel(p) ==
    /\ pc[p] # "idle"
    /\ call[p].op \in {"prompt", "list"}
    /\ ~cancelled[p]
    /\ cancelled' = [cancelled EXCEPT ![p] = TRUE]
    /\ UNCHANGED <<engine, builder, pc, call, local, left, result>>

Close ==
    /\ ~closed
    /\ closed' = TRUE
    /\ UNCHANGED <<cfg, client, explicit, runEffort, builder, keyed, host, record, history>>

(* ensureLLM up to its wait: e.chat is set together with the client.       *)
Ensure(p) ==
    /\ pc[p] = "ensure"
    /\ \/ (cancelled[p] \/ closed) /\ Ensured(p, FALSE) /\ UNCHANGED builder
       \/ /\ ~cancelled[p] /\ ~closed
          /\ \/ client # NoClient /\ Ensured(p, TRUE) /\ UNCHANGED builder
             \/ /\ client = NoClient /\ builder # Nobody
                /\ Move(p, "wait") /\ UNCHANGED builder
             \/ /\ client = NoClient /\ builder = Nobody
                /\ builder' = p
                /\ Keep(p, "build", cfg)
    /\ UNCHANGED engine

(* Fault: a waiter takes the builder's failure for its own.                *)
WaitOnce(p) ==
    /\ pc[p] = "wait"
    /\ \/ cancelled[p] /\ Ensured(p, FALSE)
       \/ ~cancelled[p] /\ builder = Nobody /\ Ensured(p, client # NoClient)
    /\ UNCHANGED <<engine, builder>>

(* A waiter leaves when it is cancelled, and starts over when the builder  *)
(* is done.                                                                *)
Wait(p) ==
    /\ pc[p] = "wait"
    /\ \/ cancelled[p] /\ Ensured(p, FALSE)
       \/ builder = Nobody /\ Move(p, "ensure")
    /\ UNCHANGED <<engine, builder>>

(* Fault: the channel stays behind when the build fails.                   *)
BuildFailsHeld(p) ==
    /\ pc[p] = "build"
    /\ ~keyed \/ cancelled[p] \/ closed
    /\ Ensured(p, FALSE)
    /\ UNCHANGED <<engine, builder>>

(* No key, a cancelled fetch or a closed engine: nothing is published and  *)
(* the channel is closed all the same.                                     *)
BuildFails(p) ==
    /\ pc[p] = "build"
    /\ ~keyed \/ cancelled[p] \/ closed
    /\ builder' = Nobody
    /\ Ensured(p, FALSE)
    /\ UNCHANGED engine

(* Fault: the wire the configuration pins is forgotten.                    *)
PublishUnpinned(p) ==
    /\ pc[p] = "build"
    /\ keyed /\ ~closed
    /\ \E rows \in Catalogs :
         LET c == SyncEffort(Client(local[p], Listed(rows))) IN
         /\ client' = Preferred(c, FALSE)
         /\ choice' = StillChosen(choice, c)
    /\ cfg' = Mirror(client')
    /\ builder' = Nobody
    /\ Ensured(p, TRUE)
    /\ UNCHANGED <<explicit, runEffort, closed, keyed, record, pin, ignored>>

(* The client made from the snapshot, with the catalog the fetch brought   *)
(* (none if it failed), is published.                                      *)
Publish(p) ==
    /\ pc[p] = "build"
    /\ keyed /\ ~closed
    /\ \E rows \in Catalogs :
         LET c == SyncEffort(Client(local[p], Listed(rows))) IN
         /\ client' = Preferred(c, local[p].explicit)
         /\ choice' = StillChosen(choice, c)
    /\ explicit' = local[p].explicit
    /\ cfg' = [cfg EXCEPT !.effort = client'.effort, !.wire = client'.wire]
    /\ builder' = Nobody
    /\ Ensured(p, TRUE)
    /\ UNCHANGED <<runEffort, closed, keyed, record, pin, ignored>>

-----------------------------------------------------------------------------
(* The setters, each one critical section after ensureLLM.                 *)
SetModel(p) ==
    /\ pc[p] = "model"
    /\ IF client = NoClient
       THEN End(p, "refused") /\ UNCHANGED <<cfg, client, choice>>
       ELSE LET id == call[p].id
                tiered == client.effort = Unset /\ id.tier # Unset
                c == [client EXCEPT !.model = id.base,
                                    !.effort = IF tiered THEN id.tier ELSE @,
                                    !.pinned = tiered \/ @]
            IN /\ client' = Preferred(SyncEffort(c), explicit)
               /\ cfg' = Mirror(client')
               /\ choice' = StillChosen(IF tiered THEN id.tier ELSE choice, c)
               /\ End(p, "ok")
    /\ UNCHANGED <<explicit, runEffort, builder, closed, keyed, record, pin, ignored>>

SetWire(p) ==
    /\ pc[p] = "wire"
    /\ IF client = NoClient
       THEN End(p, "refused") /\ UNCHANGED <<cfg, client, explicit, pin>>
       ELSE /\ client' = [client EXCEPT !.wire = call[p].wire]
            /\ explicit' = TRUE
            /\ cfg' = [cfg EXCEPT !.wire = call[p].wire, !.explicit = TRUE]
            /\ pin' = call[p].wire
            /\ End(p, "ok")
    /\ UNCHANGED <<runEffort, builder, closed, keyed, record, choice, ignored>>

(* SetEffort: refused if the model does not take it.  It is written to the *)
(* session after the lock, with the model and wire read once more.         *)
SetEffort(p) ==
    LET e == call[p].effort
        efforts == IF client = NoClient THEN {} ELSE Entry(client.catalog, client.model).efforts
    IN /\ pc[p] = "effort"
       /\ IF ~Allowed(e, efforts)
          THEN End(p, "refused") /\ UNCHANGED <<cfg, client, choice>>
          ELSE /\ cfg' = [cfg EXCEPT !.effort = e]
               /\ choice' = e
               /\ client' = IF client = NoClient THEN NoClient
                             ELSE [client EXCEPT !.effort = e, !.pinned = e # Unset]
               /\ IF record = NoRuntime THEN End(p, "ok")
                  ELSE Keep(p, "append", [model |-> Unset, wire |-> Unset, effort |-> e])
       /\ UNCHANGED <<explicit, runEffort, builder, closed, keyed, record, pin, ignored>>

(* The model, the wire and the effort have a reader each, so the record is *)
(* put together in more than one critical section; the last two are taken  *)
(* as one.                                                                 *)
AppendEffort(p) ==
    /\ pc[p] = "append"
    /\ record' = [local[p] EXCEPT !.model = Shown.model, !.wire = Shown.wire]
    /\ End(p, "ok")
    /\ UNCHANGED <<cfg, client, explicit, runEffort, builder, closed, keyed, history>>

(* Fault: the configuration keeps the effort from before the refresh.      *)
ListModelsStale(p) ==
    /\ pc[p] = "list"
    /\ \/ End(p, "error") /\ UNCHANGED <<client, choice>>
       \/ \E rows \in Catalogs :
            /\ client' = SyncEffort([client EXCEPT !.catalog = Listed(rows)])
            /\ choice' = StillChosen(choice, client')
            /\ End(p, "ok")
    /\ UNCHANGED <<cfg, explicit, runEffort, builder, closed, keyed, record, pin, ignored>>

(* ListModels: the request is made with a copy of the client, its answer   *)
(* published if the client is still the same, which it always is.          *)
ListModels(p) ==
    /\ pc[p] = "list"
    /\ \/ End(p, "error") /\ UNCHANGED <<cfg, client, choice>>
       \/ \E rows \in Catalogs :
            /\ client' = SyncEffort([client EXCEPT !.catalog = Listed(rows)])
            /\ cfg' = [cfg EXCEPT !.effort = client'.effort]
            /\ choice' = StillChosen(choice, client')
            /\ End(p, "ok")
    /\ UNCHANGED <<explicit, runEffort, builder, closed, keyed, record, pin, ignored>>

-----------------------------------------------------------------------------
(* A prompt: it reads the model, then (hooks run in between) writes what   *)
(* it takes to be in force to the session, then may go down to "medium"    *)
(* and send requests.                                                      *)
Prompt(p) ==
    /\ pc[p] = "prompt"
    /\ IF cancelled[p] THEN End(p, "failed")
       ELSE Keep(p, "record", [model |-> client.model, wire |-> Unset, effort |-> Unset])
    /\ UNCHANGED <<engine, builder>>

Record(p) ==
    /\ pc[p] = "record"
    /\ record' = [local[p] EXCEPT !.wire = client.wire, !.effort = client.effort]
    /\ Move(p, "run")
    /\ UNCHANGED <<cfg, client, explicit, runEffort, builder, closed, keyed, history>>

(* applyAutoEffort: an effort the operator chose is left alone.            *)
AutoEffort(p) ==
    /\ pc[p] = "run"
    /\ runEffort' = IF ~client.pinned /\ Downshift(call[p].simple, client)
                    THEN "medium" ELSE Unset
    /\ Move(p, "request")
    /\ UNCHANGED <<cfg, client, explicit, builder, closed, keyed, record, history>>

(* A request goes out with a copy of the client and the run's override.    *)
Sent == IF runEffort # Unset THEN runEffort ELSE client.effort

Request(p) ==
    /\ pc[p] = "request"
    /\ ~cancelled[p]
    /\ ignored' = [ignored EXCEPT ![p] = IF Sent = choice THEN Unset ELSE choice]
    /\ UNCHANGED <<cfg, client, explicit, runEffort, builder, closed, keyed, host, record,
                   choice, pin>>

(* Fault: a prompt that is cancelled leaves its override behind.           *)
EndRunCancelled(p) ==
    /\ pc[p] = "request"
    /\ runEffort' = IF cancelled[p] THEN runEffort ELSE Unset
    /\ ignored' = [ignored EXCEPT ![p] = Unset]
    /\ End(p, "ok")
    /\ UNCHANGED <<cfg, client, explicit, builder, closed, keyed, record, choice, pin>>

(* The run ends, well or not, and its override with it.                    *)
EndRun(p) ==
    /\ pc[p] = "request"
    /\ runEffort' = Unset
    /\ ignored' = [ignored EXCEPT ![p] = Unset]
    /\ End(p, "ok")
    /\ UNCHANGED <<cfg, client, explicit, builder, closed, keyed, record, choice, pin>>

Step(p) ==
    \/ Ensure(p) \/ Wait(p) \/ BuildFails(p) \/ Publish(p)
    \/ SetModel(p) \/ SetWire(p) \/ SetEffort(p) \/ AppendEffort(p) \/ ListModels(p)
    \/ Prompt(p) \/ Record(p) \/ AutoEffort(p) \/ Request(p) \/ EndRun(p)

Next == Close \/ \E p \in Callers : Begin(p) \/ Cancel(p) \/ Step(p)

Spec == Init /\ [][Next]_vars

(* Goroutines run on and the catalog fetch has a timeout of its own; what  *)
(* holds a prompt is the host's.                                           *)
FairSpec == Spec /\ \A p \in Callers : WF_vars(Step(p))

-----------------------------------------------------------------------------
(* An effort the operator chose (configuration, session, tier suffix or    *)
(* SetEffort) stays the client's and stays pinned through every model      *)
(* switch, catalog refresh and late build whose model takes it.            *)
ChoiceKept ==
    client # NoClient /\ choice # Unset => client.effort = choice /\ client.pinned

(* A wire the operator pinned is not changed by what the catalog prefers.  *)
PinnedWireKept ==
    pin # Unset => Shown.wire = pin

(* The configuration, which New's readers, resumed sessions and the limits *)
(* go by, and the client never tell different stories.                     *)
ConfigAgrees ==
    client # NoClient =>
        /\ cfg.model = client.model
        /\ cfg.effort = client.effort
        /\ cfg.wire = client.wire

(* The cheaper effort of one prompt never reaches the next one.            *)
OverrideEnds ==
    runEffort # Unset => \E p \in Callers : pc[p] = "request"

(* A caller fails for its own reasons: another caller that gave up while   *)
(* it built the client takes nobody with it.                               *)
FailsForItself ==
    \A p \in Callers : result'[p] # result[p] =>
        /\ result'[p] = "failed" => cancelled[p] \/ closed \/ ~keyed
        /\ result'[p] = "refused" /\ call[p].op = "model" => closed \/ ~keyed

OwnFailure == [][FailsForItself]_vars

(* Nobody waits for the client for ever.                                   *)
EnsureEnds ==
    \A p \in Callers :
        pc[p] \in {"ensure", "wait", "build"} ~> pc[p] \notin {"ensure", "wait", "build"}

(* What engine_model.go says of SetEffort: it is the effort of subsequent  *)
(* chat calls.                                                             *)
ChoiceSent ==
    \A p \in Callers : ignored[p] = Unset

(* What engine_prompt.go and engine_model.go write for a resume: the model *)
(* with the wire and the effort in use.                                    *)
RecordedInForce ==
    [][record' # record => record' = Policy(Shown)]_vars

(* What engine.go says of a wire nobody pinned: it is the one the catalog  *)
(* prefers, once there is a catalog.                                       *)
WireFollowsCatalog ==
    client # NoClient /\ ~explicit /\ Entry(client.catalog, client.model).wire # Unset =>
        client.wire = Entry(client.catalog, client.model).wire
=============================================================================

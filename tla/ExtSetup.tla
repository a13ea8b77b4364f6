------------------------------ MODULE ExtSetup ------------------------------
(***************************************************************************)
(* The registry of extensions (ext/ext.go) while engines are made and      *)
(* closed (internal/engine, New and Close): a setup bumps the generation,  *)
(* lets the packs register what the configuration names, and the engine    *)
(* captures the tools and hooks it may use.  Two packs are here: cmdhook   *)
(* (ext/cmdhook setup) and MCP with its transports (ext/mcp, mcp.go and    *)
(* registry.go), whose servers outlive a setup and belong to a generation. *)
(*                                                                         *)
(* setupMu (owner) serialises setups; Close of another engine runs beside  *)
(* them.  Hooks are told apart by their source and generation, one MCP     *)
(* server has one tool of its name, a transport is the generation and the  *)
(* place of its server in the configuration.                               *)
(*                                                                         *)
(* An operator whose comment starts with "Fault:" is a wrong version of    *)
(* the definition below it, used to see that a property notices.           *)
(***************************************************************************)
EXTENDS Integers, Sequences, FiniteSets, Functions

CONSTANTS
    Engines,     \* engines a process makes, one after another or together
    Configs,     \* what New is called with: records [host, skip, plugins, servers]; the
                 \* servers of one have different names (of two with the same name the
                 \* first loses its transport and keeps the tool)
    MaxFails,    \* bound: servers, plugins and constructions that fail
    MaxToggles   \* bound: extensions switched by hand

VARIABLES
    gen,         \* beforeNewGen
    owner,       \* the engine that holds setupMu
    failed,      \* first # nil of the running setup
    before,      \* instancesBefore
    todo,        \* servers RegisterServers has still to start
    registered,  \* names it has registered so far
    tools,       \* ext.tools: tool name -> [gen, tr]
    hooks,       \* every list of hooks: records [source, gen]
    insts,       \* extInstances: [kind, name] -> the switch
    refs,        \* genEngineRefs
    slots,       \* mcp.transports: server name -> [gen, tr]
    orphans,     \* mcp.orphanedByGen
    open,        \* transports that were started and not closed
    eng,         \* the engines: [pc, cfg, gen, tools, hooks]
    fails, toggles

shared == <<tools, hooks, insts, refs, slots, orphans, open>>
setup == <<owner, failed, before, todo, registered>>
vars == <<gen, setup, shared, eng, fails, toggles>>

NoEngine == "none"
Gens == 1..Cardinality(Engines)
Static == [gen |-> 0, tr |-> <<0, 0>>]

Init ==
    /\ gen = 0 /\ owner = NoEngine /\ failed = FALSE /\ before = <<>>
    /\ todo = <<>> /\ registered = {}
    /\ tools = [n \in {"proc"} |-> Static]
    /\ hooks = {[source |-> [pack |-> "acp", name |-> ""], gen |-> 0]}
    /\ insts = <<>>
    /\ refs = [g \in Gens |-> 0]
    /\ slots = <<>> /\ orphans = [g \in Gens |-> {}] /\ open = {}
    /\ \E c \in [Engines -> Configs] :
          eng = [e \in Engines |-> [pc |-> "new", cfg |-> c[e], gen |-> 0,
                                    tools |-> {}, hooks |-> {}]]
    /\ fails = 0 /\ toggles = 0

\* Maps that may grow and shrink.
With(f, k, v) == [x \in DOMAIN f \cup {k} |-> IF x = k THEN v ELSE f[x]]
Without(f, S) == Restrict(f, DOMAIN f \ S)

\* What RegisterTool and RegisterPreToolSource and its siblings keep of a
\* registration: it belongs to the generation of the running setup.
ToolEntry(tr, g) == [gen |-> g, tr |-> tr]
HookEntry(source, g) == [source |-> source, gen |-> g]

At(e, pc) == eng[e].pc = pc
Goto(e, pc) == eng' = [eng EXCEPT ![e].pc = pc]

\* ClearHookSource
\* Fault: what was registered for earlier engines stays.
ClearNothing(hs, sources) == hs
ClearHookSource(hs, sources) == {h \in hs : h.source \notin sources}

\* ClearExtensionKind
ClearExtensionKind(is, kind) == Without(is, {x \in DOMAIN is : x.kind = kind})

\* Where a hook comes from.
CmdHook == [pack |-> "cmdhook", name |-> ""]
Prompt(name) == [pack |-> "mcp-prompt", name |-> name]

(***************************************************************************)
(* Setup                                                                   *)
(***************************************************************************)

\* BeginSetup up to the first pack, and cmdhook.setup: the hooks of the host's
\* plugins replace those of earlier setups.  A pack's error is kept and the
\* packs after it still run.
Begin(e) ==
    /\ At(e, "new") /\ ~eng[e].cfg.skip /\ owner = NoEngine
    /\ owner' = e /\ gen' = gen + 1 /\ before' = insts
    /\ eng' = [eng EXCEPT ![e].pc = "hooked", ![e].gen = gen + 1]
    /\ LET kept == ClearHookSource(hooks, {CmdHook})
           rest == ClearExtensionKind(insts, "cmdhook")
       IN  \/ /\ eng[e].cfg.host /\ eng[e].cfg.plugins /\ fails < MaxFails
              /\ fails' = fails + 1 /\ failed' = TRUE /\ hooks' = kept /\ insts' = rest
           \/ /\ failed' = FALSE /\ fails' = fails
              /\ IF eng[e].cfg.host /\ eng[e].cfg.plugins
                 THEN /\ hooks' = kept \cup {HookEntry(CmdHook, gen + 1)}
                      /\ insts' = With(rest, [kind |-> "cmdhook", name |-> "plugin"], "auto")
                 ELSE hooks' = kept /\ insts' = rest
    /\ UNCHANGED <<todo, registered, tools, refs, slots, orphans, open, toggles>>

\* registerAllContext before RegisterServers: the guidance of the servers that
\* are registered now is forgotten, then the configuration is read.
McpBegin(e) ==
    /\ At(e, "hooked") /\ owner = e
    /\ Goto(e, "mcp")
    /\ hooks' = ClearHookSource(hooks, {Prompt(n) : n \in DOMAIN slots})
    /\ insts' = ClearExtensionKind(insts, "mcp")
    /\ registered' = {}
    /\ \/ todo' = eng[e].cfg.servers /\ UNCHANGED <<failed, fails>>
       \/ fails < MaxFails /\ fails' = fails + 1 /\ failed' = TRUE /\ todo' = <<>>
    /\ UNCHANGED <<gen, owner, before, tools, refs, slots, orphans, open, toggles>>

\* GenerationEngineRefs
\* Fault: the engines of an earlier setup are not asked.
NoneInUse(g) == FALSE
InUse(g) == refs[g] > 0

\* retireTransportLocked: a transport that an open engine may still use is kept
\* for the release of its generation, another is closed.
Retired(old) == IF InUse(old.gen) THEN {} ELSE {old.tr}
Orphaned(old) ==
    IF InUse(old.gen) THEN [orphans EXCEPT ![old.gen] = @ \cup {old.tr}] ELSE orphans

\* A server started and listed its tools: registerTransport,
\* RegisterExtensionInstance, registerServerPrompt, RegisterTool.  A second
\* server that maps to the same tool name has its transport and loses its tool.
Register(e) ==
    /\ At(e, "mcp") /\ owner = e /\ todo # <<>>
    /\ LET s  == Head(todo)
           tr == <<gen, Len(eng[e].cfg.servers) - Len(todo) + 1>>
           replaces == s.name \in DOMAIN slots
           cleared == ClearHookSource(hooks, {Prompt(s.name)})
       IN  /\ open' = (IF replaces THEN open \ Retired(slots[s.name]) ELSE open) \cup {tr}
           /\ orphans' = IF replaces THEN Orphaned(slots[s.name]) ELSE orphans
           /\ slots' = With(slots, s.name, [gen |-> gen, tr |-> tr])
           /\ insts' = With(insts, [kind |-> "mcp", name |-> s.name], "auto")
           /\ hooks' = IF s.prompt THEN cleared \cup {HookEntry(Prompt(s.name), gen)}
                       ELSE cleared
           /\ tools' = IF s.name \in registered THEN tools
                       ELSE With(tools, s.name, ToolEntry(tr, gen))
           /\ registered' = registered \cup {s.name}
    /\ todo' = Tail(todo)
    /\ UNCHANGED <<gen, owner, failed, before, refs, eng, fails, toggles>>

\* A server wants a login first: it is skipped and the others go on.
SkipServer(e) ==
    /\ At(e, "mcp") /\ owner = e /\ todo # <<>> /\ fails < MaxFails
    /\ todo' = Tail(todo) /\ fails' = fails + 1
    /\ UNCHANGED <<gen, owner, failed, before, registered, shared, eng, toggles>>

\* A server does not start: rollbackTransports takes back what this setup
\* registered, with unregisterTransport.
ServerFails(e) ==
    /\ At(e, "mcp") /\ owner = e /\ todo # <<>> /\ fails < MaxFails
    /\ LET names == registered \cap DOMAIN slots
       IN  /\ open' = open \ {slots[n].tr : n \in names}
           /\ slots' = Without(slots, names)
    /\ hooks' = ClearHookSource(hooks, {Prompt(n) : n \in registered})
    /\ todo' = <<>> /\ failed' = TRUE /\ fails' = fails + 1
    /\ UNCHANGED <<gen, owner, before, registered, tools, insts, refs, orphans, eng, toggles>>

\* releaseEngineGeneration: the transports of a generation are closed, those
\* that a later setup replaced with them.
\* Fault: those that were replaced are forgotten.
ReleaseCurrent(g) ==
    LET names == {n \in DOMAIN slots : slots[n].gen = g}
    IN  /\ open' = open \ {slots[n].tr : n \in names}
        /\ slots' = Without(slots, names)
        /\ orphans' = [orphans EXCEPT ![g] = {}]
ReleaseGeneration(g) ==
    LET names == {n \in DOMAIN slots : slots[n].gen = g}
    IN  /\ open' = open \ ({slots[n].tr : n \in names} \cup orphans[g])
        /\ slots' = Without(slots, names)
        /\ orphans' = [orphans EXCEPT ![g] = {}]

\* The packs are done.  An error of one of them takes back what this generation
\* registered; otherwise New owns the generation until it returns.
EndSetup(e) ==
    /\ At(e, "mcp") /\ owner = e /\ todo = <<>>
    /\ IF failed
       THEN /\ tools' = Without(tools, {n \in DOMAIN tools : tools[n].gen = gen})
            /\ hooks' = {h \in hooks : h.gen # gen}
            /\ insts' = before
            /\ ReleaseGeneration(gen)
            /\ owner' = NoEngine /\ Goto(e, "failed") /\ refs' = refs
       ELSE /\ refs' = [refs EXCEPT ![gen] = @ + 1]
            /\ Goto(e, "building")
            /\ UNCHANGED <<owner, tools, hooks, insts, slots, orphans, open>>
    /\ UNCHANGED <<gen, failed, before, todo, registered, fails, toggles>>

(***************************************************************************)
(* The engine                                                              *)
(***************************************************************************)

\* keepHookGen and ToolsForEngine: a host sees everything, a hermetic engine
\* what is static and what the latest setup registered.
\* Fault: a hermetic engine sees everything too.
KeepsAll(cfg, g) == TRUE
Keeps(cfg, g) == cfg.host \/ g = 0 \/ g = gen

\* Skipping the extensions leaves out their tools, not their hooks.
ToolsForEngine(cfg) ==
    IF cfg.skip THEN {}
    ELSE {[name |-> n, gen |-> tools[n].gen, tr |-> tools[n].tr] :
              n \in {m \in DOMAIN tools : Keeps(cfg, tools[m].gen)}}

HooksForEngine(cfg) == {h \in hooks : Keeps(cfg, h.gen)}

\* New captures the tools (ToolsForEngine) and the hooks (mergeHooks).
Build(e) ==
    /\ \/ At(e, "building") /\ owner = e
       \/ At(e, "new") /\ eng[e].cfg.skip
    /\ eng' = [eng EXCEPT ![e].pc = "open", ![e].tools = ToolsForEngine(eng[e].cfg),
                          ![e].hooks = HooksForEngine(eng[e].cfg)]
    /\ owner' = IF owner = e THEN NoEngine ELSE owner
    /\ UNCHANGED <<gen, failed, before, todo, registered, shared, fails, toggles>>

\* ReleaseEngineGeneration up to the callbacks, by a New that fails after the
\* setup, by Close, and by a New that fails after the capture, which closes.
Drop(e) ==
    /\ \/ At(e, "open")
       \/ At(e, "building") /\ owner = e /\ fails < MaxFails
    /\ fails' = IF At(e, "building") THEN fails + 1 ELSE fails
    /\ IF eng[e].cfg.skip THEN refs' = refs
       ELSE refs' = [refs EXCEPT ![eng[e].gen] = @ - 1]
    /\ Goto(e, IF eng[e].cfg.skip THEN "closed" ELSE "dropped")
    /\ UNCHANGED <<gen, setup, tools, hooks, insts, slots, orphans, open, toggles>>

\* The callbacks of the release; a New that failed leaves the setup after them.
Release(e) ==
    /\ At(e, "dropped")
    /\ ReleaseGeneration(eng[e].gen)
    /\ Goto(e, "closed")
    /\ owner' = IF owner = e THEN NoEngine ELSE owner
    /\ UNCHANGED <<gen, failed, before, todo, registered, tools, hooks, insts, refs,
                   fails, toggles>>

\* SetExtensionEnabled, by a user of an open engine.
Toggle(x) ==
    /\ toggles < MaxToggles /\ toggles' = toggles + 1
    /\ \E e \in Engines : At(e, "open")
    /\ x \in DOMAIN insts
    /\ \E v \in {"on", "off"} : v # insts[x] /\ insts' = [insts EXCEPT ![x] = v]
    /\ UNCHANGED <<gen, setup, tools, hooks, refs, slots, orphans, open, eng, fails>>

Steps(e) ==
    \/ Begin(e) \/ McpBegin(e) \/ Register(e) \/ SkipServer(e) \/ ServerFails(e)
    \/ EndSetup(e) \/ Build(e) \/ Drop(e) \/ Release(e)

Next == (\E e \in Engines : Steps(e)) \/ (\E x \in DOMAIN insts : Toggle(x))

Spec == Init /\ [][Next]_vars

(***************************************************************************)
(* Properties                                                              *)
(***************************************************************************)

\* While an engine is open, each tool that its own setup registered has an open
\* transport, whatever other engines set up, fail or close beside it.
OwnToolsWork ==
    \A e \in Engines : At(e, "open") =>
        \A t \in eng[e].tools : t.gen = eng[e].gen => t.tr \in open

\* When no engine is open and none is being made, no MCP server is left: not
\* those a later setup replaced, and not those of a setup that failed.
NothingLeft ==
    (\A e \in Engines : eng[e].pc \in {"new", "closed", "failed"}) =>
        open = {} /\ DOMAIN slots = {} /\ \A g \in Gens : orphans[g] = {}

\* A hermetic engine has no tool and no hook that the setup of another engine
\* registered.
Isolated ==
    \A e \in Engines :
        At(e, "open") /\ ~eng[e].cfg.host /\ ~eng[e].cfg.skip =>
            \A x \in eng[e].tools \cup {[name |-> "", gen |-> h.gen, tr |-> <<>>] : h \in eng[e].hooks} :
                x.gen \in {0, eng[e].gen}

\* An engine runs a pack's hook for an event once, although every setup of the
\* process registers it again.
OneHookPerSource ==
    \A e \in Engines : \A h, k \in eng[e].hooks : h.source = k.source => h = k

\* What the setup of a host says of the servers: guidance that an engine gives
\* its model is that of a server its own configuration names.
GuidanceHasServer ==
    \A e \in Engines : At(e, "open") /\ ~eng[e].cfg.skip =>
        \A h \in eng[e].hooks : h.source.pack = "mcp-prompt" =>
            \E i \in DOMAIN eng[e].cfg.servers : eng[e].cfg.servers[i].name = h.source.name
=============================================================================

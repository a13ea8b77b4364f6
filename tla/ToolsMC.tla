------------------------------- MODULE ToolsMC -------------------------------
(***************************************************************************)
(* The run of what a model's tools may touch: FileTools, the tools that    *)
(* change files and their jail; ExtSetup, whose tools and hooks an engine  *)
(* has; Config, what a project may ask for; ProcStore, the processes a     *)
(* tool leaves behind.  A behaviour is one of the four; the variables of   *)
(* the others stay as they start.                                          *)
(***************************************************************************)
EXTENDS FileTools, TLC

CONSTANTS Engines, Configs, MaxFails, MaxToggles,
          HostLayers, ProjectLayers, MaxPaths,
          Hosts, Uses, Pids, MaxStarts

VARIABLES part,
          gen, owner, failed, before, todo, registered, tools, hooks, insts, refs, slots,
          orphans, open, eng, fails, toggles,
          env, mode, stage, paths, conf, hostConf,
          proc, pidFile, op, cleanups, opened, owned, hit, starts

setupVars == <<gen, owner, failed, before, todo, registered, tools, hooks, insts, refs, slots,
               orphans, open, eng, fails, toggles>>
configVars == <<env, mode, stage, paths, conf, hostConf>>
procVars == <<proc, pidFile, op, cleanups, opened, owned, hit, starts>>
all == <<part, vars, setupVars, configVars, procVars>>

(***************************************************************************)
(* Policies and calls of the tools that change files                       *)
(***************************************************************************)

Grant(ro, extra, extraRO, writable) ==
    [allowWrite |-> TRUE, readOnly |-> ro, extra |-> extra, extraRO |-> extraRO,
     writable |-> writable]

SomePolicies ==
    {Grant(FALSE, {}, {E}, {}), Grant(TRUE, {E}, {}, {E}), Grant(FALSE, {E}, {O}, {}),
     Grant(FALSE, {E}, {E}, {}), Grant(FALSE, {O}, {}, {}),
     [Grant(FALSE, {}, {}, {}) EXCEPT !.allowWrite = FALSE]}

SomeTools == ("a" :> "write") @@ ("b" :> "edit") @@ ("c" :> "apply_patch")
SomeLines == ("a" :> 1) @@ ("b" :> 1) @@ ("c" :> 2)

(***************************************************************************)
(* Engines and their extensions                                            *)
(***************************************************************************)

Server(n, p) == [name |-> n, prompt |-> p]
Asks(h, s, p, ss) == [host |-> h, skip |-> s, plugins |-> p, servers |-> ss]

\* A host with a plugin and two servers, a host of another profile, a hermetic
\* engine with a server of its own, and a host that skips the extensions.
SomeConfigs ==
    {Asks(TRUE, FALSE, TRUE, <<Server("search", TRUE), Server("build", FALSE)>>),
     Asks(TRUE, FALSE, FALSE, <<Server("build", TRUE)>>),
     Asks(FALSE, FALSE, FALSE, <<Server("search", TRUE)>>),
     Asks(TRUE, TRUE, FALSE, <<>>)}

\* Which engine is made first does not matter.
AnyEngine == Permutations(Engines)

(***************************************************************************)
(* Files of a configuration                                                *)
(***************************************************************************)

Row == ("base" :> "vendor") @@ ("keyEnv" :> "ANTHROPIC")
Endpoint == [s \in {"base", "key", "model"} |-> TRUE]

SomeHostLayers ==
    {Endpoint @@ ("providers" :> ("vendor" :> Row)) @@ ("write" :> TRUE) @@ ("sandbox" :> TRUE),
     ("wire" :> "anthropic") @@ ("turns" :> 2) @@ ("runTokens" :> 2) @@ ("workspace" :> TRUE),
     ("providers" :> ("vendor" :> Row @@ ("wire" :> "anthropic"))) @@ ("provider" :> "vendor")
       @@ ("turns" :> -1) @@ ("runTokens" :> -1),
     ("enable" :> {"read", "bash"}) @@ ("sections" :> {"acp", "mcp"}) @@ ("turns" :> 1),
     ("runTokens" :> 1) @@ ("roots" :> {"docs"}) @@ ("bash" :> 1000),
     ("wire" :> "other") @@ ("roots" :> {"/"})}

SomeProjectLayers ==
    {Endpoint @@ ("wire" :> "anthropic") @@ ("provider" :> "own") @@ ("workspace" :> TRUE),
     ("enable" :> {"grep", "write", "generate_image"}) @@ ("write" :> TRUE)
       @@ ("skills" :> {"workspace", "outside"}),
     ("turns" :> -1) @@ ("runTokens" :> 3) @@ ("sandbox" :> TRUE),
     ("turns" :> 1) @@ ("bash" :> 2000),
     ("turns" :> 3) @@ ("roots" :> {"outside"}),
     ("sections" :> {"acp", "mcp", "media"}) @@ ("providers" :> ("vendor" :> ("base" :> "project")))}

(***************************************************************************)
(* One of the four                                                         *)
(***************************************************************************)

\* Two engines that start processes under names of their own.
TwoHosts == {"e1", "e2"}
OwnIds == ("e1" :> {"a"}) @@ ("e2" :> {"b"})

X == INSTANCE ExtSetup
C == INSTANCE Config
P == INSTANCE ProcStore WITH Engines <- Hosts, file <- pidFile, open <- opened

NoFiles ==
    /\ Init
    /\ policy = Grant(FALSE, {O}, {}, {}) /\ kernel = TRUE
    /\ link = WD /\ file[WD].text = Original

NoSetup == X!Init /\ \A e \in Engines : eng[e].cfg = Asks(TRUE, TRUE, FALSE, <<>>)

NoConfig ==
    /\ C!Init
    /\ env = [wire |-> "none", provider |-> "none", keys |-> {}]
    /\ mode = [host |-> FALSE, profile |-> FALSE, trusted |-> FALSE]

(***************************************************************************)
(* What is assumed of the constants                                        *)
(***************************************************************************)

\* The servers of a configuration have different names (a list that repeats one is
\* left out: its first server loses its transport and keeps its tool).
ASSUME SetupAssumption ==
    /\ IsFiniteSet(Engines) /\ X!NoEngine \notin Engines
    /\ \A c \in Configs :
          /\ c \in [host : BOOLEAN, skip : BOOLEAN, plugins : BOOLEAN,
                    servers : Seq([name : STRING, prompt : BOOLEAN])]
          /\ \A i, j \in 1 .. Len(c.servers) : c.servers[i].name = c.servers[j].name => i = j

\* A ceiling of turns is a number.
ASSUME LayerAssumption ==
    \A o \in HostLayers \cup ProjectLayers : "turns" \in DOMAIN o => o["turns"] \in Int

\* 0 is no process.
ASSUME ProcAssumption == Pids \subseteq Nat \ {0} /\ P!Nobody \notin Hosts

MCInit ==
    \/ part = "files" /\ Init /\ NoSetup /\ NoConfig /\ P!Init
    \/ part = "setup" /\ NoFiles /\ X!Init /\ NoConfig /\ P!Init
    \/ part = "config" /\ NoFiles /\ NoSetup /\ C!Init /\ P!Init
    \/ part = "proc" /\ NoFiles /\ NoSetup /\ NoConfig /\ P!Init

MCNext ==
    /\ UNCHANGED part
    /\ \/ part = "files" /\ Next /\ UNCHANGED <<setupVars, configVars, procVars>>
       \/ part = "setup" /\ X!Next /\ UNCHANGED <<vars, configVars, procVars>>
       \/ part = "config" /\ C!Next /\ UNCHANGED <<vars, setupVars, procVars>>
       \/ part = "proc" /\ P!Next /\ UNCHANGED <<vars, setupVars, configVars>>

MCSpec == MCInit /\ [][MCNext]_all

\* A project's file grants nothing that is the user's to grant, lifts no ceiling, and
\* what is left speaks to its endpoint with that endpoint's key.
ProjectBounded ==
    part = "config" => C!ProjectGrantsNothing /\ C!CeilingKept /\ C!KeyOfTheWire

\* What engines share is told apart: an engine's own tools work while it is open, a
\* hermetic one has nothing of another's, a hook runs once; closed engines leave no
\* server and no process running, and no stranger's process is signalled.
EnginesApart ==
    /\ part = "setup" => X!OwnToolsWork /\ X!NothingLeft /\ X!Isolated /\ X!OneHookPerSource
    /\ part = "proc" => P!StrangersSafe /\ P!AutoKilled
=============================================================================

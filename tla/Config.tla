------------------------------- MODULE Config -------------------------------
(***************************************************************************)
(* How the configuration of an engine is put together (internal/config:    *)
(* loadConfig and what it calls; internal/engine: New): the user's file, a *)
(* workspace profile, explicit files, a named provider and the environment *)
(* are merged, then the file of a trusted project with fewer rights, then  *)
(* provider and environment again; flags and a resumed session come last.  *)
(*                                                                         *)
(* A setting's value is the layer it comes from, except for ceilings, whose*)
(* size matters.  Settings that are merged alike are here once: base, key, *)
(* keyEnv, wire, the model and the sandbox replace what is there, write is *)
(* the switch that can only be turned on, roots is the list that grows.    *)
(* A layer is a function from the settings its file has to their values.   *)
(*                                                                         *)
(* An operator whose comment starts with "Fault:" is a wrong version of    *)
(* the definition below it, used to see that a property notices.           *)
(***************************************************************************)
EXTENDS Integers, Sequences, FiniteSets, Functions

CONSTANTS
    HostLayers,      \* what files of the user may have
    ProjectLayers,   \* what the file of a project may have
    MaxPaths         \* bound: explicit files

VARIABLES
    env,       \* the environment: what MOW_* and the vendors' variables set
    mode,      \* [host, profile, trusted]: which layers there are
    stage,     \* where loadConfig is
    paths,     \* explicit files merged so far
    conf,      \* the configuration
    hostConf   \* what it was before the project

vars == <<env, mode, stage, paths, conf, hostConf>>

None == "none"
Power == {"write", "bash"}     \* write stands for edit and apply_patch as well
Media == {"generate_image"}
Strings == {"workspace", "wire", "base", "key", "keyEnv", "model", "sandbox"}

Defaults ==
    [workspace |-> "default", wire |-> "chat", base |-> None, key |-> None, keyEnv |-> "OPENAI",
     model |-> None, sandbox |-> None, provider |-> None, providers |-> <<>>,
     write |-> FALSE, roots |-> {}, enable |-> {"read"}, skills |-> {},
     turns |-> 0, runTokens |-> 0, bash |-> 300, maxBash |-> 900, sections |-> <<>>]

Environments ==
    [wire : {None, "anthropic"}, provider : {None, "vendor"}, keys : SUBSET {"OPENAI", "ANTHROPIC"}]

Modes == [host : BOOLEAN, profile : BOOLEAN, trusted : BOOLEAN]

Init ==
    /\ env \in Environments
    /\ mode \in {m \in Modes : (m.profile \/ m.trusted) => m.host}
    /\ stage = "home" /\ paths = 0
    /\ conf = Defaults /\ hostConf = Defaults

(***************************************************************************)
(* mergeOverlay                                                            *)
(***************************************************************************)

Has(layer, s) == s \in DOMAIN layer
Or(layer, s, else) == IF Has(layer, s) THEN layer[s] ELSE else

\* What a file has, marked with the layer it belongs to.
Origins == {"workspace", "base", "key", "model", "sandbox"}
Of(layer, o) ==
    [s \in DOMAIN o |-> CASE s \in Origins -> layer
                          [] s = "sections" -> [x \in o[s] |-> layer]
                          [] OTHER -> o[s]]

\* A ceiling: a positive number is set, a negative one means none.
CapOf(layer, s, old) ==
    IF ~Has(layer, s) \/ layer[s] = 0 THEN old ELSE IF layer[s] < 0 THEN 0 ELSE layer[s]

\* The budget of a run: only a positive number counts.
SpendOf(layer, old) == IF Or(layer, "runTokens", 0) > 0 THEN layer.runTokens ELSE old

\* Sections are replaced whole, and the catalog of providers row by row.
Over(f, g) == [x \in DOMAIN f \cup DOMAIN g |-> IF x \in DOMAIN g THEN g[x] ELSE f[x]]

MergeOverlay(f, o) ==
    [f EXCEPT !.workspace = Or(o, "workspace", @),
              !.wire = Or(o, "wire", @), !.base = Or(o, "base", @), !.key = Or(o, "key", @),
              !.keyEnv = Or(o, "keyEnv", @), !.model = Or(o, "model", @),
              !.sandbox = Or(o, "sandbox", @),
              !.provider = Or(o, "provider", @),
              !.providers = Over(@, Or(o, "providers", <<>>)),
              !.write = @ \/ Has(o, "write"),
              !.roots = @ \cup Or(o, "roots", {}),
              !.enable = Or(o, "enable", @),
              !.skills = Or(o, "skills", @),
              !.turns = CapOf(o, "turns", @),
              !.runTokens = SpendOf(o, @),
              !.bash = Or(o, "bash", @),
              !.maxBash = Or(o, "maxBash", @),
              !.sections = Over(@, Or(o, "sections", <<>>))]

(***************************************************************************)
(* mergeProjectFile                                                        *)
(***************************************************************************)

\* The settings that are the user's alone.
HostOnly == Strings \cup {"provider", "providers", "write", "roots", "runTokens"}

\* lowersTurnCap: a project may only tighten the ceiling.
\* Fault: -1, which means none, is taken for less than any.
LowersAny(new, old) == new < old \/ old <= 0
LowersTurnCap(new, old) == new > 0 /\ (old <= 0 \/ new < old)

\* dropProjectTools
\* Fault: only the shell is a power tool.
DropShell(enable) == enable \ {"bash"}
DropProjectTools(enable) == enable \ (Power \cup Media)

\* skillDirsUnder: directories of the workspace.
SkillDirsUnder(dirs) == dirs \cap {"workspace"}

\* What is left of a project's file for mergeOverlay; tools and skills are added
\* to the lists there are.
Restricted(f, o) ==
    LET cap == IF Has(o, "turns") /\ ~LowersTurnCap(o.turns, f.turns) THEN {"turns"} ELSE {}
        kept == DOMAIN o \ (HostOnly \cup cap \cup {"enable", "skills"})
    IN  [s \in kept |-> IF s = "sections" THEN Restrict(o[s], DOMAIN o[s] \ {"acp", "media"}) ELSE o[s]]

MergeProject(f, o) ==
    [MergeOverlay(f, Restricted(f, o))
        EXCEPT !.enable = @ \cup DropProjectTools(Or(o, "enable", {})),
               !.skills = @ \cup SkillDirsUnder(Or(o, "skills", {}))]

(***************************************************************************)
(* ApplyNamedProvider, applyEnv, normalize                                 *)
(***************************************************************************)

ProviderKnown(f) == f.provider = None \/ f.provider \in DOMAIN f.providers

\* The named row replaces what it has of the live settings.
ApplyProvider(f) ==
    IF f.provider = None THEN f
    ELSE LET p == f.providers[f.provider]
         IN  [f EXCEPT !.base = Or(p, "base", @), !.key = Or(p, "key", @),
                       !.keyEnv = Or(p, "keyEnv", @), !.wire = Or(p, "wire", @)]

\* firstEnv of the keys and of the base addresses, in the order of the wire.
\* Fault: the order is the same on every wire.
OpenAIFirst(f) == <<"OPENAI", "ANTHROPIC">>
KeyOrder(f) == IF f.wire = "anthropic" THEN <<"ANTHROPIC", "OPENAI">> ELSE <<"OPENAI", "ANTHROPIC">>

FirstEnv(order) ==
    IF order[1] \in env.keys THEN order[1] ELSE IF order[2] \in env.keys THEN order[2] ELSE None

ApplyEnv(f) ==
    LET g == [f EXCEPT !.wire = IF env.wire # None THEN env.wire ELSE @]
        v == FirstEnv(KeyOrder(g))
    IN  IF v = None THEN g ELSE [g EXCEPT !.base = v, !.key = v]

MaxOf(a, b) == IF a < b THEN b ELSE a

\* normalize refuses a protocol it does not know and the root of the file system
\* as a directory of the workspace.
Valid(f) == f.wire \in {"chat", "anthropic"} /\ "/" \notin f.roots

\* normalize: a key that is named is looked up, a base address has a default,
\* and the ceiling of one shell call is not below its default.
Normalize(f) ==
    LET keyEnv == IF f.wire = "anthropic" /\ f.keyEnv = "OPENAI"
                     /\ ("ANTHROPIC" \in env.keys \/ f.key = None)
                  THEN "ANTHROPIC" ELSE f.keyEnv
    IN  [f EXCEPT !.keyEnv = keyEnv,
                  !.key = IF @ = None /\ keyEnv \in env.keys THEN keyEnv ELSE @,
                  !.base = IF @ = None THEN "default" ELSE @,
                  !.maxBash = MaxOf(@, f.bash)]

(***************************************************************************)
(* loadConfig                                                              *)
(***************************************************************************)

\* A file of the user.  The global one may be missing or unreadable, another
\* ends the load when it is unreadable.
Home ==
    /\ stage = "home"
    /\ stage' = "profile"
    /\ \/ conf' = conf
       \/ mode.host /\ \E o \in HostLayers : conf' = MergeOverlay(conf, Of("home", o))
    /\ UNCHANGED <<env, mode, paths, hostConf>>

Profile ==
    /\ stage = "profile"
    /\ \/ stage' = "paths" /\ conf' = conf
       \/ /\ mode.profile /\ stage' = "paths"
          /\ \E o \in HostLayers : conf' = MergeOverlay(conf, Of("profile", o))
       \/ mode.profile /\ stage' = "error" /\ conf' = conf
    /\ UNCHANGED <<env, mode, paths, hostConf>>

Path ==
    /\ stage = "paths" /\ paths < MaxPaths
    /\ paths' = paths + 1
    /\ \/ \E o \in HostLayers : conf' = MergeOverlay(conf, Of("path", o)) /\ stage' = stage
       \/ conf' = conf /\ stage' = "error"
    /\ UNCHANGED <<env, mode, hostConf>>

\* The provider the environment names goes before that of the files.
Named(f) == IF env.provider = None THEN f ELSE [f EXCEPT !.provider = env.provider]

Effective(f) == Normalize(ApplyEnv(ApplyProvider(Named(f))))

Host ==
    /\ stage = "paths"
    /\ IF ProviderKnown(Named(conf)) /\ Valid(ApplyEnv(ApplyProvider(Named(conf))))
       THEN stage' = "project" /\ conf' = Effective(conf) /\ hostConf' = conf'
       ELSE stage' = "error" /\ UNCHANGED <<conf, hostConf>>
    /\ UNCHANGED <<env, mode, paths>>

\* The project's file, when the user has trusted the workspace; one that cannot
\* be read is a warning.
Project ==
    /\ stage = "project"
    /\ stage' = "loaded"
    /\ \/ conf' = conf
       \/ /\ mode.trusted
          /\ \E o \in ProjectLayers : conf' = Effective(MergeProject(conf, Of("project", o)))
    /\ UNCHANGED <<env, mode, paths, hostConf>>

(***************************************************************************)
(* New: flags, a resumed session                                           *)
(***************************************************************************)

Flags == [write : {"", "allow", "disable"}, explicit : BOOLEAN]

\* applySessionPolicy: a resumed session has the rights it was left with, unless
\* the caller says that its flags are meant.
SessionPolicy(flags, resumed) ==
    IF ~flags.explicit /\ resumed # "" THEN resumed ELSE flags.write

\* The tools an engine starts with.
Tools(f, write) ==
    IF write = "disable" THEN f.enable \ {"write"}
    ELSE IF write = "allow" \/ f.write THEN f.enable \cup {"write"} ELSE f.enable

New ==
    /\ stage = "loaded"
    /\ stage' = "ready"
    /\ \E flags \in Flags, resumed \in {"", "allow", "disable"} :
          LET write == SessionPolicy(flags, resumed)
          IN  /\ conf' = [conf EXCEPT !.enable = Tools(conf, write)]
              /\ hostConf' = [hostConf EXCEPT !.enable = Tools(hostConf, write)]
    /\ UNCHANGED <<env, mode, paths>>

Next == Home \/ Profile \/ Path \/ Host \/ Project \/ New

Spec == Init /\ [][Next]_vars

(***************************************************************************)
(* Properties                                                              *)
(***************************************************************************)

After == stage \in {"loaded", "ready"}

\* A project moves nothing that costs money or opens the machine: not the
\* endpoint, its credentials or the model, not the directories or the jail, and
\* of the tools only harmless ones are added.  What the user has is kept.
ProjectGrantsNothing ==
    After =>
        /\ \A s \in HostOnly : conf[s] = hostConf[s]
        /\ conf.enable \cap (Power \cup Media) = hostConf.enable \cap (Power \cup Media)
        /\ hostConf.enable \subseteq conf.enable
        /\ \A x \in DOMAIN conf.sections : conf.sections[x] = "project" => x \notin {"acp", "media"}

\* A project does not raise or remove the ceiling of turns.
CeilingKept == After => hostConf.turns = 0 \/ conf.turns \in 1..hostConf.turns

\* With the keys of both vendors in the environment, an endpoint of Anthropic's
\* protocol is given Anthropic's.
KeyOfTheWire ==
    After /\ conf.wire = "anthropic" /\ env.keys = {"OPENAI", "ANTHROPIC"} =>
        conf.key = "ANTHROPIC" /\ conf.base = "ANTHROPIC"
=============================================================================

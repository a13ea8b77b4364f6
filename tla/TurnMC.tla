-------------------------------- MODULE TurnMC --------------------------------
(***************************************************************************)
(* The run of a prompt's inside: AgentLoop, the loop with its batches of   *)
(* calls, Compaction, the context a session keeps against its budget,      *)
(* Hooks, the commands that are asked around each call, and Bash, the tool *)
(* that runs a shell.  A behaviour is one of the four; the variables of    *)
(* the others stay as they start.                                          *)
(***************************************************************************)
EXTENDS AgentLoop

CONSTANTS Plugins, MaxCalls, MaxContinuations, Kids,
          Tasks, Budget, ToolLimit, OlderAfter, KeepLast, MaxPins, HostTargets,
          MaxForced, MaxCompacts, MaxAsks, MaxAnswers, Sessions, Replies

VARIABLES part,
          hookCtx, stage, plugin, command, out, hookCall, calls, goOn, continued,
          ended, heard, told,
          pc, ctx, timer, shell, kids, holds, waited, result,
          at, history, sent, billed, provider, forced, compacts, asks, answers, last

hookVars == <<hookCtx, stage, plugin, command, out, hookCall, calls, goOn, continued,
              ended, heard, told>>
bashVars == <<pc, ctx, timer, shell, kids, holds, waited, result>>
contextVars == <<at, history, sent, billed, provider, forced, compacts, asks, answers, last>>

H == INSTANCE Hooks WITH ctx <- hookCtx, call <- hookCall
B == INSTANCE Bash

(***************************************************************************)
(* Constants a cfg cannot write                                            *)
(***************************************************************************)

MCMaxParallel == [t \in Tools |-> IF t = "capped" THEN 1 ELSE 0]

\* A single call, two and three in parallel; a refused and a sequential tool beside
\* plain ones, an unknown tool beside a capped one.
MCBatches ==
    {<<"delegate">>, <<"unknown", "capped">>, <<"plain", "ask">>, <<"refused", "plain", "plain">>}

\* A run that continues after a prompt whose call failed: the prompt stays.
MCPriors == {<<User>>}

\* A session that has done a little work; a long result, and two short ones after
\* which the loop warns.
MCSessions == {[task |-> "first", turns |-> <<<<2>>, <<12>>, <<>>>>]}
MCReplies  == {[sizes |-> <<12>>, nudged |-> FALSE], [sizes |-> <<2, 2>>, nudged |-> TRUE]}

C == INSTANCE Compaction WITH Priors <- Sessions, Replies <- Replies

HookEvents == {"UserPromptSubmit", "PreToolUse", "PostToolUse", "PostToolUseFailure", "Stop", "StopFailure"}
MCPlugins ==
    <<[events |-> HookEvents, commands |-> 2, failClosed |-> TRUE],
      [events |-> HookEvents \ {"StopFailure"}, commands |-> 1, failClosed |-> FALSE]>>

\* register listens to an event only when the plugin has commands for it.
ASSUME PluginsAssumption ==
    /\ Plugins \in Seq([events : SUBSET HookEvents, commands : Nat \ {0}, failClosed : BOOLEAN])
    /\ MaxContinuations \in Nat

ASSUME ContextAssumption == C!ContextAssumption

(***************************************************************************)
(* One of the four                                                         *)
(***************************************************************************)

all == <<part, vars, hookVars, bashVars, contextVars>>

\* The histories of a session start where its behaviours do.
MCInit ==
    /\ part \in {"loop", "context", "hooks", "bash"}
    /\ Init /\ H!Init /\ B!Init /\ C!Init
    /\ part # "context" => history = <<C!System>>

MCNext ==
    /\ UNCHANGED part
    /\ \/ part = "loop" /\ Next /\ UNCHANGED <<hookVars, bashVars, contextVars>>
       \/ part = "context" /\ C!Next /\ UNCHANGED <<vars, hookVars, bashVars>>
       \/ part = "hooks" /\ H!Next /\ UNCHANGED <<vars, bashVars, contextVars>>
       \/ part = "bash" /\ B!Next /\ UNCHANGED <<vars, hookVars, contextVars>>

\* The fairness of the parts; nothing makes a session go on.
MCSpec ==
    /\ MCInit /\ [][MCNext]_all
    /\ WF_vars(part = "loop" /\ LoopStep)
    /\ WF_vars(part = "loop" /\ CallReturn /\ (interrupted \/ runCtx = "cancelled"))
    /\ WF_vars(part = "loop" /\ BatchStep)
    /\ WF_hookVars(part = "hooks" /\ H!Step)
    /\ WF_bashVars(part = "bash" /\ B!Step)

\* No result is lost and none is without its call: a batch that reports no failure
\* has all of them, and every request, and every history that is kept, is one a
\* provider takes, whatever was compacted, cut off or cancelled.
ResultsWhole == NothingDropped /\ Replayable /\ C!Sendable

\* A compaction keeps what the user wants and is one the loop's model allows for,
\* and without one nothing that was sent is rewritten.
RequestsWhole == C!AsTheLoopAssumes /\ C!PrefixKept /\ C!FirstWantKept /\ C!AllWantsKept

\* A call is run only when every command that was asked allowed it, on the
\* arguments the person's hook saw, and the end of a prompt is told once.
HooksHold == H!RefusalHolds /\ H!GateSawWhatRan /\ H!FailsClosed /\ H!EndIsTold

\* When bash has returned, its processes are gone and the model is told how its
\* shell ended (bashTool.Exec: "Own process group so timeout can kill the whole
\* tree").
ShellContained == B!GroupGone /\ B!ResultIsTrue

\* What stands between the model and the machine holds.
GuardsHold == HooksHold /\ ShellContained

\* A cancel ends the run, a prompt ends whatever its hooks want, and bash returns
\* whatever its command leaves behind.
CallsEnd ==
    []<>(/\ runCtx = "cancelled" => phase = "over"
         /\ part = "hooks" => stage = "ended"
         /\ part = "bash" => pc = "done")
=============================================================================

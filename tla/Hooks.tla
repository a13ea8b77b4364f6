-------------------------------- MODULE Hooks --------------------------------
(***************************************************************************)
(* The command hooks of plugins around one prompt (ext/cmdhook) with the   *)
(* chain of hooks a tool call goes through (internal/agent/loop_tools.go:  *)
(* runTool, finish.go: beforeFinish).  A plugin's commands are processes,  *)
(* started one after the other; each may decide, fail, take too long or be *)
(* killed because the prompt is cancelled.                                 *)
(*                                                                         *)
(* An operator whose comment starts with "Fault:" is a wrong version of    *)
(* the definition below it, used to see that a property notices.           *)
(***************************************************************************)
EXTENDS Integers, Sequences, FiniteSets

CONSTANTS
    Plugins,          \* a sequence of [events, commands, failClosed]
    MaxCalls,         \* bound: tool calls of the prompt
    MaxContinuations  \* agent.MaxFinishContinuations

VARIABLES
    ctx,         \* the context of the prompt
    stage,       \* which hooks run, or what the loop does
    plugin,      \* whose turn it is in the chain
    command,     \* how many of its commands have run
    out,         \* what they have said: outcome
    call,        \* the tool call: [args, denied, halt, failed, ran]
    calls,       \* tool calls so far
    goOn,        \* a plugin does not want the prompt to end
    continued,   \* how often it went on for that reason, since a tool call
    ended,       \* how the prompt ended
    heard,       \* of this call: [refused, gateSaw, lost, silent]
    told         \* plugin -> how often it was told of an end since the model spoke last

vars == <<ctx, stage, plugin, command, out, call, calls, goOn, continued, ended, heard, told>>

Nothing == [blocked |-> FALSE, halt |-> FALSE, rewrite |-> FALSE, context |-> FALSE]
NoCall == [args |-> 0, denied |-> FALSE, halt |-> FALSE, failed |-> FALSE, ran |-> FALSE]
Unheard == [refused |-> FALSE, gateSaw |-> 0, lost |-> FALSE, silent |-> FALSE]
Untold == [p \in DOMAIN Plugins |-> 0]

Init ==
    /\ ctx = "live" /\ stage = "submit" /\ plugin = 1 /\ command = 0
    /\ out = Nothing /\ call = NoCall /\ calls = 0 /\ goOn = FALSE /\ continued = 0
    /\ ended = "" /\ heard = Unheard /\ told = Untold

HookStages == {"submit", "pre", "post", "finish", "stop"}

\* The event a plugin is told of, by register; "" is none.  A failed prompt is
\* told as StopFailure where that is declared, as Stop elsewhere; an answer was
\* told before.
\* Fault: every end is told here.
AnyEnd == TRUE
Failed == ended = "failed"

\* A call that failed is told by an event of its own; one that was denied is not a
\* failure.
PostEvent == IF call.failed THEN "PostToolUseFailure" ELSE "PostToolUse"

FailureEvent(p) == IF "StopFailure" \in Plugins[p].events THEN "StopFailure" ELSE "Stop"

Event(p) ==
    LET e == CASE stage = "submit" -> "UserPromptSubmit"
               [] stage = "pre" -> "PreToolUse"
               [] stage = "post" -> PostEvent
               [] stage = "finish" -> "Stop"
               [] stage = "stop" /\ Failed -> FailureEvent(p)
               [] OTHER -> ""
    IN  IF e \in Plugins[p].events THEN e ELSE ""

\* StopFailure is told although the context is gone.
Alive(p) == ctx = "live" \/ Event(p) = "StopFailure"

(***************************************************************************)
(* execOne and run                                                         *)
(***************************************************************************)

\* silent: the command could not be told, or failed with nothing to say.
Results == {"allow", "deny", "halt", "rewrite", "context", "both", "silent", "late"}

\* A command that was killed with the prompt decides nothing; one that failed or
\* was late blocks when the plugin fails closed.
\* Fault: only a failure blocks, not a timeout.
BlocksUnlessLate(result, p) == result \in {"deny", "halt", "both"} \/ (result = "silent" /\ Plugins[p].failClosed)
Blocks(result, p) ==
    result \in {"deny", "halt", "both"} \/ (result \in {"silent", "late"} /\ Plugins[p].failClosed)

\* What run makes of a result: a block stays, whatever the commands after it say.
\* Fault: the last command decides.
LastDecides(o, result, p) ==
    [blocked |-> Blocks(result, p), halt |-> o.halt \/ result = "halt",
     rewrite |-> o.rewrite \/ result \in {"rewrite", "both"}, context |-> o.context \/ result = "context"]
Heard(o, result, p) ==
    [blocked |-> o.blocked \/ Blocks(result, p), halt |-> o.halt \/ result = "halt",
     rewrite |-> o.rewrite \/ result \in {"rewrite", "both"}, context |-> o.context \/ result = "context"]

InChain == stage \in HookStages /\ plugin \in DOMAIN Plugins
HasCommand == Event(plugin) # "" /\ Alive(plugin) /\ command < Plugins[plugin].commands

Command ==
    /\ InChain /\ HasCommand
    /\ \E result \in Results :
          /\ out' = Heard(out, result, plugin)
          /\ heard' = IF stage # "pre" THEN heard
                      ELSE [heard EXCEPT !.refused = @ \/ result \in {"deny", "halt", "both"},
                                         !.silent = @ \/ (result \in {"silent", "late"} /\ Plugins[plugin].failClosed)]
    /\ command' = command + 1
    /\ told' = IF command = 0 /\ Event(plugin) \in {"Stop", "StopFailure"} THEN [told EXCEPT ![plugin] = @ + 1] ELSE told
    /\ UNCHANGED <<ctx, stage, plugin, call, calls, goOn, continued, ended>>

\* A command is cut off by the end of the context: it decides nothing, and none
\* after it starts.
Killed ==
    /\ InChain /\ HasCommand /\ ctx = "live"
    /\ ctx' = "cancelled"
    /\ heard' = [heard EXCEPT !.lost = @ \/ stage = "pre"]
    /\ command' = command + 1
    /\ UNCHANGED <<stage, plugin, out, call, calls, goOn, continued, ended, told>>

(***************************************************************************)
(* What a plugin's hooks return, and runTool, beforeFinish and the prompt  *)
(***************************************************************************)

Concluded == InChain /\ ~HasCommand

\* mergeHooks: the hooks of plugins go before those of the host.
\* Fault: they go after them.
HostFirst == <<"gate", "pre">>
Order == <<"pre", "gate">>

After(s) == IF s = Order[1] THEN Order[2] ELSE "exec"

\* Input that was rewritten is passed on unless the same plugin blocks.
Folded(c) ==
    [c EXCEPT !.args = IF out.rewrite /\ ~out.blocked THEN plugin ELSE @,
              !.denied = @ \/ out.blocked, !.halt = @ \/ out.halt]

\* After the last plugin.
Then(s) == IF plugin = Len(Plugins) THEN s ELSE stage
NextPlugin ==
    /\ plugin' = IF plugin = Len(Plugins) THEN 1 ELSE plugin + 1
    /\ command' = 0 /\ out' = Nothing

\* A prompt that a plugin refuses ends here, and the stop hooks are not run.
Submitted ==
    /\ stage = "submit" /\ Concluded /\ NextPlugin
    /\ IF out.blocked THEN stage' = "ended" /\ ended' = "refused"
       ELSE stage' = Then("model") /\ ended' = ended
    /\ UNCHANGED <<ctx, call, calls, goOn, continued, heard, told>>

PreTool ==
    /\ stage = "pre" /\ Concluded /\ NextPlugin
    /\ call' = Folded(call)
    /\ stage' = Then(After("pre"))
    /\ UNCHANGED <<ctx, calls, goOn, continued, ended, heard, told>>

\* The hook of the host comes after those of the plugins (mergeHooks) and is asked
\* even about a call that is denied.
Gate ==
    /\ stage = "gate"
    /\ heard' = [heard EXCEPT !.gateSaw = call.args]
    /\ stage' = After("gate")
    /\ \E allowed \in BOOLEAN : call' = [call EXCEPT !.denied = @ \/ ~allowed]
    /\ UNCHANGED <<ctx, plugin, command, out, calls, goOn, continued, ended, told>>

\* tool.Exec; a context that is over is noticed only after it.
Exec ==
    /\ stage = "exec"
    /\ \/ call.denied /\ stage' = "post" /\ UNCHANGED <<call, ended>>
       \/ /\ ~call.denied
          /\ \E failed \in BOOLEAN : call' = [call EXCEPT !.ran = TRUE, !.failed = failed]
          /\ IF ctx = "live" THEN stage' = "post" /\ ended' = ended
             ELSE stage' = "stop" /\ ended' = "cancelled"
    /\ UNCHANGED <<ctx, plugin, command, out, calls, goOn, continued, heard, told>>

PostTool ==
    /\ stage = "post" /\ Concluded /\ NextPlugin
    /\ stage' = IF plugin # Len(Plugins) THEN stage ELSE IF call.halt THEN "stop" ELSE "model"
    /\ ended' = IF plugin = Len(Plugins) /\ call.halt THEN "done" ELSE ended
    /\ UNCHANGED <<ctx, call, calls, goOn, continued, heard, told>>

\* The loop asks the model: it calls a tool, answers, or the request fails.
Model ==
    /\ stage = "model"
    /\ told' = Untold /\ goOn' = FALSE
    /\ \/ /\ ctx # "live" /\ stage' = "stop" /\ ended' = "cancelled"
          /\ UNCHANGED <<call, calls, continued, heard>>
       \/ /\ ctx = "live" /\ stage' = "stop" /\ ended' = "failed"
          /\ UNCHANGED <<call, calls, continued, heard>>
       \/ /\ ctx = "live" /\ calls < MaxCalls
          /\ stage' = Order[1] /\ calls' = calls + 1 /\ continued' = 0
          /\ call' = NoCall /\ heard' = Unheard /\ ended' = ended
       \/ /\ ctx = "live" /\ stage' = "finish"
          /\ UNCHANGED <<call, calls, continued, heard, ended>>
    /\ UNCHANGED <<ctx, plugin, command, out>>

\* beforeFinish: the hooks are asked until they have had their continuations.
\* Fault: there is no end of them.
NeverCapped == FALSE
Capped == continued >= MaxContinuations

Finish ==
    /\ stage = "finish"
    /\ \/ /\ Capped /\ stage' = "stop" /\ ended' = "answered"
          /\ UNCHANGED <<plugin, command, out, goOn, continued>>
       \/ /\ ~Capped /\ Concluded /\ NextPlugin
          /\ LET more == goOn \/ out.blocked \/ out.context
             IN  /\ goOn' = more
                 /\ stage' = Then(IF more THEN "model" ELSE "stop")
                 /\ ended' = IF plugin = Len(Plugins) /\ ~more THEN "answered" ELSE ended
                 /\ continued' = IF plugin = Len(Plugins) /\ more /\ continued < MaxContinuations
                                 THEN continued + 1 ELSE continued
    /\ UNCHANGED <<ctx, call, calls, heard, told>>

Stop ==
    /\ stage = "stop" /\ Concluded /\ NextPlugin
    /\ stage' = Then("ended")
    /\ UNCHANGED <<ctx, call, calls, goOn, continued, ended, heard, told>>

Cancel ==
    /\ ctx = "live" /\ stage # "ended"
    /\ ctx' = "cancelled"
    /\ UNCHANGED <<stage, plugin, command, out, call, calls, goOn, continued, ended, heard, told>>

Step == Command \/ Submitted \/ PreTool \/ Gate \/ Exec \/ PostTool \/ Model \/ Finish \/ Stop
Next == Step \/ Killed \/ Cancel

\* A command ends by itself or by its time limit, and the prompt goes on; the
\* model does not call tools forever (MaxCalls).
Spec == Init /\ [][Next]_vars /\ WF_vars(Step)

(***************************************************************************)
(* Properties                                                              *)
(***************************************************************************)

\* A tool whose call a command refused is not run, whatever later commands and
\* plugins, and the person, say.
RefusalHolds == call.ran => ~heard.refused

\* The tool is run with the arguments the host's hook (the person) saw, rewritten
\* by plugins or not.
GateSawWhatRan == call.ran => heard.gateSaw = call.args

\* A plugin that fails closed is not passed by a command that fails or is late.
FailsClosed == call.ran => ~heard.silent

\* The end of a prompt is told to a plugin once: a failure by one event and not by
\* two, an answer before it is given and not again.
EndIsTold ==
    stage = "ended" /\ ctx = "live" /\ continued < MaxContinuations =>
        \A p \in DOMAIN Plugins :
            LET of == {"Stop"} \cup (IF ended = "failed" THEN {"StopFailure"} ELSE {})
            IN  ended \in {"answered", "failed"} /\ Plugins[p].events \cap of # {} => told[p] = 1

\* Plugins that always want to go on do not keep a prompt from its end.
PromptEnds == <>(stage = "ended")

\* No gate is passed before it has spoken: a tool does not run when a command that
\* was asked about its call was cut off.
GateIsHeard == call.ran => ~heard.lost
=============================================================================

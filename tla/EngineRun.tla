------------------------------- MODULE EngineRun -------------------------------
(***************************************************************************)
(* The life of a run: Engine.PromptWith (internal/engine/engine_prompt.go) *)
(* and the calls a host may make from other goroutines while it is in      *)
(* flight -- Steer, Cancel, Close, RegisterCleanup and the cancellation of *)
(* the context it passed (engine_control.go) -- together with the part of  *)
(* the agent loop (internal/agent/loop.go) that talks back to the engine:  *)
(* the model call it exposes through SetLLMCancel and the two places where *)
(* it drains the steer queue.                                              *)
(*                                                                         *)
(* A step is a critical section of e.mu, runMu or promptMu, or the work    *)
(* between two of them.  What a run does to history and to the session     *)
(* file is EngineHistory's; the build of a deferred client (EnsureLLM) is  *)
(* a step that may fail; the loop's messages are AgentLoop's.             *)
(*                                                                         *)
(* An operator whose comment starts with "Fault:" is a wrong version of    *)
(* the definition below it, used to see that a property notices.           *)
(***************************************************************************)
EXTENDS Integers, Sequences

CONSTANTS Prompts,      \* Prompt calls the hosts make
          Impatient,    \* those whose host may cancel the context it passed
          Steers,       \* Steer calls, each with a text of its own
          Cancels,      \* Cancel calls
          Closes,       \* Close calls
          Cleanups,     \* functions given to RegisterCleanup
          MaxTurns,     \* Options.MaxTurns of every run
          MaxOverflow,  \* maxOverflowRetries of the agent loop
          None          \* a nil pointer

\* Stop reasons, every error that is not a cancellation in one.
Outcomes == {"completed", "canceled", "error", "closed"}

\* A reply without tool calls, with tool calls, one cut at the output limit, the
\* error of a cancelled context, any other error (a context overflow included).
Results == {"final", "tools", "cut", "canceled", "failed"}

ASSUME BoundsAssumption == MaxTurns \in Nat \ {0} /\ MaxOverflow \in Nat
ASSUME ImpatientAssumption == Impatient \subseteq Prompts
ASSUME NoneAssumption   == None \notin Prompts \cup (Prompts \X Nat) \cup Outcomes \cup Results

VARIABLES
  promptMu,     \* holder of e.promptMu
  closed,       \* e.closed
  cleanups,     \* e.cleanups, in registration order
  busy,         \* e.busy
  runCancel,    \* e.runCancel: the run whose context it cancels
  steer,        \* e.steer: the pending texts
  steerCancel,  \* e.steerCancel: the call it cancels
  pc, out,      \* where each Prompt is, and its stop reason
  ctxDone,      \* the run context of each Prompt is cancelled
  turns,        \* agent.Run: turns consumed
  overflow,     \* agent.Run: forced compactions so far
  calls,        \* model calls issued; <<p, calls[p]>> names the latest
  callDone,     \* the context of p's latest call is cancelled
  res,          \* what the latest call returned
  heard,        \* the steers in the run's messages, oldest first
  spc, scap,    \* Steer: where it is and the cancel it captured
  cpc, ctarget, \* Cancel: where it is and the cancel it captured
  kpc, ktarget, \* Close: where it is, the cancel it captured
  kfns,         \* Close: the cleanups it took
  ran,          \* how often each cleanup ran
  fpc,          \* each cleanup: unregistered, registered
  sent,         \* history: the steers accepted while each run was live
  cause         \* history: who cancelled each run's context

engine  == <<promptMu, closed, cleanups, busy, runCancel, steer, steerCancel>>
loop    == <<turns, overflow, calls, callDone, res>>
run     == <<pc, out, ctxDone, loop, heard>>
host    == <<spc, scap, cpc, ctarget, kpc, ktarget, kfns, ran, fpc>>
history == <<sent, cause>>
vars    == <<engine, run, host, history>>

Live == {"ensure", "setup", "turn", "call", "ret", "after", "commit", "end"}
Held == Live \cup {"begin", "unlock"}
Labels == Held \cup {"idle", "wait", "done"}

Init ==
  /\ promptMu = None /\ closed = FALSE /\ cleanups = <<>>
  /\ busy = FALSE /\ runCancel = None
  /\ steer = <<>> /\ steerCancel = None
  /\ pc = [p \in Prompts |-> "idle"]
  /\ out = [p \in Prompts |-> None]
  /\ ctxDone = [p \in Prompts |-> FALSE]
  /\ turns = [p \in Prompts |-> 0]
  /\ overflow = [p \in Prompts |-> 0]
  /\ calls = [p \in Prompts |-> 0]
  /\ callDone = [p \in Prompts |-> FALSE]
  /\ res = [p \in Prompts |-> None]
  /\ heard = [p \in Prompts |-> <<>>]
  /\ spc = [s \in Steers |-> "idle"] /\ scap = [s \in Steers |-> None]
  /\ cpc = [c \in Cancels |-> "idle"] /\ ctarget = [c \in Cancels |-> None]
  /\ kpc = [k \in Closes |-> "idle"] /\ ktarget = [k \in Closes |-> None]
  /\ kfns = [k \in Closes |-> <<>>]
  /\ ran = [f \in Cleanups |-> 0]
  /\ fpc = [f \in Cleanups |-> "idle"]
  /\ sent = [p \in Prompts |-> <<>>]
  /\ cause = [p \in Prompts |-> "none"]

Goto(p, l) == pc' = [pc EXCEPT ![p] = l]

\* p stops at label l with stop reason o.
Stop(p, l, o) == Goto(p, l) /\ out' = [out EXCEPT ![p] = o]

-----------------------------------------------------------------------------
(* PromptWith up to the agent loop.                                        *)

\* A host calls Prompt with a valid text and waits for promptMu.
PromptCall(p) ==
  /\ pc[p] = "idle"
  /\ Goto(p, "wait")
  /\ UNCHANGED <<engine, out, ctxDone, loop, heard, host, history>>

PromptLock(p) ==
  /\ pc[p] = "wait" /\ promptMu = None
  /\ promptMu' = p
  /\ Goto(p, "begin")
  /\ UNCHANGED <<closed, cleanups, busy, runCancel, steer, steerCancel,
                 out, ctxDone, loop, heard, host, history>>

\* Fault: the closed flag is not looked at.
PromptBeginUnchecked(p) ==
  /\ pc[p] = "begin"
  /\ steer' = <<>> /\ busy' = TRUE /\ runCancel' = p
  /\ Goto(p, "ensure")
  /\ UNCHANGED <<promptMu, closed, cleanups, steerCancel,
                 out, ctxDone, loop, heard, host, history>>

\* One e.mu section: refuse when closed, else drop stale steers and register
\* the run, so that no steer aimed at it can be wiped and no Close can miss it.
PromptBegin(p) ==
  /\ pc[p] = "begin"
  /\ \/ /\ closed
        /\ Stop(p, "unlock", "closed")
        /\ UNCHANGED <<steer, busy, runCancel>>
     \/ /\ ~closed
        /\ steer' = <<>>
        /\ busy' = TRUE
        /\ runCancel' = p
        /\ Goto(p, "ensure") /\ UNCHANGED out
  /\ UNCHANGED <<promptMu, closed, cleanups, steerCancel,
                 ctxDone, loop, heard, host, history>>

\* ensureLLM and the context check after it.
PromptEnsure(p) ==
  /\ pc[p] = "ensure"
  /\ \/ ctxDone[p] /\ Stop(p, "end", "canceled")
     \/ closed /\ ~ctxDone[p] /\ Stop(p, "end", "closed")
     \/ ~closed /\ Stop(p, "end", "error")
     \/ ~closed /\ ~ctxDone[p] /\ Goto(p, "setup") /\ UNCHANGED out
  /\ UNCHANGED <<engine, ctxDone, loop, heard, host, history>>

\* Skills, the snapshot of the engine's state, the user-prompt hooks (which may
\* refuse the prompt), EventRunStart and the wrappers for this run.
PromptSetup(p) ==
  /\ pc[p] = "setup"
  /\ \/ Stop(p, "end", "error")
     \/ Goto(p, "turn") /\ UNCHANGED out
  /\ UNCHANGED <<engine, ctxDone, loop, heard, host, history>>

-----------------------------------------------------------------------------
(* agent.Run, one turn at a time.                                          *)

\* The head of the turn: budget, context, compaction and pre-model hooks.
LoopStop(p) ==
  /\ pc[p] = "turn"
  /\ \/ turns[p] = MaxTurns /\ Stop(p, "commit", "error")
     \/ turns[p] < MaxTurns /\ ctxDone[p] /\ Stop(p, "commit", "canceled")
     \/ turns[p] < MaxTurns /\ ~ctxDone[p] /\ Stop(p, "commit", "error")
  /\ UNCHANGED <<engine, ctxDone, loop, heard, host, history>>

\* The call gets a context of its own, whose cancel the engine publishes.
LoopCall(p) ==
  /\ pc[p] = "turn" /\ turns[p] < MaxTurns /\ ~ctxDone[p]
  /\ calls' = [calls EXCEPT ![p] = @ + 1]
  /\ callDone' = [callDone EXCEPT ![p] = FALSE]
  /\ steerCancel' = <<p, calls[p] + 1>>
  /\ Goto(p, "call")
  /\ UNCHANGED <<promptMu, closed, cleanups, busy, runCancel, steer,
                 out, ctxDone, turns, overflow, res, heard, host, history>>

\* Fault: the call's context is not derived from the run's.
CallReturnDetached(p, r) ==
  /\ pc[p] = "call" /\ (callDone[p] \/ ~ctxDone[p])
  /\ r = "canceled" => callDone[p]
  /\ res' = [res EXCEPT ![p] = r]
  /\ Goto(p, "ret")
  /\ UNCHANGED <<engine, out, ctxDone, turns, overflow, calls, callDone,
                 heard, host, history>>

\* The provider answers, fails, or gives up because its context is cancelled;
\* an answer may win the race against a cancel.
CallReturn(p, r) ==
  /\ pc[p] = "call"
  /\ r = "canceled" => callDone[p] \/ ctxDone[p]
  /\ res' = [res EXCEPT ![p] = r]
  /\ Goto(p, "ret")
  /\ UNCHANGED <<engine, out, ctxDone, turns, overflow, calls, callDone,
                 heard, host, history>>

CallRelease(p) ==
  /\ pc[p] = "ret"
  /\ steerCancel' = None
  /\ Goto(p, "after")
  /\ UNCHANGED <<promptMu, closed, cleanups, busy, runCancel, steer,
                 out, ctxDone, loop, heard, host, history>>

\* Fault: the texts stay queued.
DrainKeeps(p) ==
  /\ heard' = [heard EXCEPT ![p] = @ \o steer]
  /\ UNCHANGED steer

\* drainSteer: every pending text becomes a message of the run.
Drain(p) ==
  /\ heard' = [heard EXCEPT ![p] = @ \o steer]
  /\ steer' = <<>>

\* Fault: the turn is given back although it was not yet taken.
SteerReissueRefunds(p) ==
  /\ pc[p] = "after" /\ res[p] = "canceled" /\ ~ctxDone[p] /\ steer # <<>>
  /\ Drain(p)
  /\ turns' = [turns EXCEPT ![p] = @ - 1]
  /\ Goto(p, "turn")
  /\ UNCHANGED <<promptMu, closed, cleanups, busy, runCancel, steerCancel,
                 out, ctxDone, overflow, calls, callDone, res, host, history>>

\* A cancelled call with guidance pending is reissued on the same turn.
SteerReissue(p) ==
  /\ pc[p] = "after" /\ res[p] = "canceled" /\ ~ctxDone[p] /\ steer # <<>>
  /\ Drain(p)
  /\ Goto(p, "turn")
  /\ UNCHANGED <<promptMu, closed, cleanups, busy, runCancel, steerCancel,
                 out, ctxDone, loop, host, history>>

\* A context overflow is retried after a forced compaction that did shrink.
OverflowRetry(p) ==
  /\ pc[p] = "after" /\ res[p] = "failed" /\ overflow[p] < MaxOverflow
  /\ overflow' = [overflow EXCEPT ![p] = @ + 1]
  /\ Goto(p, "turn")
  /\ UNCHANGED <<engine, out, ctxDone, turns, calls, callDone, res, heard,
                 host, history>>

\* Fault: a cancelled call ends the run without a look at the steer queue.
CallFailedAlways(p) ==
  /\ pc[p] = "after" /\ res[p] \in {"canceled", "failed"}
  /\ Stop(p, "commit", IF res[p] = "canceled" THEN "canceled" ELSE "error")
  /\ UNCHANGED <<engine, ctxDone, loop, heard, host, history>>

CallFailed(p) ==
  /\ pc[p] = "after" /\ res[p] \in {"canceled", "failed"}
  /\ res[p] = "canceled" => ctxDone[p] \/ steer = <<>>
  /\ Stop(p, "commit", IF res[p] = "canceled" THEN "canceled" ELSE "error")
  /\ UNCHANGED <<engine, ctxDone, loop, heard, host, history>>

\* A reply without tool calls, or one cut by the provider, ends the run.
LoopFinish(p) ==
  /\ pc[p] = "after"
  /\ \/ res[p] = "final" /\ Stop(p, "commit", "completed")
     \/ res[p] = "final" /\ Stop(p, "commit", "error")      \* BeforeFinish failed
     \/ res[p] = "cut" /\ Stop(p, "commit", "error")         \* ErrTruncated
  /\ UNCHANGED <<engine, ctxDone, loop, heard, host, history>>

\* Fault: the continuation does not consume its turn.
LoopContinueFree(p) ==
  /\ pc[p] = "after" /\ res[p] \in {"final", "cut"}
  /\ Goto(p, "turn")
  /\ UNCHANGED <<engine, out, ctxDone, loop, heard, host, history>>

\* A BeforeFinish continuation or a first truncated batch consumes the turn and
\* goes on without draining the steer queue.
LoopContinue(p) ==
  /\ pc[p] = "after" /\ res[p] \in {"final", "cut"}
  /\ turns' = [turns EXCEPT ![p] = @ + 1]
  /\ Goto(p, "turn")
  /\ UNCHANGED <<engine, out, ctxDone, overflow, calls, callDone, res, heard,
                 host, history>>

\* The tool batch ran: steers are drained at the boundary before the next call.
ToolBoundary(p) ==
  /\ pc[p] = "after" /\ res[p] = "tools"
  /\ Drain(p)
  /\ turns' = [turns EXCEPT ![p] = @ + 1]
  /\ Goto(p, "turn")
  /\ UNCHANGED <<promptMu, closed, cleanups, busy, runCancel, steerCancel,
                 out, ctxDone, overflow, calls, callDone, res, host, history>>

\* ErrDone, a hard tool error, a cancelled batch, a stall, a failing hook.
ToolStop(p) ==
  /\ pc[p] = "after" /\ res[p] = "tools"
  /\ \/ Stop(p, "commit", "completed")
     \/ Stop(p, "commit", "error")
     \/ ctxDone[p] /\ Stop(p, "commit", "canceled")
  /\ UNCHANGED <<engine, ctxDone, loop, heard, host, history>>

-----------------------------------------------------------------------------
(* PromptWith after the loop: commit and the deferred functions.           *)

\* agent.Run returned and its locals are gone; the result is committed.
PromptCommit(p) ==
  /\ pc[p] = "commit"
  /\ steerCancel' = None
  /\ turns' = [turns EXCEPT ![p] = 0]
  /\ overflow' = [overflow EXCEPT ![p] = 0]
  /\ callDone' = [callDone EXCEPT ![p] = FALSE]
  /\ res' = [res EXCEPT ![p] = None]
  /\ Goto(p, "end")
  /\ UNCHANGED <<promptMu, closed, cleanups, busy, runCancel, steer,
                 out, ctxDone, calls, heard, host, history>>

\* Fault: the registration is left behind.
PromptEndKeeps(p) ==
  /\ pc[p] = "end"
  /\ busy' = FALSE
  /\ ctxDone' = [ctxDone EXCEPT ![p] = TRUE]
  /\ Goto(p, "unlock")
  /\ UNCHANGED <<promptMu, closed, cleanups, runCancel, steer, steerCancel,
                 out, loop, heard, host, history>>

\* endRun clears the registration before it cancels the context, so that a late
\* Cancel finds nothing.
PromptEnd(p) ==
  /\ pc[p] = "end"
  /\ busy' = FALSE
  /\ runCancel' = None
  /\ ctxDone' = [ctxDone EXCEPT ![p] = TRUE]
  /\ Goto(p, "unlock")
  /\ UNCHANGED <<promptMu, closed, cleanups, steer, steerCancel,
                 out, loop, heard, host, history>>

\* Fault: promptMu is not released.
PromptUnlockForgotten(p) ==
  /\ pc[p] = "unlock"
  /\ Goto(p, "done")
  /\ UNCHANGED <<engine, out, ctxDone, loop, heard, host, history>>

PromptUnlock(p) ==
  /\ pc[p] = "unlock"
  /\ promptMu' = None
  /\ Goto(p, "done")
  /\ UNCHANGED <<closed, cleanups, busy, runCancel, steer, steerCancel,
                 out, ctxDone, loop, heard, host, history>>

-----------------------------------------------------------------------------
(* The host's other goroutines.                                            *)

\* A cancelled context stays cancelled; the first to cancel is its cause.
CancelCtx(p, who) ==
  /\ ctxDone' = [ctxDone EXCEPT ![p] = TRUE]
  /\ cause' = IF cause[p] = "none" THEN [cause EXCEPT ![p] = who] ELSE cause

\* The host cancels the context it passed to Prompt.
ParentCancel(p) ==
  /\ p \in Impatient /\ pc[p] \notin {"idle", "done"} /\ ~ctxDone[p]
  /\ CancelCtx(p, "parent")
  /\ UNCHANGED <<engine, pc, out, loop, heard, host, sent>>

\* Steer, under e.mu: queue the text and read the in-flight call's cancel.
SteerAppend(s) ==
  /\ spc[s] = "idle"
  /\ steer' = Append(steer, s)
  /\ scap' = [scap EXCEPT ![s] = steerCancel]
  /\ spc' = [spc EXCEPT ![s] = "fire"]
  /\ sent' = [p \in Prompts |-> IF pc[p] \in Live THEN Append(sent[p], s)
                                                  ELSE sent[p]]
  /\ UNCHANGED <<promptMu, closed, cleanups, busy, runCancel, steerCancel,
                 run, cpc, ctarget, kpc, ktarget, kfns, ran, fpc, cause>>

\* Steer, after EventSteer: cancel the call it captured, over or not.
SteerFire(s) ==
  /\ spc[s] = "fire"
  /\ callDone' = [p \in Prompts |->
                   callDone[p] \/ (pc[p] = "call" /\ scap[s] = <<p, calls[p]>>)]
  /\ spc' = [spc EXCEPT ![s] = "done"]
  /\ UNCHANGED <<engine, pc, out, ctxDone, turns, overflow, calls, res, heard,
                 scap, cpc, ctarget, kpc, ktarget, kfns, ran, fpc, history>>

\* Cancel reads runCancel under runMu and calls it after the unlock.
CancelRead(c) ==
  /\ cpc[c] = "idle"
  /\ ctarget' = [ctarget EXCEPT ![c] = runCancel]
  /\ cpc' = [cpc EXCEPT ![c] = "fire"]
  /\ UNCHANGED <<engine, run, spc, scap, kpc, ktarget, kfns, ran, fpc, history>>

CancelFire(c) ==
  /\ cpc[c] = "fire"
  /\ IF ctarget[c] = None THEN UNCHANGED <<ctxDone, cause>>
                          ELSE CancelCtx(ctarget[c], "cancel")
  /\ cpc' = [cpc EXCEPT ![c] = "done"]
  /\ UNCHANGED <<engine, pc, out, loop, heard, spc, scap, ctarget,
                 kpc, ktarget, kfns, ran, fpc, sent>>

\* Fault: the closed flag is not raised.
CloseMarkOpen(k) ==
  /\ kpc[k] = "idle"
  /\ kfns' = [kfns EXCEPT ![k] = cleanups]
  /\ cleanups' = <<>>
  /\ kpc' = [kpc EXCEPT ![k] = "read"]
  /\ UNCHANGED <<promptMu, closed, busy, runCancel, steer, steerCancel, run,
                 spc, scap, cpc, ctarget, ktarget, ran, fpc, history>>

\* Close: the first caller takes the cleanups, later ones return at once.
CloseMark(k) ==
  /\ kpc[k] = "idle"
  /\ IF closed
       THEN /\ kpc' = [kpc EXCEPT ![k] = "returned"]
            /\ UNCHANGED <<closed, cleanups, kfns>>
       ELSE /\ closed' = TRUE
            /\ kfns' = [kfns EXCEPT ![k] = cleanups]
            /\ cleanups' = <<>>
            /\ kpc' = [kpc EXCEPT ![k] = "read"]
  /\ UNCHANGED <<promptMu, busy, runCancel, steer, steerCancel, run,
                 spc, scap, cpc, ctarget, ktarget, ran, fpc, history>>

\* Fault: the cleanups run before the Cancel.
CloseReadLate(k) ==
  /\ kpc[k] = "read"
  /\ ktarget' = [ktarget EXCEPT ![k] = runCancel]
  /\ kpc' = [kpc EXCEPT ![k] = "cleanup"]
  /\ UNCHANGED <<engine, run, spc, scap, cpc, ctarget, kfns, ran, fpc, history>>

CloseRead(k) ==
  /\ kpc[k] = "read"
  /\ ktarget' = [ktarget EXCEPT ![k] = runCancel]
  /\ kpc' = [kpc EXCEPT ![k] = "fire"]
  /\ UNCHANGED <<engine, run, spc, scap, cpc, ctarget, kfns, ran, fpc, history>>

CloseFire(k) ==
  /\ kpc[k] = "fire"
  /\ IF ktarget[k] = None THEN UNCHANGED <<ctxDone, cause>>
                          ELSE CancelCtx(ktarget[k], "close")
  /\ kpc' = [kpc EXCEPT ![k] = "cleanup"]
  /\ UNCHANGED <<engine, pc, out, loop, heard, spc, scap, cpc, ctarget,
                 ktarget, kfns, ran, fpc, sent>>

\* The cleanups run last registered first; one that panics is skipped over.
CloseCleanup(k) ==
  /\ kpc[k] = "cleanup"
  /\ IF kfns[k] = <<>>
       THEN /\ kpc' = [kpc EXCEPT ![k] = "done"]
            /\ UNCHANGED <<kfns, ran>>
       ELSE LET n == Len(kfns[k]) IN
            /\ ran' = [ran EXCEPT ![kfns[k][n]] = @ + 1]
            /\ kfns' = [kfns EXCEPT ![k] = SubSeq(@, 1, n - 1)]
            /\ UNCHANGED kpc
  /\ UNCHANGED <<engine, run, spc, scap, cpc, ctarget, ktarget, fpc, history>>

\* Fault: a registration on a closed engine is queued for ever.
RegisterCleanupQueued(f) ==
  /\ fpc[f] = "idle"
  /\ fpc' = [fpc EXCEPT ![f] = "registered"]
  /\ cleanups' = Append(cleanups, f)
  /\ UNCHANGED <<promptMu, closed, busy, runCancel, steer, steerCancel, run,
                 spc, scap, cpc, ctarget, kpc, ktarget, kfns, ran, history>>

RegisterCleanup(f) ==
  /\ fpc[f] = "idle"
  /\ fpc' = [fpc EXCEPT ![f] = "registered"]
  /\ IF closed
       THEN /\ ran' = [ran EXCEPT ![f] = @ + 1]
            /\ UNCHANGED cleanups
       ELSE /\ cleanups' = Append(cleanups, f)
            /\ UNCHANGED ran
  /\ UNCHANGED <<promptMu, closed, busy, runCancel, steer, steerCancel, run,
                 spc, scap, cpc, ctarget, kpc, ktarget, kfns, history>>

-----------------------------------------------------------------------------
PromptStep(p) ==
  \/ PromptLock(p) \/ PromptBegin(p) \/ PromptEnsure(p) \/ PromptSetup(p)
  \/ LoopStop(p) \/ LoopCall(p) \/ CallRelease(p)
  \/ SteerReissue(p) \/ OverflowRetry(p) \/ CallFailed(p)
  \/ LoopFinish(p) \/ LoopContinue(p) \/ ToolBoundary(p) \/ ToolStop(p)
  \/ PromptCommit(p) \/ PromptEnd(p) \/ PromptUnlock(p)

CancelStep(c) == CancelRead(c) \/ CancelFire(c)
CloseStep(k)  == CloseMark(k) \/ CloseRead(k) \/ CloseFire(k) \/ CloseCleanup(k)

Next ==
  \/ \E p \in Prompts : PromptCall(p) \/ PromptStep(p) \/ ParentCancel(p)
  \/ \E p \in Prompts, r \in Results : CallReturn(p, r)
  \/ \E s \in Steers : SteerAppend(s) \/ SteerFire(s)
  \/ \E c \in Cancels : CancelStep(c)
  \/ \E k \in Closes : CloseStep(k)
  \/ \E f \in Cleanups : RegisterCleanup(f)

\* A started call of the engine keeps going, but a host need not make one, and a
\* provider or a tool is only known to return once its context is cancelled.
Fairness ==
  /\ \A p \in Prompts :
       /\ WF_vars(PromptStep(p) /\ (res[p] = "tools" /\ pc[p] = "after" => ctxDone[p]))
       /\ WF_vars((callDone[p] \/ ctxDone[p]) /\ \E r \in Results : CallReturn(p, r))
  /\ \A s \in Steers : WF_vars(SteerFire(s))
  /\ \A c \in Cancels : WF_vars(CancelFire(c))
  /\ \A k \in Closes : WF_vars(kpc[k] # "idle" /\ CloseStep(k))

Spec     == Init /\ [][Next]_vars
FairSpec == Spec /\ Fairness

-----------------------------------------------------------------------------
(* Properties.                                                             *)

CallIds == Prompts \X Nat

EngineTypeOK ==
  /\ promptMu \in Prompts \cup {None}
  /\ closed \in BOOLEAN /\ busy \in BOOLEAN
  /\ cleanups \in Seq(Cleanups)
  /\ runCancel \in Prompts \cup {None}
  /\ steer \in Seq(Steers)
  /\ steerCancel \in CallIds \cup {None}

RunTypeOK ==
  /\ pc \in [Prompts -> Labels]
  /\ out \in [Prompts -> Outcomes \cup {None}]
  /\ ctxDone \in [Prompts -> BOOLEAN]
  /\ turns \in [Prompts -> Nat]
  /\ overflow \in [Prompts -> Nat]
  /\ calls \in [Prompts -> Nat]
  /\ callDone \in [Prompts -> BOOLEAN]
  /\ res \in [Prompts -> Results \cup {None}]
  /\ heard \in [Prompts -> Seq(Steers)]
  /\ sent \in [Prompts -> Seq(Steers)]
  /\ cause \in [Prompts -> {"none", "parent", "cancel", "close"}]

HostTypeOK ==
  /\ spc \in [Steers -> {"idle", "fire", "done"}]
  /\ scap \in [Steers -> CallIds \cup {None}]
  /\ cpc \in [Cancels -> {"idle", "fire", "done"}]
  /\ ctarget \in [Cancels -> Prompts \cup {None}]
  /\ kpc \in [Closes -> {"idle", "read", "fire", "cleanup", "done", "returned"}]
  /\ ktarget \in [Closes -> Prompts \cup {None}]
  /\ kfns \in [Closes -> Seq(Cleanups)]
  /\ ran \in [Cleanups -> Nat]
  /\ fpc \in [Cleanups -> {"idle", "registered"}]

TypeOK == EngineTypeOK /\ RunTypeOK /\ HostTypeOK

\* A Cancel or Close always finds the run that is live, and nothing else: the
\* registration under runMu names exactly the Prompt between beginRun and
\* endRun, which holds promptMu (beginRun, endRun, Cancel).
LiveRunIsRegistered ==
  /\ \A p \in Prompts : pc[p] \in Live <=> runCancel = p
  /\ \A p \in Prompts : pc[p] \in Held <=> promptMu = p
  /\ busy <=> runCancel # None

\* A steer interrupts the call in flight but never ends the run: a run is over as
\* cancelled only when its host, a Cancel or a Close cancelled its context.  It
\* rests on every steer being queued before it cancels, and on drains happening
\* only between calls (Steer, drainSteer, SetLLMCancel, loop.go's error path).
SteerNeverAborts ==
  \A p \in Prompts : out[p] = "canceled" => cause[p] # "none"

\* Every steer accepted while a run is live is in its messages or still pending,
\* once, in order; when the run is over it kept a prefix of them, and none of
\* another run's (Steer, drainSteer, the reset in PromptWith).
SteerAccounting ==
  \A p \in Prompts :
    /\ pc[p] \in Live => heard[p] \o steer = sent[p]
    /\ \E n \in 0..Len(sent[p]) : heard[p] = SubSeq(sent[p], 1, n)

\* A run issues no more model calls than its turns, its overflow retries and the
\* steers that interrupted it allow, although a reissue consumes no turn (the
\* turn-- of loop.go's two retry paths).
CallBudget ==
  \A p \in Prompts : calls[p] <= MaxTurns + MaxOverflow + Len(heard[p])

\* Once the first Close is past its Cancel, every run still live has a cancelled
\* context: no Prompt slips between the closed flag and the Cancel (Close and
\* the e.mu section of PromptWith that registers the run).
CloseReachesRun ==
  (\E k \in Closes : kpc[k] \in {"cleanup", "done"})
    => \A p \in Prompts : pc[p] \in Live => ctxDone[p]

\* A cleanup runs at most once however Close and RegisterCleanup interleave, and
\* never while the engine is open.
CleanupOnce ==
  \A f \in Cleanups : ran[f] <= 1 /\ (ran[f] = 1 => closed)

\* The cleanups of Close start only when the live run's context is cancelled: a
\* background process is torn down after its run was told to stop.
CleanupAfterCancel ==
  [][\A f \in Cleanups, p \in Prompts :
       ran'[f] # ran[f] /\ fpc[f] = "registered" /\ pc[p] \in Live => ctxDone[p]]_vars

\* A cancelled run ends, even when the provider or a tool would never answer: its
\* context reaches the call or the batch in flight (Cancel, Close, ctx).
CancelEndsRun ==
  \A p \in Prompts : (pc[p] \in Live /\ ctxDone[p]) ~> pc[p] = "done"

\* After Close every Prompt, live or queued behind promptMu, returns.
CloseDrainsPrompts ==
  \A p \in Prompts : (closed /\ pc[p] # "idle") ~> pc[p] = "done"

\* Once the engine is closed every registered cleanup has run or will.
CleanupsRun ==
  \A f \in Cleanups : (closed /\ fpc[f] = "registered") ~> ran[f] = 1

\* engine_control.go:274-279: a steer is "delivered while a run is live (from
\* EventRunStart / Status().Busy until the run ends)".
SteerDelivered ==
  \A p \in Prompts : pc[p] = "done" /\ out[p] = "completed" => heard[p] = sent[p]
================================================================================

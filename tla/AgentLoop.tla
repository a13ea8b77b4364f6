----------------------------- MODULE AgentLoop -----------------------------
(***************************************************************************)
(* One run of the agent loop: Run in internal/agent/loop.go.  A turn sends *)
(* the messages to the model, after compacting them when they are over     *)
(* budget, and appends what the model answers: a final text, or tool calls *)
(* whose results follow (ToolBatch).  A call of the model may be           *)
(* interrupted by a steer, may be rejected as too long, or may fail.       *)
(*                                                                         *)
(* A message is its role and the tool calls it makes or answers.  A call's *)
(* id is the reply it came in and its place there.  Text, the estimate of  *)
(* the context's size and what the hooks are for are left out: whether the *)
(* budget is exceeded, how much compaction keeps, and what a hook decides  *)
(* is any of the code's outcomes.                                          *)
(* What a compaction may make of a history is Conversation's.              *)
(*                                                                         *)
(* An operator whose comment starts with "Fault:" is a wrong version of    *)
(* the definition below it, used to see that a property notices.           *)
(***************************************************************************)
EXTENDS ToolBatch

CONSTANTS
    Batches,        \* the tool batches the model may ask for
    Priors,         \* the histories a run may begin from
    MaxTurns,       \* Options.MaxTurns, positive
    MaxSteers,      \* bound: the steers of one run
    TruncatedLimit, \* maxTruncatedBatches
    FinishLimit,    \* MaxFinishContinuations
    OverflowLimit,  \* maxOverflowRetries
    StallLimit,     \* stallBarrenBatches
    StallDelegate,  \* stallDelegateBatches
    WarnAfter,      \* sameToolWarnAfter
    Delegates       \* the delegate tool

LoopAssumption ==
    /\ \A b \in Batches : b \in Seq(Tools) /\ b # <<>>
    /\ \A p \in Priors : p \in Seq([role : Roles, ids : CallIds]) /\ Accepted(p)
    /\ MaxTurns \in Nat \ {0}
    /\ {MaxSteers, FinishLimit, OverflowLimit, WarnAfter} \subseteq Nat
    /\ {TruncatedLimit, StallLimit, StallDelegate} \subseteq Nat \ {0}
    /\ Delegates \subseteq Tools
ASSUME LoopAssumption

VARIABLES
    phase,       \* "turn": top of the loop; "call": the model is called;
                 \* "batch": tools run; "over"
    outcome,     \* how the run ended, "none" before
    msgs,        \* messages
    turn,        \* turns used up
    truncated,   \* truncatedBatches
    finishes,    \* finishContinuations
    overflows,   \* overflowRetries
    barren,      \* barrenRuns
    steers,      \* strings in the engine's steer queue
    steered,     \* steers sent so far
    interrupted, \* the current model call was cancelled by a steer
    replies,     \* history: answers the model gave in this run
    lastCut      \* history: replies in a row, up to the last one, that were
                 \* tool calls cut at the output limit

counters == <<truncated, finishes, overflows, barren>>
vars == <<runCtx, batchVars, phase, outcome, msgs, turn, counters, steers, steered,
          interrupted, replies, lastCut>>

Ids(n)             == [i \in 1 .. n |-> <<replies + 1, i>>]
ToolMessages(is)   == [k \in 1 .. Len(is) |-> Message("tool", <<<<replies, is[k]>>>>)]

Init ==
    /\ runCtx = "live" /\ IdleBatch
    /\ phase = "turn" /\ outcome = "none"
    /\ \E p \in Priors : msgs = Append(p, User)
    /\ turn = 0 /\ truncated = 0 /\ finishes = 0 /\ overflows = 0 /\ barren = 0
    /\ steers = 0 /\ steered = 0 /\ interrupted = FALSE /\ replies = 0 /\ lastCut = 0

EndWith(o)   == phase' = "over" /\ outcome' = o /\ turn' = turn
NextTurn     == phase' = "turn" /\ outcome' = outcome /\ turn' = turn + 1
SameTurn     == phase' = "turn" /\ outcome' = outcome /\ turn' = turn

-----------------------------------------------------------------------------
(* The turn.                                                               *)

(* for turn < maxTurns, then the context.                                  *)
OutOfTurns ==
    /\ phase = "turn" /\ turn >= MaxTurns
    /\ EndWith("max_turns")
    /\ UNCHANGED <<runCtx, batchVars, msgs, counters, steers, steered, interrupted, replies, lastCut>>

Aborted ==
    /\ phase = "turn" /\ turn < MaxTurns /\ runCtx = "cancelled"
    /\ EndWith("cancelled")
    /\ UNCHANGED <<runCtx, batchVars, msgs, counters, steers, steered, interrupted, replies, lastCut>>

(* applyCompact, the PreModel hooks, and the call.  A PreCompact hook may  *)
(* skip the compaction or fail the run, a PreModel hook stop or fail it.   *)
Send ==
    /\ phase = "turn" /\ turn < MaxTurns /\ runCtx = "live"
    /\ \/ msgs' = msgs /\ EndWith("error")
       \/ /\ msgs' \in Compacted(msgs)
          /\ \/ EndWith("error")
             \/ EndWith("budget")
             \/ phase' = "call" /\ UNCHANGED <<outcome, turn>>
    /\ interrupted' = FALSE
    /\ UNCHANGED <<runCtx, batchVars, counters, steers, steered, replies, lastCut>>

(* Engine.Steer while the run is on: the queue, then the current call.     *)
Steer ==
    /\ phase # "over" /\ steered < MaxSteers
    /\ steers' = steers + 1 /\ steered' = steered + 1
    /\ interrupted' = (phase = "call")
    /\ UNCHANGED <<runCtx, batchVars, phase, outcome, msgs, turn, counters, replies, lastCut>>

Cancel ==
    /\ phase # "over" /\ runCtx = "live"
    /\ runCtx' = "cancelled"
    /\ UNCHANGED <<batchVars, phase, outcome, msgs, turn, counters, steers, steered,
                   interrupted, replies, lastCut>>

(* Fault: the interrupted call used its turn. *)
InterruptedSpent ==
    /\ phase = "call" /\ interrupted /\ runCtx = "live" /\ steers > 0
    /\ msgs' = msgs \o Notes(steers)
    /\ steers' = 0
    /\ NextTurn
    /\ UNCHANGED <<runCtx, batchVars, counters, steered, interrupted, replies, lastCut>>

(* The call was cancelled for a steer and the run was not: the steers go   *)
(* in and the same turn is sent again.                                     *)
Interrupted ==
    /\ phase = "call" /\ interrupted /\ runCtx = "live" /\ steers > 0
    /\ msgs' = msgs \o Notes(steers)
    /\ steers' = 0
    /\ SameTurn
    /\ UNCHANGED <<runCtx, batchVars, counters, steered, interrupted, replies, lastCut>>

(* The provider rejected the request as too long: a forced compaction that *)
(* makes it shorter sends the same turn again.                             *)
Overflow ==
    /\ phase = "call" /\ overflows < OverflowLimit
    /\ msgs' \in Compacted(msgs)
    /\ overflows' = overflows + 1
    /\ SameTurn
    /\ UNCHANGED <<runCtx, batchVars, truncated, finishes, barren, steers, steered,
                   interrupted, replies, lastCut>>

(* Any other error, an overflow that could not be cured included.          *)
CallFails ==
    /\ phase = "call"
    /\ EndWith(IF runCtx = "cancelled" THEN "cancelled" ELSE "error")
    /\ UNCHANGED <<runCtx, batchVars, msgs, counters, steers, steered, interrupted, replies, lastCut>>

(* A reply without tool calls.  It may be empty and cut, the BeforeFinish  *)
(* hooks may fail the run or ask for more, or the run completes.           *)
ReplyText ==
    /\ phase = "call"
    /\ replies' = replies + 1 /\ lastCut' = 0
    /\ \/ /\ \E o \in {"truncated", "error", "completed"} : EndWith(o)
          /\ msgs' = Append(msgs, Message("assistant", <<>>))
          /\ UNCHANGED finishes
       \/ /\ finishes < FinishLimit
          /\ finishes' = finishes + 1
          /\ msgs' = msgs \o <<Message("assistant", <<>>), User>>
          /\ NextTurn
    /\ UNCHANGED <<runCtx, batchVars, truncated, overflows, barren, steers, steered, interrupted>>

(* A reply with tool calls cut at the output limit: nothing is executed,   *)
(* every call is answered with an error.                                   *)
ReplyCut(b) ==
    /\ phase = "call"
    /\ replies' = replies + 1 /\ lastCut' = lastCut + 1
    /\ msgs' = msgs \o <<Message("assistant", Ids(Len(b)))>>
                    \o [i \in 1 .. Len(b) |-> Message("tool", <<Ids(Len(b))[i]>>)]
    /\ finishes' = 0
    /\ truncated' = truncated + 1
    /\ IF truncated' >= TruncatedLimit THEN EndWith("truncated") ELSE NextTurn
    /\ UNCHANGED <<runCtx, batchVars, overflows, barren, steers, steered, interrupted>>

ReplyCalls(b, malformed) ==
    /\ phase = "call"
    /\ replies' = replies + 1 /\ lastCut' = 0
    /\ msgs' = Append(msgs, Message("assistant", Ids(Len(b))))
    /\ finishes' = 0
    /\ Begin(b, malformed)
    /\ phase' = "batch"
    /\ UNCHANGED <<runCtx, outcome, turn, truncated, overflows, barren, steers, steered, interrupted>>

ToolStep ==
    /\ phase = "batch" /\ ~BatchOver
    /\ \E i \in Calls : Step(i)
    /\ UNCHANGED <<phase, outcome, msgs, turn, counters, steers, steered, interrupted, replies, lastCut>>

-----------------------------------------------------------------------------
(* After the batch.                                                        *)

BatchEnds == phase = "batch" /\ BatchOver

ClearBatch ==
    /\ batch' = <<>> /\ mode' = "refused" /\ width' = 1 /\ call' = <<>>
    /\ failed' = "none" /\ cut' = FALSE

(* stallLimit                                                              *)
Limit == IF \A i \in Calls : batch[i] \in Delegates THEN StallDelegate ELSE StallLimit

(* A tool, or a hook, asked for the end: the results are kept.             *)
BatchDone ==
    /\ BatchEnds /\ BatchError = "done"
    /\ msgs' = msgs \o ToolMessages(Results)
    /\ EndWith("completed")
    /\ ClearBatch
    /\ UNCHANGED <<runCtx, counters, steers, steered, interrupted, replies, lastCut>>

(* A hard error or the run's context: missing results are made up.         *)
BatchFails ==
    /\ BatchEnds /\ BatchError \in {"error", "ctx"}
    /\ msgs' = msgs \o ToolMessages(Repaired)
    /\ EndWith(IF BatchError = "ctx" THEN "cancelled" ELSE "error")
    /\ ClearBatch
    /\ UNCHANGED <<runCtx, counters, steers, steered, interrupted, replies, lastCut>>

(* The batch produced something new, or not: enough batches that did not   *)
(* end the run, some of them add an advice.  Then the AfterTurn hooks fail *)
(* the run or speak, and the steers go in.                                 *)
BatchSucceeds ==
    /\ BatchEnds /\ BatchError = "none"
    /\ \E fresh, inject \in BOOLEAN :
          LET b      == IF fresh THEN 0 ELSE barren + 1
              advice == ~fresh /\ b = WarnAfter /\ b < Limit
              told   == msgs \o ToolMessages(Results) \o Notes(IF advice THEN 1 ELSE 0)
          IN  /\ barren' = b
              /\ \/ /\ ~fresh /\ b >= Limit
                    /\ msgs' = told /\ EndWith("stuck") /\ UNCHANGED steers
                 \/ /\ fresh \/ b < Limit
                    /\ msgs' = told /\ EndWith("error") /\ UNCHANGED steers
                 \/ /\ fresh \/ b < Limit
                    /\ msgs' = told \o Notes(IF inject THEN 1 ELSE 0) \o Notes(steers)
                    /\ steers' = 0 /\ NextTurn
    /\ ClearBatch
    /\ UNCHANGED <<runCtx, truncated, finishes, overflows, steered, interrupted, replies, lastCut>>

AfterBatch == BatchDone \/ BatchFails \/ BatchSucceeds
Reply      == \/ ReplyText
              \/ \E b \in Batches : ReplyCut(b) \/ \E malformed \in BOOLEAN : ReplyCalls(b, malformed)

Next ==
    \/ OutOfTurns \/ Aborted \/ Send
    \/ Steer \/ Cancel
    \/ Interrupted \/ Overflow \/ CallFails \/ Reply
    \/ ToolStep \/ AfterBatch

Spec == Init /\ [][Next]_vars

(* Fairness: the loop's own statements and a batch's own steps are taken.  *)
(* A tool, and the model, may take for ever while the context they run     *)
(* under is alive: they return only once it is cancelled.  Nothing makes a *)
(* user steer or cancel.                                                   *)
LoopStep   == OutOfTurns \/ Aborted \/ Send \/ AfterBatch
CallReturn == Interrupted \/ CallFails \/ Reply
BatchStep  == ToolStep /\ ((\E i \in Calls : Finish(i)) => CtxDone)

FairSpec ==
    /\ Spec
    /\ WF_vars(LoopStep)
    /\ WF_vars(CallReturn /\ (interrupted \/ runCtx = "cancelled"))
    /\ WF_vars(BatchStep)

-----------------------------------------------------------------------------
(* The type invariant (what msgs may hold is Replayable's).                *)
TypeOK ==
    /\ runCtx \in {"live", "cancelled"}
    /\ batch \in Seq(Tools)
    /\ mode \in {"refused", "seq", "par"}
    /\ width \in Nat \ {0}
    /\ call \in [Calls -> {"waiting", "held", "exec"} \cup Settled]
    /\ failed \in {"none", "error", "ctx", "done"}
    /\ cut \in BOOLEAN
    /\ phase \in {"turn", "call", "batch", "over"}
    /\ outcome \in {"none", "completed", "error", "cancelled", "budget", "max_turns",
                    "truncated", "stuck"}
    /\ turn \in Nat /\ truncated \in Nat /\ finishes \in Nat /\ overflows \in Nat
    /\ barren \in Nat /\ steers \in Nat /\ steered \in Nat /\ replies \in Nat /\ lastCut \in Nat
    /\ interrupted \in BOOLEAN

(* Whatever is sent to the model, and whatever history a run returns and   *)
(* the engine saves, is a conversation a provider accepts: "every          *)
(* advertised tool_call must have a matching tool result or the history is *)
(* unreplayable" (loop.go, repair.go), across compaction, cancellation,    *)
(* failing siblings and cut replies.                                       *)
Replayable == phase \in {"call", "over"} => Accepted(msgs)

(* A turn of the budget is an answer of the model: a call that was         *)
(* interrupted or rejected as too long, and was sent again, used none, and *)
(* a run that is out of turns had all its answers.                         *)
TurnsAreReplies ==
    /\ phase = "turn" => turn = replies
    /\ outcome = "max_turns" => replies = MaxTurns

(* A batch that reports no failure left no call without a result: nothing  *)
(* was skipped or dropped silently (runToolBatchParallel).                 *)
NothingDropped ==
    BatchEnds /\ BatchError \in {"none", "done"} => \A i \in Calls : call[i] \in {"ok", "done"}

(* A tool that limits its parallel calls never has more siblings beside it *)
(* than that (MaxParallel), nor any tool more than policy allows.          *)
WithinLimits ==
    \A i \in Running : LET own == MaxParallel[batch[i]]
                       IN  Cardinality(Running) <= IF own > 0 /\ own < ParallelLimit
                                                   THEN own ELSE ParallelLimit

(* "truncatedBatches counts consecutive turns where the provider cut the   *)
(* tool-call arguments": a run that gives up on cut tool calls had that    *)
(* many cut replies in a row.                                              *)
CutInARow ==
    outcome = "truncated" /\ msgs[Len(msgs)].role = "tool" => lastCut >= TruncatedLimit

(* One hard failure ends the batch and the run, even beside siblings that  *)
(* would have run for ever: they are cancelled.                            *)
FailFast == failed # "none" ~> phase = "over"

(* A cancelled run ends, whatever the model or the tools were doing.       *)
CancelEnds == runCtx = "cancelled" ~> phase = "over"
=============================================================================

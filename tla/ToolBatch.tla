----------------------------- MODULE ToolBatch -----------------------------
(***************************************************************************)
(* The tool calls of one assistant message: runToolBatch and what it calls *)
(* (internal/agent/loop_tools.go).  A batch is malformed, refused, run one *)
(* call at a time, or run in parallel: then every call has a goroutine,    *)
(* takes a slot of a semaphore, and the first hard error cancels the       *)
(* context its siblings run under.                                         *)
(*                                                                         *)
(* The module has no specification of its own: AgentLoop begins batches    *)
(* and takes their results.  What a tool does, and what a PreTool or       *)
(* PostTool hook decides, is any of the outcomes the code tells apart.     *)
(*                                                                         *)
(* An operator whose comment starts with "Fault:" is a wrong version of    *)
(* the definition below it, used to see that a property notices.           *)
(***************************************************************************)
EXTENDS Conversation

CONSTANTS
    Tools,          \* the names a call can carry
    Refused,        \* tools the policy does not allow
    Unknown,        \* names no tool answers to
    Alone,          \* tools that must be the only call of their batch
    MaxParallel,    \* a tool's own limit on parallel calls, 0 for none
    ParallelLimit,  \* policy.max_parallel_tools
    HaltRefused     \* whether a hook may halt a call that is refused or unknown

ToolsAssumption ==
    /\ Refused \subseteq Tools /\ Unknown \subseteq Tools /\ Alone \subseteq Tools
    /\ MaxParallel \in [Tools -> Nat]
    /\ ParallelLimit \in Nat \ {0}
    /\ HaltRefused \in BOOLEAN
ASSUME ToolsAssumption

VARIABLES
    runCtx,     \* the context of the run: "live" or "cancelled"
    batch,      \* the tools of the calls, in call order; <<>> between batches
    mode,       \* "refused": answered unexecuted; "seq"; "par"
    width,      \* the size of the semaphore
    call,       \* per call: "waiting", "held", "exec", and once it ended
                \* "ok", "done", "hard" or "stopped" (its slot)
    failed,     \* hardErr: "none", "error", "ctx", or "done" (an ErrDone)
    cut         \* the batch's own context is cancelled

batchVars == <<batch, mode, width, call, failed, cut>>

(* Fault: the batch's context does not derive from the run's. *)
CtxDetached == cut

CtxDone == runCtx = "cancelled" \/ cut
Calls   == 1 .. Len(batch)
Settled == {"ok", "done", "hard", "stopped"}
Running == {i \in Calls : call[i] \in {"held", "exec"}}

IdleBatch ==
    /\ batch = <<>> /\ mode = "refused" /\ width = 1 /\ call = <<>>
    /\ failed = "none" /\ cut = FALSE

-----------------------------------------------------------------------------
(* What the batch is before it runs.                                       *)

(* Fault: the tools' own limits are not looked at. *)
WidthOfPolicy(b) == ParallelLimit

Width(b) ==
    LET caps == {ParallelLimit} \cup {MaxParallel[b[i]] : i \in {j \in 1 .. Len(b) : MaxParallel[b[j]] > 0}}
    IN  CHOOSE w \in caps : \A v \in caps : w <= v

HasAlone(b) == Len(b) > 1 /\ \E i \in 1 .. Len(b) : b[i] \in Alone

(* runToolBatch up to the choice of a runner.  A malformed batch (too many *)
(* calls, a call without id or name) is answered before the context is     *)
(* looked at, a batch that mixes in a sequential tool after it.            *)
Begin(b, malformed) ==
    LET how == IF malformed THEN "refused"
               ELSE IF runCtx = "cancelled" THEN "seq"
               ELSE IF HasAlone(b) THEN "refused"
               ELSE IF Len(b) = 1 \/ Width(b) = 1 THEN "seq" ELSE "par"
    IN  /\ batch' = b
        /\ mode' = how
        /\ width' = Width(b)
        /\ call' = [i \in 1 .. Len(b) |-> IF how = "refused" THEN "ok" ELSE "waiting"]
        /\ failed' = "none"
        /\ cut' = FALSE

-----------------------------------------------------------------------------
(* One call.                                                               *)

Turn(i) == CASE mode = "par" -> TRUE
             [] mode = "seq" -> \A j \in 1 .. i - 1 : call[j] \in {"ok", "done"}
             [] OTHER        -> FALSE

(* The slot of a call.  The first hard error is the batch's and cancels    *)
(* the context the siblings run under.                                     *)
Slot(i, s) ==
    /\ call' = [call EXCEPT ![i] = s]
    /\ UNCHANGED <<failed, cut>>

(* Fault: the siblings are not cancelled. *)
HardSlotAlone(i, err) ==
    /\ call' = [call EXCEPT ![i] = "hard"]
    /\ failed' = IF failed = "none" THEN err ELSE failed
    /\ cut' = cut

HardSlot(i, err) ==
    /\ call' = [call EXCEPT ![i] = "hard"]
    /\ failed' = IF failed = "none" THEN err ELSE failed
    /\ cut' = TRUE

(* A goroutine takes a slot of the semaphore; a sequential batch turns to  *)
(* its next call.                                                          *)
Take(i) ==
    /\ call[i] = "waiting" /\ Turn(i)
    /\ Cardinality(Running) < width
    /\ Slot(i, "held")
    /\ UNCHANGED <<runCtx, batch, mode, width>>

(* The context ended before the call was executed.                         *)
GiveUp(i) ==
    /\ call[i] \in {"waiting", "held"} /\ Turn(i)
    /\ CtxDone
    /\ Slot(i, "stopped")
    /\ UNCHANGED <<runCtx, batch, mode, width>>

(* What the hooks before the call may say of it.  A refused call is denied *)
(* whatever they say, and they may still halt.                             *)
Decisions(t) ==
    {"deny", "error"}
      \cup (IF t \in Refused THEN {} ELSE {"allow"})
      \cup (IF t \in Refused \cup Unknown /\ ~HaltRefused THEN {} ELSE {"halt"})

(* A call that was denied is answered by the deny message, a halt by       *)
(* ErrDone.  For a refused or unknown tool any error is a hard one, an     *)
(* ErrDone included (soft_errors.go).                                      *)
Denied(i, d) ==
    IF d = "halt"
    THEN IF batch[i] \in Refused \cup Unknown THEN HardSlot(i, "done") ELSE Slot(i, "done")
    ELSE Slot(i, "ok")

(* execOneTool up to Exec: context, policy, PreTool hooks; a denied call   *)
(* goes through the PostTool hooks at once.                                *)
Enter(i) ==
    /\ call[i] = "held" /\ ~CtxDone
    /\ \E d \in Decisions(batch[i]) :
          \/ d = "error" /\ HardSlot(i, "error")
          \/ d = "allow" /\ Slot(i, "exec")
          \/ d \in {"deny", "halt"} /\ (Denied(i, d) \/ HardSlot(i, "error"))
    /\ UNCHANGED <<runCtx, batch, mode, width>>

(* Exec returned.  With the context gone the call is a hard error whatever *)
(* it returned; else its text, or its error as a text, is the result,      *)
(* ErrDone ends the run after the batch, and a PostTool hook may fail.     *)
Finish(i) ==
    /\ call[i] = "exec"
    /\ IF CtxDone THEN HardSlot(i, "ctx")
       ELSE \/ Slot(i, "ok")
            \/ batch[i] \notin Unknown /\ Slot(i, "done")
            \/ HardSlot(i, "error")
    /\ UNCHANGED <<runCtx, batch, mode, width>>

Step(i) == Take(i) \/ GiveUp(i) \/ Enter(i) \/ Finish(i)

-----------------------------------------------------------------------------
(* The end of the batch.                                                   *)

(* wg.Wait; a sequential batch stops at the first call that did not end    *)
(* softly.                                                                 *)
BatchOver ==
    \/ \A i \in Calls : call[i] \in Settled
    \/ mode = "seq" /\ \E i \in Calls : call[i] \in {"hard", "stopped"}

HasDone == \E i \in Calls : call[i] = "done"

(* The error of the batch: a hard one, then the run's context, then the    *)
(* wish to end.  A sequential batch looks at the context between calls     *)
(* only.                                                                   *)
BatchError ==
    IF failed # "none" THEN failed
    ELSE IF \/ mode = "par" /\ runCtx = "cancelled"
            \/ mode = "seq" /\ \E i \in Calls : call[i] = "stopped" THEN "ctx"
    ELSE IF HasDone THEN "done" ELSE "none"

(* The calls that have a result, in call order.                            *)
Answered == {i \in Calls : call[i] \in {"ok", "done"}}
Results  == InOrder(Len(batch), Answered)

(* repairToolResults: an error result for every call that has none, after  *)
(* the results there are.                                                  *)
Repaired == Results \o InOrder(Len(batch), Calls \ Answered)
=============================================================================

--------------------------- MODULE AgentLoopProofs ---------------------------
(***************************************************************************)
(* For any tools, batches, limits and number of turns: no batch loses a    *)
(* result silently, no tool runs beside more siblings than it allows, and  *)
(* the turn budget counts the model's answers.                             *)
(*                                                                         *)
(* NothingDropped speaks of the end of a batch, so the invariant has to    *)
(* say, while it runs, why a call may be without a result: Excused.  A     *)
(* stopped call had a cancelled context, the batch's own context is        *)
(* cancelled only after a hard error, and a hard error is never an ErrDone *)
(* as long as no hook halts a refused call.  WithinLimits needs that the   *)
(* width is within every limit (Narrow) and the semaphore within the width *)
(* (Held); TurnsAreReplies needs the count in every phase (Counted).       *)
(*                                                                         *)
(* For any plugins and commands around a prompt, and any call of bash:     *)
(* GuardsHold.  HookInv says that a refusal is in the call or in what its  *)
(* plugin has said so far (Guarded), and that an end is told from the      *)
(* first plugin on, each once (Telling); BashInv that nobody comes back    *)
(* into a killed group (GroupStaysGone), that what Wait returned is the    *)
(* shell's own end (WaitIsTrue), and what a result stands for.             *)
(*                                                                         *)
(* For any sessions, answers and budgets: ResultsWhole and RequestsWhole.  *)
(* MsgsInv says what the loop's messages are while a batch is open, and    *)
(* CtxInv that a session is headed, accepted, and continues the request    *)
(* that was sent (Session).  A compaction's messages are those of the      *)
(* history from one that is no result on (CompactedGood), behind an anchor *)
(* with the first of what was pinned (CompactedKeeps); so they are among   *)
(* the windows of the loop's model (CompactedShape).                       *)
(***************************************************************************)
EXTENDS TurnMC, FiniteSetTheorems, SequenceTheorems, WellFoundedInduction, TLAPS

Excused ==
  /\ \A i \in Calls : call[i] = "hard" => failed # "none"
  /\ \A i \in Calls : call[i] = "stopped" => CtxDone
  /\ \A i \in Calls : mode = "refused" => call[i] = "ok"
  /\ cut => failed # "none"
  /\ ~HaltRefused => failed # "done"

Narrow ==
  /\ width <= ParallelLimit
  /\ \A i \in Calls : MaxParallel[batch[i]] > 0 => width <= MaxParallel[batch[i]]

Held == IsFiniteSet(Running) /\ Cardinality(Running) <= width

Counted ==
  /\ phase \in {"turn", "call"} => turn = replies
  /\ phase = "batch" => replies = turn + 1
  /\ turn <= MaxTurns /\ (phase \in {"call", "batch"} => turn < MaxTurns)
  /\ phase # "over" => outcome = "none"
  /\ outcome = "max_turns" => replies = MaxTurns

IInv == TypeOK /\ Excused /\ Narrow /\ Held /\ Counted

-----------------------------------------------------------------------------
(* A set of positive numbers has a least one: of the intervals 1..v, with  *)
(* v in the set, one has no strict subset among them.                      *)
LEMMA LeastExists ==
  ASSUME NEW S \in SUBSET (Nat \ {0}), S # {}
  PROVE  \E w \in S : \A v \in S : w <= v
<1> DEFINE T == {1 .. v : v \in S}
<1>1. T \subseteq FiniteSubsetsOf(Nat) /\ T # {}
  <2>1. ASSUME NEW v \in S PROVE 1 .. v \in SUBSET Nat /\ IsFiniteSet(1 .. v)
    BY FS_Interval
  <2> QED  BY <2>1 DEF FiniteSubsetsOf
<1>2. PICK x \in T : \A y \in T : ~(<<y, x>> \in StrictSubsetOrdering(Nat))
  <2>1. IsWellFoundedOn(StrictSubsetOrdering(Nat), FiniteSubsetsOf(Nat))
    BY FS_StrictSubsetOrderingWellFounded
  <2> QED  BY <2>1, <1>1, WFMin
<1>3. PICK w \in S : x = 1 .. w
  OBVIOUS
<1>4. ASSUME NEW v \in S, v < w PROVE FALSE
  <2>1. 1 .. v \subseteq 1 .. w /\ 1 .. v # 1 .. w
    <3>1. w \in 1 .. w /\ w \notin 1 .. v
      BY <1>4
    <3> QED  BY <3>1, <1>4
  <2>2. <<1 .. v, x>> \in StrictSubsetOrdering(Nat)
    BY <2>1, <1>3 DEF StrictSubsetOrdering
  <2> QED  BY <2>2, <1>2
<1> QED  BY <1>4

(* The width of a batch is the least of the limits.                        *)
LEMMA WidthLeast ==
  ASSUME NEW b \in Seq(Tools)
  PROVE  /\ Width(b) \in Nat \ {0}
         /\ Width(b) <= ParallelLimit
         /\ \A i \in 1 .. Len(b) : MaxParallel[b[i]] > 0 => Width(b) <= MaxParallel[b[i]]
<1> DEFINE caps == {ParallelLimit} \cup {MaxParallel[b[i]] : i \in {j \in 1 .. Len(b) : MaxParallel[b[j]] > 0}}
<1>1. \A i \in 1 .. Len(b) : MaxParallel[b[i]] \in Nat
  BY ToolsAssumption DEF ToolsAssumption
<1>2. caps \subseteq Nat \ {0} /\ caps # {}
  BY <1>1, ToolsAssumption DEF ToolsAssumption
<1>3. \E w \in caps : \A v \in caps : w <= v
  BY <1>2, LeastExists
<1>4. Width(b) = CHOOSE w \in caps : \A v \in caps : w <= v
  BY DEF Width
<1> HIDE DEF caps
<1>5. Width(b) \in caps /\ \A v \in caps : Width(b) <= v
  BY <1>3, <1>4
<1> QED  BY <1>5, <1>2 DEF caps

-----------------------------------------------------------------------------
(* The steps of one call.                                                  *)

States == {"waiting", "held", "exec"} \cup Settled

loopVars == <<phase, outcome, msgs, turn, counters, steers, steered, interrupted, replies, lastCut>>

(* Any step that gives call i the slot s: a hard slot has its error, a     *)
(* stopped one a cancelled context, and only a call that takes a slot of   *)
(* the semaphore adds to those that run.                                   *)
LEMMA SlotStep ==
  ASSUME IInv, NEW i \in Calls, NEW s \in States,
         call' = [call EXCEPT ![i] = s],
         UNCHANGED <<runCtx, batch, mode, width, loopVars>>,
         mode # "refused",
         failed' \in {"none", "error", "ctx", "done"}, failed # "none" => failed' # "none",
         ~HaltRefused => failed' # "done",
         cut' \in BOOLEAN, cut => cut', cut' => failed' # "none",
         s = "hard" => failed' # "none",
         s = "stopped" => CtxDone,
         s = "held" => Cardinality(Running) < width,
         s \in {"waiting", "exec"} => i \in Running
  PROVE  IInv'
<1> USE DEF IInv, States, loopVars
<1>1. call \in [Calls -> States] /\ Calls' = Calls /\ batch \in Seq(Tools) /\ width \in Nat
  BY DEF TypeOK, Calls
<1>2. \A j \in Calls : call'[j] = IF j = i THEN s ELSE call[j]
  BY <1>1
<1>3. TypeOK'
  BY <1>1 DEF TypeOK, Calls, counters
<1>4. Excused'
  BY <1>1, <1>2 DEF Excused, CtxDone
<1>5. Narrow'
  BY <1>1 DEF Narrow
<1>6. Held'
  <2>1. Running' \subseteq Running \cup {i} /\ (s \notin {"held", "waiting", "exec"} => Running' \subseteq Running)
    BY <1>1, <1>2 DEF Running, Settled
  <2>2. IsFiniteSet(Running) /\ Cardinality(Running) <= width /\ Cardinality(Running) \in Nat
    BY FS_CardinalityType DEF Held
  <2>3. CASE Running' \subseteq Running
    BY <2>2, <2>3, FS_Subset, FS_CardinalityType DEF Held, TypeOK
  <2>4. CASE s = "held"
    <3>1. IsFiniteSet(Running \cup {i}) /\ Cardinality(Running \cup {i}) <= Cardinality(Running) + 1
      BY <2>2, FS_AddElement
    <3>2. Cardinality(Running) + 1 <= width
      BY <2>2, <2>4, <1>1
    <3>3. IsFiniteSet(Running') /\ Cardinality(Running') <= Cardinality(Running \cup {i})
      BY <3>1, <2>1, FS_Subset
    <3>4. Cardinality(Running') \in Nat /\ Cardinality(Running \cup {i}) \in Nat
      BY <3>1, <3>3, FS_CardinalityType
    <3> QED  BY <3>1, <3>2, <3>3, <3>4, <2>2, <1>1 DEF Held
  <2>5. CASE s \in {"waiting", "exec"}
    BY <2>1, <2>3, <2>5
  <2> QED  BY <2>1, <2>3, <2>4, <2>5
<1>7. Counted'
  BY DEF Counted
<1> QED  BY <1>3, <1>4, <1>5, <1>6, <1>7

LEMMA CallSteps ==
  ASSUME IInv, NEW i \in Calls, Step(i), UNCHANGED loopVars
  PROVE  IInv'
<1> USE DEF States, Settled
<1>1. mode # "refused" /\ call[i] \in {"waiting", "held", "exec"}
  <2>1. call[i] \in {"waiting", "held", "exec"}
    BY DEF Step, Take, GiveUp, Enter, Finish
  <2> QED  BY <2>1 DEF IInv, Excused
<1>2. /\ failed \in {"none", "error", "ctx", "done"} /\ cut \in BOOLEAN
      /\ cut => failed # "none"
      /\ ~HaltRefused => failed # "done"
  BY DEF IInv, TypeOK, Excused
<1>3. CASE Take(i)
  <2>1. /\ call' = [call EXCEPT ![i] = "held"] /\ failed' = failed /\ cut' = cut
        /\ UNCHANGED <<runCtx, batch, mode, width>>
        /\ Cardinality(Running) < width
    BY <1>3 DEF Take, Slot
  <2>2. "held" \in States
    OBVIOUS
  <2> HIDE DEF States, Settled
  <2> QED  BY <1>1, <1>2, <2>1, <2>2, SlotStep
<1>4. CASE GiveUp(i)
  BY <1>1, <1>2, <1>4, SlotStep DEF GiveUp, Slot
<1>5. ASSUME NEW err \in {"error", "ctx", "done"}, HardSlot(i, err), ~HaltRefused => err # "done",
             UNCHANGED <<runCtx, batch, mode, width>>
      PROVE  IInv'
  <2>1. /\ call' = [call EXCEPT ![i] = "hard"] /\ cut' = TRUE
        /\ failed' = IF failed = "none" THEN err ELSE failed
    BY <1>5 DEF HardSlot
  <2>2. /\ failed' \in {"none", "error", "ctx", "done"} /\ failed' # "none"
        /\ ~HaltRefused => failed' # "done"
    BY <2>1, <1>2, <1>5
  <2>3. "hard" \in States
    OBVIOUS
  <2> HIDE DEF States, Settled
  <2> QED  BY <1>1, <1>5, <2>1, <2>2, <2>3, SlotStep
<1>6. CASE Enter(i)
  <2>1. i \in Running
    BY <1>6 DEF Enter, Running
  <2>2. PICK d \in Decisions(batch[i]) :
          \/ d = "error" /\ HardSlot(i, "error")
          \/ d = "allow" /\ Slot(i, "exec")
          \/ d \in {"deny", "halt"} /\ (Denied(i, d) \/ HardSlot(i, "error"))
    BY <1>6 DEF Enter
  <2>3. UNCHANGED <<runCtx, batch, mode, width>>
    BY <1>6 DEF Enter
  <2>4. CASE HardSlot(i, "error")
    BY <2>3, <2>4, <1>5
  <2>5. ASSUME NEW s \in {"ok", "exec", "done"}, Slot(i, s) PROVE IInv'
    BY <1>1, <1>2, <2>1, <2>3, <2>5, SlotStep DEF Slot
  <2>6. CASE d \in {"deny", "halt"} /\ Denied(i, d)
    <3>1. CASE d = "halt" /\ batch[i] \in Refused \cup Unknown
      <4>1. HaltRefused
        BY <3>1 DEF Decisions
      <4>2. HardSlot(i, "done")
        BY <2>6, <3>1 DEF Denied
      <4> QED  BY <4>1, <4>2, <2>3, <1>5
    <3>2. CASE ~(d = "halt" /\ batch[i] \in Refused \cup Unknown)
      BY <2>6, <3>2, <2>5 DEF Denied
    <3> QED  BY <3>1, <3>2
  <2> QED  BY <2>2, <2>4, <2>5, <2>6
<1>7. CASE Finish(i)
  <2>1. UNCHANGED <<runCtx, batch, mode, width>>
    BY <1>7 DEF Finish
  <2>2. CASE HardSlot(i, "ctx") \/ HardSlot(i, "error")
    BY <2>1, <2>2, <1>5
  <2>3. ASSUME NEW s \in {"ok", "done"}, Slot(i, s) PROVE IInv'
    BY <1>1, <1>2, <2>1, <2>3, SlotStep DEF Slot
  <2> QED  BY <1>7, <2>2, <2>3 DEF Finish
<1> QED  BY <1>3, <1>4, <1>6, <1>7 DEF Step

-----------------------------------------------------------------------------
(* The steps of the loop.                                                  *)

BatchInv == Excused /\ Narrow /\ Held

(* A step that leaves the batch alone keeps what is known of it, even as   *)
(* the run's context is cancelled.                                         *)
LEMMA BatchKept ==
  ASSUME BatchInv, UNCHANGED batchVars, runCtx' = runCtx \/ runCtx' = "cancelled"
  PROVE  BatchInv'
<1>1. Calls' = Calls /\ Running' = Running
  BY DEF batchVars, Calls, Running
<1>2. Excused'
  BY <1>1 DEF BatchInv, Excused, CtxDone, batchVars
<1>3. Narrow' /\ Held'
  BY <1>1 DEF BatchInv, Narrow, Held, batchVars
<1> QED  BY <1>2, <1>3 DEF BatchInv

LEMMA BatchCleared ==
  ASSUME ClearBatch
  PROVE  BatchInv' /\ batch' = <<>> /\ Calls' = {} /\ call' = <<>>
<1>1. batch' = <<>> /\ Calls' = {} /\ Running' = {}
  BY DEF ClearBatch, Calls, Running
<1>2. 1 <= ParallelLimit
  BY ToolsAssumption DEF ToolsAssumption
<1>3. Excused' /\ Narrow'
  BY <1>1, <1>2 DEF Excused, Narrow, ClearBatch
<1>4. Held'
  BY <1>1, FS_EmptySet DEF Held, ClearBatch
<1> QED  BY <1>1, <1>3, <1>4 DEF BatchInv, ClearBatch

LEMMA BatchBegun ==
  ASSUME NEW b \in Seq(Tools), NEW malformed \in BOOLEAN, Begin(b, malformed)
  PROVE  /\ BatchInv' /\ batch' = b /\ mode' \in {"refused", "seq", "par"}
         /\ width' \in Nat \ {0} /\ call' \in [Calls' -> {"ok", "waiting"}]
         /\ failed' = "none" /\ cut' = FALSE
<1>1. /\ batch' = b /\ mode' \in {"refused", "seq", "par"}
      /\ call' = [i \in 1 .. Len(b) |-> IF mode' = "refused" THEN "ok" ELSE "waiting"]
      /\ width' = Width(b) /\ failed' = "none" /\ cut' = FALSE
  BY DEF Begin
<1>2. Calls' = 1 .. Len(b) /\ Running' = {}
  BY <1>1 DEF Calls, Running
<1>3. Excused'
  BY <1>1, <1>2 DEF Excused
<1>4. Narrow' /\ width' \in Nat \ {0}
  BY <1>1, <1>2, WidthLeast DEF Narrow
<1>5. Held'
  BY <1>2, <1>4, FS_EmptySet DEF Held
<1> QED  BY <1>1, <1>2, <1>3, <1>4, <1>5 DEF BatchInv

(* The types of the batch's variables, which most steps leave alone.       *)
BatchType ==
  /\ runCtx \in {"live", "cancelled"}
  /\ batch \in Seq(Tools)
  /\ mode \in {"refused", "seq", "par"}
  /\ width \in Nat \ {0}
  /\ call \in [Calls -> States]
  /\ failed \in {"none", "error", "ctx", "done"}
  /\ cut \in BOOLEAN

LoopType ==
  /\ phase \in {"turn", "call", "batch", "over"}
  /\ outcome \in {"none", "completed", "error", "cancelled", "budget", "max_turns",
                  "truncated", "stuck"}
  /\ turn \in Nat /\ truncated \in Nat /\ finishes \in Nat /\ overflows \in Nat
  /\ barren \in Nat /\ steers \in Nat /\ steered \in Nat /\ replies \in Nat /\ lastCut \in Nat
  /\ interrupted \in BOOLEAN

LEMMA Parts == IInv <=> BatchType /\ BatchInv /\ LoopType /\ Counted
BY DEF IInv, TypeOK, BatchType, LoopType, BatchInv, States

LEMMA PartsNext == BatchType' /\ BatchInv' /\ LoopType' /\ Counted' => IInv'
BY DEF IInv, TypeOK, BatchType, LoopType, BatchInv, States

LEMMA TypeKept ==
  ASSUME BatchType, UNCHANGED batchVars, runCtx' \in {"live", "cancelled"}
  PROVE  BatchType'
BY DEF BatchType, batchVars, Calls

LEMMA LoopSteps ==
  ASSUME IInv,
         OutOfTurns \/ Aborted \/ Send \/ Steer \/ Cancel \/ Interrupted \/ Overflow \/ CallFails
  PROVE  IInv'
<1> USE LoopAssumption DEF LoopAssumption
<1>1. BatchType /\ BatchInv /\ LoopType /\ Counted
  BY Parts
<1>2. UNCHANGED batchVars /\ (runCtx' = runCtx \/ runCtx' = "cancelled")
  BY DEF OutOfTurns, Aborted, Send, Steer, Cancel, Interrupted, Overflow, CallFails
<1>3. BatchType' /\ BatchInv'
  <2>1. runCtx' \in {"live", "cancelled"}
    BY <1>1, <1>2 DEF BatchType
  <2> QED  BY <1>1, <1>2, <2>1, BatchKept, TypeKept
<1>4. LoopType' /\ Counted'
  <2> USE <1>1 DEF LoopType, Counted, counters, EndWith, SameTurn
  <2>1. CASE OutOfTurns
    BY <2>1 DEF OutOfTurns
  <2>2. CASE Aborted
    BY <2>2 DEF Aborted
  <2>3. CASE Send
    BY <2>3 DEF Send
  <2>4. CASE Steer
    BY <2>4 DEF Steer
  <2>5. CASE Cancel
    BY <2>5 DEF Cancel
  <2>6. CASE Interrupted
    BY <2>6 DEF Interrupted
  <2>7. CASE Overflow
    BY <2>7 DEF Overflow
  <2>8. CASE CallFails
    BY <2>8 DEF CallFails
  <2> QED  BY <2>1, <2>2, <2>3, <2>4, <2>5, <2>6, <2>7, <2>8
<1> QED  BY <1>3, <1>4, PartsNext

LEMMA ReplySteps ==
  ASSUME IInv, Reply
  PROVE  IInv'
<1> USE LoopAssumption DEF LoopAssumption
<1>1. BatchType /\ BatchInv /\ LoopType /\ Counted
  BY Parts
<1>2. CASE ReplyText
  <2>1. BatchType' /\ BatchInv'
    BY <1>1, <1>2, BatchKept, TypeKept DEF ReplyText, BatchType
  <2>2. LoopType'
    <3>1. /\ phase' \in {"turn", "over"}
          /\ outcome' \in {outcome, "truncated", "error", "completed"}
          /\ turn' \in {turn, turn + 1}
      BY <1>2 DEF ReplyText, EndWith, NextTurn
    <3>2. /\ finishes' \in {finishes, finishes + 1, 0} /\ truncated' \in {truncated, truncated + 1}
          /\ replies' = replies + 1 /\ lastCut' \in {0, lastCut + 1}
          /\ UNCHANGED <<overflows, barren, steers, steered, interrupted>>
      BY <1>2 DEF ReplyText
    <3> QED  BY <1>1, <3>1, <3>2 DEF LoopType
  <2>3. Counted'
    <3>1. /\ phase = "call" /\ replies' = replies + 1
          /\ \/ phase' = "over" /\ outcome' # "max_turns" /\ turn' = turn
             \/ phase' = "turn" /\ outcome' = outcome /\ turn' = turn + 1
      BY <1>2 DEF ReplyText, EndWith, NextTurn
    <3> QED  BY <1>1, <3>1 DEF LoopType, Counted
  <2> QED  BY <2>1, <2>2, <2>3, PartsNext
<1>3. ASSUME NEW b \in Batches, ReplyCut(b) PROVE IInv'
  <2>1. BatchType' /\ BatchInv'
    BY <1>1, <1>3, BatchKept, TypeKept DEF ReplyCut, BatchType
  <2>2. LoopType'
    <3>1. /\ phase' \in {"turn", "over"}
          /\ outcome' \in {outcome, "truncated", "error", "completed"}
          /\ turn' \in {turn, turn + 1}
      BY <1>3 DEF ReplyCut, EndWith, NextTurn
    <3>2. /\ finishes' \in {finishes, finishes + 1, 0} /\ truncated' \in {truncated, truncated + 1}
          /\ replies' = replies + 1 /\ lastCut' \in {0, lastCut + 1}
          /\ UNCHANGED <<overflows, barren, steers, steered, interrupted>>
      BY <1>3 DEF ReplyCut
    <3> QED  BY <1>1, <3>1, <3>2 DEF LoopType
  <2>3. Counted'
    <3>1. /\ phase = "call" /\ replies' = replies + 1
          /\ \/ phase' = "over" /\ outcome' # "max_turns" /\ turn' = turn
             \/ phase' = "turn" /\ outcome' = outcome /\ turn' = turn + 1
      BY <1>3 DEF ReplyCut, EndWith, NextTurn
    <3> QED  BY <1>1, <3>1 DEF LoopType, Counted
  <2> QED  BY <2>1, <2>2, <2>3, PartsNext
<1>4. ASSUME NEW b \in Batches, NEW malformed \in BOOLEAN, ReplyCalls(b, malformed) PROVE IInv'
  <2>1. b \in Seq(Tools) /\ Begin(b, malformed)
    BY <1>4 DEF ReplyCalls
  <2>2. BatchInv' /\ BatchType'
    <3>1. runCtx' = runCtx /\ runCtx \in {"live", "cancelled"}
      BY <1>4, <1>1 DEF ReplyCalls, BatchType
    <3>2. \A f : f \in [Calls' -> {"ok", "waiting"}] => f \in [Calls' -> States]
      BY DEF States, Settled
    <3> QED  BY <2>1, <3>1, <3>2, BatchBegun DEF BatchType
  <2>3. LoopType'
    BY <1>1, <1>4 DEF ReplyCalls, LoopType
  <2>4. Counted'
    BY <1>1, <1>4 DEF ReplyCalls, LoopType, Counted
  <2> QED  BY <2>2, <2>3, <2>4, PartsNext
<1> QED  BY <1>2, <1>3, <1>4 DEF Reply

LEMMA AfterBatchSteps ==
  ASSUME IInv, AfterBatch
  PROVE  IInv'
<1>1. BatchType /\ BatchInv /\ LoopType /\ Counted
  BY Parts
<1>2. ClearBatch /\ runCtx' = runCtx /\ phase = "batch"
  BY DEF AfterBatch, BatchDone, BatchFails, BatchSucceeds, BatchEnds
<1>3. BatchType' /\ BatchInv'
  <2>1. BatchInv' /\ batch' = <<>> /\ Calls' = {} /\ call' = <<>>
    BY <1>2, BatchCleared
  <2>2. mode' = "refused" /\ width' = 1 /\ failed' = "none" /\ cut' = FALSE
    BY <1>2 DEF ClearBatch
  <2>3. call' \in [Calls' -> States]
    BY <2>1
  <2>4. runCtx' \in {"live", "cancelled"}
    BY <1>1, <1>2 DEF BatchType
  <2>5. batch' \in Seq(Tools)
    BY <2>1
  <2>6. width' \in Nat \ {0}
    BY <2>2
  <2>7. cut' \in BOOLEAN
    BY <2>2, Zenon
  <2>8. mode' \in {"refused", "seq", "par"} /\ failed' \in {"none", "error", "ctx", "done"}
    BY <2>2
  <2> QED  BY <2>1, <2>3, <2>4, <2>5, <2>6, <2>7, <2>8 DEF BatchType
<1>4. LoopType' /\ Counted'
  <2>1. CASE BatchDone
    BY <1>1, <1>2, <2>1 DEF BatchDone, LoopType, Counted, counters, EndWith
  <2>2. CASE BatchFails
    BY <1>1, <1>2, <2>2 DEF BatchFails, LoopType, Counted, counters, EndWith
  <2>3. CASE BatchSucceeds
    <3>1. barren' = 0 \/ barren' = barren + 1
      BY <2>3 DEF BatchSucceeds
    <3>2. \/ EndWith("stuck") /\ UNCHANGED steers
          \/ EndWith("error") /\ UNCHANGED steers
          \/ steers' = 0 /\ NextTurn
      BY <2>3 DEF BatchSucceeds
    <3>3. UNCHANGED <<truncated, finishes, overflows, steered, interrupted, replies, lastCut>>
      BY <2>3 DEF BatchSucceeds
    <3>4. LoopType'
      BY <1>1, <3>1, <3>2, <3>3 DEF LoopType, EndWith, NextTurn
    <3>5. Counted'
      BY <1>1, <1>2, <3>2, <3>3, LoopAssumption
         DEF LoopType, Counted, EndWith, NextTurn, LoopAssumption
    <3> QED  BY <3>4, <3>5
  <2> QED  BY <2>1, <2>2, <2>3 DEF AfterBatch
<1> QED  BY <1>3, <1>4, PartsNext

-----------------------------------------------------------------------------
LEMMA InitIInv == Init => IInv
<1> SUFFICES ASSUME Init PROVE IInv
  OBVIOUS
<1>1. /\ batch = <<>> /\ call = <<>> /\ mode = "refused" /\ width = 1
      /\ failed = "none" /\ cut = FALSE /\ runCtx = "live"
  BY DEF Init, IdleBatch
<1>2. Calls = {} /\ Running = {}
  BY <1>1 DEF Calls, Running
<1>3. BatchType
  <2>1. batch \in Seq(Tools) /\ call \in [Calls -> States]
    BY <1>1, <1>2
  <2>2. width \in Nat \ {0}
    BY <1>1
  <2>3. cut \in BOOLEAN
    BY <1>1, Zenon
  <2>4. /\ runCtx \in {"live", "cancelled"} /\ mode \in {"refused", "seq", "par"}
        /\ failed \in {"none", "error", "ctx", "done"}
    BY <1>1
  <2> QED  BY <2>1, <2>2, <2>3, <2>4 DEF BatchType
<1>4. BatchInv
  BY <1>1, <1>2, FS_EmptySet, ToolsAssumption
     DEF BatchInv, Excused, Narrow, Held, ToolsAssumption
<1>5. LoopType
  BY DEF Init, LoopType
<1>6. Counted
  BY LoopAssumption DEF Init, Counted, LoopAssumption
<1> QED  BY <1>3, <1>4, <1>5, <1>6, Parts

(* Every step of the loop and of a batch keeps the invariant.              *)
LEMMA LoopKept == ASSUME IInv, [Next]_vars PROVE IInv'
<1>1. CASE OutOfTurns \/ Aborted \/ Send \/ Steer \/ Cancel \/ Interrupted \/ Overflow \/ CallFails
  BY <1>1, LoopSteps
<1>2. CASE Reply
  BY <1>2, ReplySteps
<1>3. CASE ToolStep
  <2>1. PICK i \in Calls : Step(i)
    BY <1>3 DEF ToolStep
  <2>2. UNCHANGED loopVars
    BY <1>3 DEF ToolStep, loopVars, counters
  <2> QED  BY <2>1, <2>2, CallSteps
<1>4. CASE AfterBatch
  BY <1>4, AfterBatchSteps
<1>5. CASE UNCHANGED vars
  <2>1. UNCHANGED batchVars /\ runCtx' = runCtx
    BY <1>5 DEF vars
  <2>2. BatchType' /\ BatchInv'
    BY <2>1, Parts, BatchKept, TypeKept DEF BatchType
  <2>3. LoopType' /\ Counted'
    BY <1>5, Parts DEF vars, counters, LoopType, Counted
  <2> QED  BY <2>2, <2>3, PartsNext
<1> QED  BY <1>1, <1>2, <1>3, <1>4, <1>5 DEF Next

(* The invariant of the loop and its batches holds in every state it       *)
(* reaches.                                                                *)
THEOREM Inductive == Spec => []IInv
<1>1. Init => IInv
  BY InitIInv
<1>2. IInv /\ [Next]_vars => IInv'
  BY LoopKept
<1> QED  BY <1>1, <1>2, PTL DEF Spec

(* What a call without a result stands for, at the end of a batch that     *)
(* reports no failure.                                                     *)
LEMMA DroppedNothing ==
  ASSUME HaltRefused = FALSE, IInv
  PROVE  NothingDropped
<1> SUFFICES ASSUME BatchOver, BatchError \in {"none", "done"}, NEW i \in Calls
             PROVE  call[i] \in {"ok", "done"}
  BY DEF NothingDropped, BatchEnds
<1>1. failed = "none"
  <2>1. failed # "done"
    BY DEF IInv, Excused
  <2> QED  BY <2>1 DEF BatchError, IInv, TypeOK
<1>2. /\ ~(mode = "par" /\ runCtx = "cancelled")
      /\ ~(mode = "seq" /\ \E j \in Calls : call[j] = "stopped")
  BY <1>1 DEF BatchError
<1>3. \A j \in Calls : call[j] # "hard"
  BY <1>1 DEF IInv, Excused
<1>4. \A j \in Calls : call[j] # "stopped"
  BY <1>1, <1>2 DEF IInv, Excused, CtxDone, TypeOK
<1> QED  BY <1>3, <1>4 DEF BatchOver, Settled

(* As long as no hook halts a refused call, a batch that reports no        *)
(* failure has a result for every call: whatever the tools, the limits and *)
(* the order in which calls end, fail and are cancelled.                   *)
THEOREM NothingIsDropped ==
  ASSUME HaltRefused = FALSE
  PROVE  Spec => []NothingDropped
<1>1. IInv => NothingDropped
  BY DroppedNothing
<1> QED  BY <1>1, Inductive, PTL

(* No more calls of a batch run at a time than policy and than any of      *)
(* their tools allows.                                                     *)
THEOREM AlwaysWithinLimits == Spec => []WithinLimits
<1>1. IInv => WithinLimits
  <2> SUFFICES ASSUME IInv, NEW i \in Running
               PROVE  LET own == MaxParallel[batch[i]]
                      IN  Cardinality(Running) <= IF own > 0 /\ own < ParallelLimit
                                                  THEN own ELSE ParallelLimit
    BY DEF WithinLimits
  <2>1. i \in Calls /\ MaxParallel[batch[i]] \in Nat
    BY ToolsAssumption DEF Running, ToolsAssumption, IInv, TypeOK, Calls
  <2>2. Cardinality(Running) \in Nat /\ Cardinality(Running) <= width
    BY FS_CardinalityType DEF IInv, Held
  <2>3. width <= ParallelLimit /\ (MaxParallel[batch[i]] > 0 => width <= MaxParallel[batch[i]])
    BY <2>1 DEF IInv, Narrow
  <2>4. width \in Nat /\ ParallelLimit \in Nat
    BY ToolsAssumption DEF ToolsAssumption, IInv, TypeOK
  <2> QED  BY <2>1, <2>2, <2>3, <2>4
<1> QED  BY <1>1, Inductive, PTL

(* The turns used up are the answers the model gave, for any number of     *)
(* turns, interruptions and rejected calls.                                *)
THEOREM AlwaysTurnsAreReplies == Spec => []TurnsAreReplies
<1>1. IInv => TurnsAreReplies
  BY DEF IInv, Counted, TurnsAreReplies
<1> QED  BY <1>1, Inductive, PTL

(***************************************************************************)
(* Bash                                                                    *)
(***************************************************************************)

BashTypes ==
    /\ pc \in {"check", "wait", "killed", "done"} /\ ctx \in {"live", "cancelled", "late"}
    /\ timer \in BOOLEAN /\ shell \in {"none", "running", "ok", "failed", "killed"}
    /\ kids \in [Kids -> {"none", "group", "left", "gone"}]
    /\ waited \in {"", "ok", "failed", "delay"}
    /\ result \in {"", "ok", "failed", "timeout", "cancelled", "error"}

(* Once the group was killed, no process is left that could put another in *)
(* it.                                                                     *)
GroupStaysGone ==
    /\ pc = "check" => shell = "none" /\ waited = "" /\ \A k \in Kids : kids[k] = "none"
    /\ pc \in {"killed", "done"} => shell # "running" /\ \A k \in Kids : kids[k] # "group"

(* What Wait returned is the shell's own end, unless the group was killed; *)
(* it was killed for a reason.                                             *)
WaitIsTrue ==
    /\ shell = "killed" => pc \in {"killed", "done"}
    /\ waited # "" => shell \notin {"none", "running"}
    /\ waited \in {"ok", "delay"} => shell = "ok"
    /\ waited = "failed" => shell \in {"failed", "killed"}
    /\ pc = "killed" => timer \/ ctx # "live"
    /\ pc # "done" => result = ""

BashInv == BashTypes /\ GroupStaysGone /\ WaitIsTrue /\ B!ResultIsTrue

LEMMA BashInit == ASSUME B!Init PROVE BashInv
BY DEF B!Init, BashInv, BashTypes, GroupStaysGone, WaitIsTrue, B!ResultIsTrue

(* Kill leaves nobody in the group.                                        *)
LEMMA KillEnds ==
    ASSUME BashTypes, B!Kill
    PROVE  /\ kids' \in [Kids -> {"none", "group", "left", "gone"}] /\ \A k \in Kids : kids'[k] # "group"
           /\ shell' = IF shell = "running" THEN "killed" ELSE shell
BY DEF BashTypes, B!Kill, B!KillGroup

LEMMA BashStep == ASSUME BashInv, [B!Next]_(B!vars) PROVE BashInv'
<1>1. CASE UNCHANGED B!vars
  <2>1. BashTypes' /\ GroupStaysGone'
    BY ZenonT(40), <1>1 DEF B!vars, BashInv, BashTypes, GroupStaysGone
  <2>2. WaitIsTrue' /\ B!ResultIsTrue'
    BY <1>1 DEF B!vars, BashInv, WaitIsTrue, B!ResultIsTrue
  <2>3. QED
    BY <2>1, <2>2 DEF BashInv
<1>2. CASE B!Refuse \/ B!Start \/ B!Expire \/ B!Caller \/ B!ShellExits
  <2>1. CASE B!Refuse
    BY <2>1 DEF B!Refuse, BashInv, BashTypes, GroupStaysGone, WaitIsTrue, B!ResultIsTrue
  <2>2. CASE B!Start
    BY <2>2 DEF B!Start, BashInv, BashTypes, GroupStaysGone, WaitIsTrue, B!ResultIsTrue
  <2>3. CASE B!Expire
    BY <2>3 DEF B!Expire, BashInv, BashTypes, GroupStaysGone, WaitIsTrue, B!ResultIsTrue
  <2>4. CASE B!Caller
    BY <2>4 DEF B!Caller, BashInv, BashTypes, GroupStaysGone, WaitIsTrue, B!ResultIsTrue
  <2>5. CASE B!ShellExits
    BY <2>5 DEF B!ShellExits, BashInv, BashTypes, GroupStaysGone, WaitIsTrue, B!ResultIsTrue
  <2>6. QED
    BY <1>2, <2>1, <2>2, <2>3, <2>4, <2>5
<1>3. ASSUME NEW k \in Kids, B!Fork(k) PROVE BashInv'
  <2>1. PICK where \in {"group", "left"} :
          /\ where = "left" \/ shell = "running" \/ \E j \in Kids : kids[j] = "group"
          /\ kids' = [kids EXCEPT ![k] = where]
    BY <1>3 DEF B!Fork
  <2>2. /\ kids' \in [Kids -> {"none", "group", "left", "gone"}]
        /\ kids'[k] = where /\ \A j \in Kids \ {k} : kids'[j] = kids[j]
    BY <2>1 DEF BashInv, BashTypes
  <2>3. pc # "check"
    BY <1>3 DEF B!Fork, B!Alive, BashInv, GroupStaysGone
  <2>4. GroupStaysGone'
    BY <1>3, <2>1, <2>2, <2>3 DEF B!Fork, BashInv, GroupStaysGone
  <2>5. BashTypes'
    BY ZenonT(40), <1>3, <2>2 DEF B!Fork, BashInv, BashTypes
  <2>6. WaitIsTrue' /\ B!ResultIsTrue'
    BY <1>3 DEF B!Fork, BashInv, WaitIsTrue, B!ResultIsTrue
  <2>7. QED
    BY <2>4, <2>5, <2>6 DEF BashInv
<1>4. ASSUME NEW k \in Kids, B!KidExits(k) PROVE BashInv'
  <2>1. /\ kids' \in [Kids -> {"none", "group", "left", "gone"}]
        /\ kids'[k] = "gone" /\ \A j \in Kids \ {k} : kids'[j] = kids[j]
    BY <1>4 DEF B!KidExits, BashInv, BashTypes
  <2>2. pc # "check"
    BY <1>4 DEF B!KidExits, B!Alive, BashInv, GroupStaysGone
  <2>3. GroupStaysGone'
    BY <1>4, <2>1, <2>2 DEF B!KidExits, BashInv, GroupStaysGone
  <2>4. BashTypes'
    BY ZenonT(40), <1>4, <2>1 DEF B!KidExits, BashInv, BashTypes
  <2>5. WaitIsTrue' /\ B!ResultIsTrue'
    BY <1>4 DEF B!KidExits, BashInv, WaitIsTrue, B!ResultIsTrue
  <2>6. QED
    BY <2>3, <2>4, <2>5 DEF BashInv
<1>5. CASE B!Done
  <2>1. /\ kids' \in [Kids -> {"none", "group", "left", "gone"}] /\ \A k \in Kids : kids'[k] # "group"
        /\ shell' = shell /\ shell \in {"ok", "failed"} /\ pc = "wait" /\ waited # ""
        /\ ctx' = ctx /\ timer' = timer /\ waited' = waited
    BY <1>5, KillEnds DEF B!Done, BashInv, BashTypes, WaitIsTrue
  <2>2. pc' = "done" /\ result' \in {"ok", "failed", "timeout", "cancelled"} /\ B!ResultIsTrue'
    <3>1. B!Answer(B!Exited(waited))
      BY <1>5 DEF B!Done
    <3>2. CASE shell = "ok"
      BY <2>1, <3>1, <3>2 DEF B!Answer, B!Exited, BashInv, BashTypes, WaitIsTrue, B!ResultIsTrue
    <3>3. CASE shell = "failed"
      BY <2>1, <3>1, <3>3 DEF B!Answer, B!Exited, B!ErrorName, BashInv, BashTypes, WaitIsTrue, B!ResultIsTrue
    <3>4. QED
      BY <2>1, <3>2, <3>3
  <2>3. QED
    BY <2>1, <2>2 DEF BashInv, BashTypes, GroupStaysGone, WaitIsTrue
<1>6. CASE B!Interrupt
  <2>1. /\ kids' \in [Kids -> {"none", "group", "left", "gone"}] /\ \A k \in Kids : kids'[k] # "group"
        /\ shell' = IF shell = "running" THEN "killed" ELSE shell
    BY <1>6, KillEnds DEF B!Interrupt, BashInv
  <2>2. QED
    BY <1>6, <2>1 DEF B!Interrupt, B!Interrupted, BashInv, BashTypes, GroupStaysGone, WaitIsTrue, B!ResultIsTrue
<1>7. CASE B!Killed
  <2>1. /\ pc = "killed" /\ (timer \/ ctx # "live") /\ pc' = "done" /\ kids' = kids /\ shell' = shell
        /\ ctx' = ctx /\ timer' = timer /\ waited' = waited
        /\ \E err \in {"ok", "failed", "delay", "grace"} :
             B!Answer(err) /\ (err = "ok" => waited = "ok")
    BY <1>7 DEF B!Killed, B!Answer, BashInv, BashTypes, WaitIsTrue
  <2>2. PICK err \in {"ok", "failed", "delay", "grace"} : B!Answer(err) /\ (err = "ok" => waited = "ok")
    BY <2>1
  <2>3. result' \in {"ok", "failed", "timeout", "cancelled"} /\ B!ResultIsTrue'
    BY <2>1, <2>2 DEF B!Answer, B!ErrorName, BashInv, BashTypes, WaitIsTrue, B!ResultIsTrue
  <2>4. QED
    BY <2>1, <2>3 DEF BashInv, BashTypes, GroupStaysGone, WaitIsTrue
<1>8. CASE B!Wait
  <2>1. waited' \in {"ok", "failed", "delay"} /\ (waited' \in {"ok", "delay"} <=> shell = "ok")
    BY <1>8 DEF B!Wait
  <2>2. QED
    BY <1>8, <2>1 DEF B!Wait, BashInv, BashTypes, GroupStaysGone, WaitIsTrue, B!ResultIsTrue
<1>9. QED
  BY <1>1, <1>2, <1>3, <1>4, <1>5, <1>6, <1>7, <1>8 DEF B!Next, B!Step

(***************************************************************************)
(* Hooks                                                                   *)
(***************************************************************************)

EventName == HookEvents \cup {""}

Said == [blocked : BOOLEAN, halt : BOOLEAN, rewrite : BOOLEAN, context : BOOLEAN]
HookCalls == [args : Nat, denied : BOOLEAN, halt : BOOLEAN, failed : BOOLEAN, ran : BOOLEAN]
Hearings == [refused : BOOLEAN, gateSaw : Nat, lost : BOOLEAN, silent : BOOLEAN]

HookTypes ==
    /\ hookCtx \in {"live", "cancelled"}
    /\ stage \in {"submit", "model", "pre", "gate", "exec", "post", "finish", "stop", "ended"}
    /\ plugin \in Nat \ {0} /\ command \in Nat
    /\ out \in Said
    /\ hookCall \in HookCalls
    /\ goOn \in BOOLEAN /\ continued \in Nat
    /\ ended \in {"", "refused", "done", "cancelled", "failed", "answered"}
    /\ heard \in Hearings
    /\ told \in [DOMAIN Plugins -> Nat]

(* What a command said against a call is in the call, or still in what its *)
(* plugin has said; and a call that runs has the arguments the gate saw.   *)
Guarded ==
    /\ heard.refused \/ heard.silent => hookCall.denied \/ (stage = "pre" /\ out.blocked)
    /\ stage \in {"pre", "gate", "exec"} => ~hookCall.ran
    /\ hookCall.ran => ~hookCall.denied
    /\ stage = "exec" \/ hookCall.ran => heard.gateSaw = hookCall.args

(* Who hears of an end: plugin p of one of the events in of; and whether   *)
(* its turn has come.                                                      *)
Ends == {"Stop", "StopFailure"}
Hears(p, of) == Plugins[p].events \cap of # {}
Turned(p) == p < plugin \/ (p = plugin /\ command > 0)

(* Who was told so far, and in the end.                                    *)
Chain(of) == \A p \in DOMAIN Plugins : told[p] = IF Hears(p, of) /\ Turned(p) THEN 1 ELSE 0
All(of) == \A p \in DOMAIN Plugins : told[p] = IF Hears(p, of) THEN 1 ELSE 0

(* The chain of an end begins with the first plugin, and tells each once.  *)
Telling ==
    /\ stage \in {"model", "gate", "exec"} => plugin = 1 /\ command = 0
    /\ stage \notin {"stop", "ended"} => ended = ""
    /\ hookCtx = "live" =>
        /\ stage = "finish" /\ ~H!Capped => Chain({"Stop"})
        /\ stage = "stop" /\ ended = "failed" => Chain(Ends)
        /\ stage \in {"stop", "ended"} /\ ended = "answered" /\ ~H!Capped => All({"Stop"})
        /\ stage = "ended" /\ ended = "failed" => All(Ends)

HookInv == HookTypes /\ Guarded /\ Telling

LEMMA PluginsKnown ==
    ASSUME NEW p \in DOMAIN Plugins
    PROVE  /\ Plugins[p].events \subseteq HookEvents /\ Plugins[p].commands \in Nat \ {0}
           /\ Plugins[p].failClosed \in BOOLEAN
           /\ DOMAIN Plugins = 1..Len(Plugins) /\ Len(Plugins) \in Nat
<1> DEFINE R == [events : SUBSET HookEvents, commands : Nat \ {0}, failClosed : BOOLEAN]
<1>1. Plugins \in Seq(R)
  BY PluginsAssumption
<1> HIDE DEF R
<1>2. Plugins[p] \in R /\ DOMAIN Plugins = 1..Len(Plugins) /\ Len(Plugins) \in Nat
  BY <1>1
<1>3. QED
  BY <1>2 DEF R

LEMMA HooksInit == ASSUME H!Init PROVE HookInv
<1>1. HookTypes
  <2>1. H!Nothing \in Said
    BY DEF H!Nothing, Said
  <2>2. H!NoCall \in HookCalls
    BY DEF H!NoCall, HookCalls
  <2>3. H!Unheard \in Hearings
    BY DEF H!Unheard, Hearings
  <2>4. H!Untold \in [DOMAIN Plugins -> Nat]
    BY DEF H!Untold
  <2>5. /\ hookCtx = "live" /\ stage = "submit" /\ plugin = 1 /\ command = 0
        /\ out = H!Nothing /\ hookCall = H!NoCall /\ goOn = FALSE /\ continued = 0
        /\ ended = "" /\ heard = H!Unheard /\ told = H!Untold
    BY DEF H!Init
  <2>6. out \in Said /\ hookCall \in HookCalls /\ heard \in Hearings /\ told \in [DOMAIN Plugins -> Nat]
    BY <2>1, <2>2, <2>3, <2>4, <2>5
  <2>7. plugin \in Nat \ {0} /\ command \in Nat /\ continued \in Nat
    <3>1. plugin = 1 /\ command = 0 /\ continued = 0
      BY <2>5
    <3>2. QED
      BY <3>1
  <2>8. QED
    BY <2>5, <2>6, <2>7 DEF HookTypes
<1>2. Guarded /\ Telling
  BY DEF H!Init, H!NoCall, H!Unheard, Guarded, Telling
<1>3. QED
  BY <1>1, <1>2 DEF HookInv

(* The event of a plugin in each stage, as far as the ends go.             *)
LEMMA EventIs ==
    ASSUME HookTypes, NEW p \in DOMAIN Plugins
    PROVE  /\ H!Event(p) \in EventName
           /\ stage \in {"submit", "pre", "post"} => H!Event(p) \notin Ends
           /\ stage = "finish" => (H!Event(p) # "" <=> Hears(p, {"Stop"}))
                                  /\ (H!Event(p) # "" => H!Event(p) \in Ends)
           /\ stage = "stop" /\ ended = "failed" =>
                (H!Event(p) # "" <=> Hears(p, Ends)) /\ (H!Event(p) # "" => H!Event(p) \in Ends)
           /\ stage = "stop" /\ ended # "failed" => H!Event(p) = ""
<1>1. Plugins[p].events \subseteq HookEvents
  BY PluginsKnown
<1>2. "" \notin HookEvents
  BY DEF HookEvents
<1>3. CASE stage = "submit"
  BY <1>1, <1>3 DEF H!Event, EventName, HookEvents, Ends
<1>4. CASE stage = "pre"
  BY <1>1, <1>4 DEF H!Event, EventName, HookEvents, Ends
<1>5. CASE stage = "post"
  BY <1>1, <1>5 DEF H!Event, H!PostEvent, EventName, HookEvents, Ends
<1>6. CASE stage = "finish"
  BY <1>1, <1>6 DEF H!Event, EventName, HookEvents, Ends, Hears
<1>7. CASE stage = "stop" /\ ended = "failed"
  BY <1>1, <1>7 DEF H!Event, H!Failed, H!FailureEvent, EventName, HookEvents, Ends, Hears
<1>8. CASE stage = "stop" /\ ended # "failed"
  BY <1>1, <1>2, <1>8 DEF H!Event, H!Failed, EventName
<1>9. CASE stage \in {"model", "gate", "exec", "ended"}
  BY <1>1, <1>2, <1>9 DEF H!Event, EventName
<1>10. QED
  BY <1>3, <1>4, <1>5, <1>6, <1>7, <1>8, <1>9 DEF HookTypes

(* What a step leaves alone.                                               *)
LEMMA HookTypesStep == ASSUME HookTypes, [H!Next]_(H!vars) PROVE HookTypes'
<1>1. H!Nothing \in Said /\ H!NoCall \in HookCalls /\ H!Unheard \in Hearings
      /\ H!Untold \in [DOMAIN Plugins -> Nat]
  BY DEF H!Nothing, H!NoCall, H!Unheard, H!Untold, Said, HookCalls, Hearings
<1>2. /\ out \in Said /\ hookCall \in HookCalls /\ heard \in Hearings /\ told \in [DOMAIN Plugins -> Nat]
      /\ plugin \in Nat \ {0} /\ command \in Nat /\ continued \in Nat /\ goOn \in BOOLEAN
  BY DEF HookTypes
<1>3. H!NextPlugin => plugin' \in Nat \ {0} /\ command' \in Nat /\ out' \in Said
  BY <1>1, <1>2 DEF H!NextPlugin
<1>4. CASE UNCHANGED H!vars
  BY <1>4 DEF H!vars, HookTypes
<1>5. CASE H!Command
  <2>1. PICK says \in H!Results :
          /\ out' = H!Heard(out, says, plugin)
          /\ heard' = IF stage # "pre" THEN heard
                      ELSE [heard EXCEPT !.refused = @ \/ says \in {"deny", "halt", "both"},
                                         !.silent = @ \/ (says \in {"silent", "late"} /\ Plugins[plugin].failClosed)]
    BY <1>5 DEF H!Command
  <2>2. out' \in Said
    BY <1>2, <2>1 DEF H!Heard, H!Blocks, Said
  <2>3. heard' \in Hearings
    BY <1>2, <2>1 DEF Hearings
  <2>4. told' \in [DOMAIN Plugins -> Nat] /\ command' \in Nat
    BY <1>2, <1>5 DEF H!Command, H!InChain
    <2>5. QED
    BY <1>5, <2>2, <2>3, <2>4 DEF H!Command, HookTypes
<1>6. CASE H!Killed
  <2>1. heard' \in Hearings
    <3>1. PICK b \in BOOLEAN : heard' = [heard EXCEPT !.lost = b]
      BY <1>2, <1>6 DEF H!Killed, Hearings
    <3>2. QED
      BY <1>2, <3>1 DEF Hearings
  <2>2. QED
    <3>1. command' \in Nat
      BY <1>2, <1>6 DEF H!Killed
    <3>2. QED
      BY <1>6, <2>1, <3>1 DEF H!Killed, HookTypes
<1>7. CASE H!Submitted
  BY <1>3, <1>7 DEF H!Submitted, H!Then, HookTypes
<1>8. CASE H!PreTool
  <2>1. hookCall' \in HookCalls
    BY <1>2, <1>8 DEF H!PreTool, H!Folded, HookCalls
  <2>2. stage' \in {"pre", "gate", "exec"}
    BY <1>8 DEF H!PreTool, H!Then, H!After, H!Order
  <2>3. QED
    BY <1>3, <1>8, <2>1, <2>2 DEF H!PreTool, HookTypes
<1>9. CASE H!Gate
  <2>1. hookCall' \in HookCalls /\ heard' \in Hearings
    BY <1>2, <1>9 DEF H!Gate, HookCalls, Hearings
  <2>2. stage' \in {"gate", "exec"}
    BY <1>9 DEF H!Gate, H!After, H!Order
  <2>3. QED
    BY <1>9, <2>1, <2>2 DEF H!Gate, HookTypes
<1>10. CASE H!Exec
  <2>1. hookCall' \in HookCalls
    BY <1>2, <1>10 DEF H!Exec, HookCalls
  <2>2. QED
    BY <1>10, <2>1 DEF H!Exec, HookTypes
<1>11. CASE H!PostTool
  BY <1>3, <1>11 DEF H!PostTool, HookTypes
<1>12. CASE H!Model
  <2>1. /\ hookCall' \in HookCalls /\ heard' \in Hearings /\ continued' \in Nat
        /\ stage' \in {"stop", "pre", "gate", "finish"} /\ ended' \in {ended, "cancelled", "failed"}
    BY <1>1, <1>2, <1>12 DEF H!Model, H!Order
  <2>2. QED
    BY <1>1, <1>12, <2>1 DEF H!Model, HookTypes
<1>13. CASE H!Finish
  <2>1. /\ plugin' \in Nat \ {0} /\ command' \in Nat /\ out' \in Said
        /\ goOn' \in BOOLEAN /\ continued' \in Nat
        /\ stage' \in {"stop", "model", "finish"} /\ ended' \in {ended, "answered"}
    <3>1. CASE H!Capped /\ stage' = "stop" /\ ended' = "answered"
                 /\ UNCHANGED <<plugin, command, out, goOn, continued>>
      BY <1>2, <3>1
    <3>2. CASE /\ H!NextPlugin
               /\ LET more == goOn \/ out.blocked \/ out.context
                  IN  /\ goOn' = more
                      /\ stage' = H!Then(IF more THEN "model" ELSE "stop")
                      /\ ended' = IF plugin = Len(Plugins) /\ ~more THEN "answered" ELSE ended
                      /\ continued' = IF plugin = Len(Plugins) /\ more /\ continued < MaxContinuations
                                      THEN continued + 1 ELSE continued
      <4>1. /\ stage' \in {"stop", "model", "finish"} /\ ended' \in {ended, "answered"}
            /\ continued' \in Nat
        BY <1>2, <1>13, <3>2 DEF H!Then, H!Finish
      <4>2. goOn' \in BOOLEAN
        BY <3>2
      <4>3. QED
        BY <1>3, <3>2, <4>1, <4>2
    <3>3. QED
      BY <1>13, <3>1, <3>2 DEF H!Finish
  <2>2. QED
    BY <1>13, <2>1 DEF H!Finish, HookTypes
<1>14. CASE H!Stop
  BY <1>3, <1>14 DEF H!Stop, H!Then, HookTypes
<1>15. CASE H!Cancel
  BY <1>15 DEF H!Cancel, HookTypes
<1>16. QED
  BY <1>4, <1>5, <1>6, <1>7, <1>8, <1>9, <1>10, <1>11, <1>12, <1>13, <1>14, <1>15 DEF H!Next, H!Step

(* What a command says against a call is heard: in what the plugin has     *)
(* said, then in the call.                                                 *)
LEMMA GuardedStep == ASSUME HookTypes, Guarded, [H!Next]_(H!vars) PROVE Guarded'
<1>1. /\ out \in Said
      /\ hookCall \in HookCalls
      /\ heard \in Hearings
  BY DEF HookTypes
<1> USE DEF Said, HookCalls, Hearings
<1>2. CASE UNCHANGED H!vars
  BY <1>2 DEF H!vars, Guarded
<1>3. CASE H!Command
  <2>1. PICK says \in H!Results :
          /\ out' = H!Heard(out, says, plugin)
          /\ heard' = IF stage # "pre" THEN heard
                      ELSE [heard EXCEPT !.refused = @ \/ says \in {"deny", "halt", "both"},
                                         !.silent = @ \/ (says \in {"silent", "late"} /\ Plugins[plugin].failClosed)]
    BY <1>3 DEF H!Command
  <2>2. out'.blocked <=> out.blocked \/ H!Blocks(says, plugin)
    BY <2>1 DEF H!Heard
  <2>3. CASE stage = "pre"
    <3>1. /\ heard'.gateSaw = heard.gateSaw
          /\ heard'.refused => heard.refused \/ H!Blocks(says, plugin)
          /\ heard'.silent => heard.silent \/ H!Blocks(says, plugin)
      BY <1>1, <2>1, <2>3 DEF H!Blocks
    <3>2. QED
      BY <1>3, <2>2, <2>3, <3>1 DEF H!Command, Guarded
  <2>4. CASE stage # "pre"
    BY <1>3, <2>1, <2>4 DEF H!Command, Guarded
  <2>5. QED
    BY <2>3, <2>4
<1>4. CASE H!Killed
  <2>1. heard'.refused = heard.refused /\ heard'.silent = heard.silent /\ heard'.gateSaw = heard.gateSaw
    BY <1>1, <1>4 DEF H!Killed
  <2>2. QED
    BY <1>4, <2>1 DEF H!Killed, Guarded
<1>5. CASE H!PreTool
  <2>1. /\ hookCall'.denied = (hookCall.denied \/ out.blocked) /\ hookCall'.ran = hookCall.ran
        /\ stage = "pre" /\ stage' \in {"pre", "gate"} /\ heard' = heard
    BY <1>1, <1>5 DEF H!PreTool, H!Folded, H!Then, H!After, H!Order
  <2>2. QED
    BY <2>1 DEF Guarded
<1>6. CASE H!Gate
  <2>1. /\ heard'.refused = heard.refused /\ heard'.silent = heard.silent /\ heard'.gateSaw = hookCall.args
        /\ hookCall'.args = hookCall.args /\ hookCall'.ran = hookCall.ran
        /\ hookCall.denied => hookCall'.denied
        /\ stage = "gate" /\ stage' = "exec"
    BY <1>1, <1>6 DEF H!Gate, H!After, H!Order
  <2>2. QED
    BY <2>1 DEF Guarded
<1>7. CASE H!Exec
  <2>1. CASE hookCall.denied
    BY <1>7, <2>1 DEF H!Exec, Guarded
  <2>2. CASE ~hookCall.denied
    <3>1. /\ hookCall'.args = hookCall.args /\ hookCall'.denied = hookCall.denied
          /\ heard' = heard /\ stage = "exec" /\ stage' \in {"post", "stop"}
      BY <1>1, <1>7, <2>2 DEF H!Exec
    <3>2. QED
      BY <2>2, <3>1 DEF Guarded
  <2>3. QED
    BY <2>1, <2>2
<1>8. CASE H!Model
  <2>1. CASE hookCall' = H!NoCall /\ heard' = H!Unheard /\ stage' = "pre"
    BY <2>1 DEF H!NoCall, H!Unheard, Guarded
  <2>2. CASE hookCall' = hookCall /\ heard' = heard /\ stage' \in {"stop", "finish"}
    BY <1>8, <2>2 DEF H!Model, Guarded
  <2>3. QED
    BY <1>8, <2>1, <2>2 DEF H!Model, H!Order
<1>9. CASE H!Submitted \/ H!PostTool \/ H!Finish \/ H!Stop \/ H!Cancel
  <2>1. hookCall' = hookCall /\ heard' = heard
    BY <1>9 DEF H!Submitted, H!PostTool, H!Finish, H!Stop, H!Cancel
  <2>2. CASE H!Cancel
    BY <2>1, <2>2 DEF H!Cancel, Guarded
  <2>3. CASE stage \notin {"pre", "exec"} /\ stage' \notin {"pre", "gate", "exec"}
    BY <2>1, <2>3 DEF Guarded
  <2>4. QED
    BY <1>9, <2>2, <2>3 DEF H!Submitted, H!PostTool, H!Finish, H!Stop, H!Then
<1>10. QED
  BY <1>2, <1>3, <1>4, <1>5, <1>6, <1>7, <1>8, <1>9 DEF H!Next, H!Step

(* A command of the chain tells its plugin, once.                          *)
LEMMA ChainTells ==
    ASSUME HookTypes, NEW of, Chain(of), plugin \in DOMAIN Plugins, H!Event(plugin) \in Ends,
           Hears(plugin, of), command' = command + 1, plugin' = plugin,
           told' = IF command = 0 THEN [told EXCEPT ![plugin] = @ + 1] ELSE told
    PROVE  Chain(of)'
<1>1. told \in [DOMAIN Plugins -> Nat] /\ plugin \in Nat /\ command \in Nat
      /\ \A p \in DOMAIN Plugins : p \in Nat
  <2>1. ASSUME NEW p \in DOMAIN Plugins PROVE p \in Nat
    <3>1. DOMAIN Plugins = 1..Len(Plugins) /\ Len(Plugins) \in Nat
      BY PluginsKnown
    <3>2. QED
      BY <3>1
  <2>2. QED
    BY <2>1 DEF HookTypes
<1>2. command' > 0
  BY <1>1
<1>3. ASSUME NEW p \in DOMAIN Plugins, p # plugin
      PROVE  told'[p] = told[p] /\ (Turned(p)' <=> Turned(p))
  BY <1>1, <1>3 DEF Turned
<1>4. told'[plugin] = 1 /\ Turned(plugin)'
  <2>1. CASE command = 0
    <3>1. told[plugin] = 0
      BY <1>1, <2>1 DEF Chain, Turned
    <3>2. QED
      BY <1>1, <1>2, <2>1, <3>1 DEF Turned
  <2>2. CASE command > 0
    BY <1>1, <1>2, <2>2 DEF Chain, Turned
  <2>3. QED
    BY <1>1, <2>1, <2>2
<1>5. ASSUME NEW p \in DOMAIN Plugins
      PROVE  told'[p] = IF Hears(p, of)' /\ Turned(p)' THEN 1 ELSE 0
  <2>1. Hears(p, of)' <=> Hears(p, of)
    BY DEF Hears
  <2>2. CASE p = plugin
    BY <1>4, <2>1, <2>2
  <2>3. CASE p # plugin
    BY <1>3, <2>1, <2>3 DEF Chain
  <2>4. QED
    BY <2>2, <2>3
<1>6. QED
  BY <1>5 DEF Chain

LEMMA ChainGoesOn ==
    ASSUME HookTypes, NEW of, Chain(of), plugin \in DOMAIN Plugins,
           Hears(plugin, of) => command > 0, H!NextPlugin, told' = told
    PROVE  /\ plugin # Len(Plugins) => Chain(of)'
           /\ plugin = Len(Plugins) => All(of)'
<1>1. DOMAIN Plugins = 1..Len(Plugins) /\ Len(Plugins) \in Nat /\ plugin \in Nat /\ command \in Nat
  BY PluginsKnown DEF HookTypes
<1>2. ASSUME plugin # Len(Plugins) PROVE Chain(of)'
  <2>1. plugin' = plugin + 1 /\ command' = 0
    BY <1>2 DEF H!NextPlugin
  <2>2. ASSUME NEW p \in DOMAIN Plugins, Hears(p, of) PROVE Turned(p)' <=> Turned(p)
    BY <1>1, <2>1, <2>2 DEF Turned
  <2>3. ASSUME NEW p \in DOMAIN Plugins
        PROVE  told'[p] = IF Hears(p, of)' /\ Turned(p)' THEN 1 ELSE 0
    <3>1. Hears(p, of)' <=> Hears(p, of)
      BY DEF Hears
    <3>2. told[p] = IF Hears(p, of) /\ Turned(p) THEN 1 ELSE 0
      BY DEF Chain
    <3>3. QED
      BY <2>2, <3>1, <3>2
  <2>4. QED
    BY <2>3 DEF Chain
<1>3. ASSUME plugin = Len(Plugins), NEW p \in DOMAIN Plugins
      PROVE  told'[p] = IF Hears(p, of)' THEN 1 ELSE 0
  <2>1. Hears(p, of) => Turned(p)
    BY <1>1, <1>3 DEF Turned
  <2>2. Hears(p, of)' <=> Hears(p, of)
    BY DEF Hears
  <2>3. QED
    BY <2>1, <2>2 DEF Chain
<1>4. QED
  BY <1>2, <1>3 DEF All

LEMMA Reached == \A m \in Nat, n \in Nat \ {0} : ~(m < n) => m > 0
OBVIOUS

(* A plugin that hears of the end has been told when its turn is over.     *)
LEMMA TurnOver ==
    ASSUME HookTypes, plugin \in DOMAIN Plugins, hookCtx = "live", ~H!HasCommand, H!Event(plugin) # ""
    PROVE  command > 0
<1>1. Plugins[plugin].commands \in Nat \ {0} /\ command \in Nat
  BY PluginsKnown DEF HookTypes
<1>2. ~(command < Plugins[plugin].commands)
  BY DEF H!HasCommand, H!Alive
<1>3. QED
  BY <1>1, <1>2, Reached

(* Nobody was told yet.                                                    *)
LEMMA ChainBegins == ASSUME plugin' = 1, command' = 0, told' = H!Untold, NEW of PROVE Chain(of)'
<1>1. ASSUME NEW p \in DOMAIN Plugins PROVE ~Turned(p)' /\ told'[p] = 0
  <2>1. p \in Nat \ {0}
    <3>1. DOMAIN Plugins = 1..Len(Plugins) /\ Len(Plugins) \in Nat
      BY PluginsKnown
    <3>2. QED
      BY <3>1
  <2>2. QED
    BY <2>1 DEF Turned, H!Untold
<1>2. QED
  BY <1>1 DEF Chain

LEMMA TellingStep == ASSUME HookTypes, Telling, [H!Next]_(H!vars) PROVE Telling'
<1> DEFINE Same == \A of : (Chain(of)' <=> Chain(of)) /\ (All(of)' <=> All(of))
<1>1. ASSUME plugin' = plugin, command' = command, told' = told PROVE Same
  BY <1>1 DEF Chain, All, Hears, Turned
<1>2. ASSUME told' = told, NEW of PROVE All(of)' <=> All(of)
  BY <1>2 DEF All, Hears
<1>3. CASE UNCHANGED H!vars
  BY <1>1, <1>3 DEF H!vars, Telling, H!Capped
<1>4. CASE H!Killed \/ H!Cancel
  BY <1>4 DEF H!Killed, H!Cancel, Telling, H!InChain, H!HookStages
<1>5. CASE H!Command
  <2>1. /\ stage \in {"submit", "pre", "post", "finish", "stop"} /\ plugin \in DOMAIN Plugins
        /\ H!Event(plugin) # "" /\ command' = command + 1 /\ plugin' = plugin
        /\ stage' = stage /\ ended' = ended /\ continued' = continued /\ hookCtx' = hookCtx
        /\ told' = IF command = 0 /\ H!Event(plugin) \in Ends THEN [told EXCEPT ![plugin] = @ + 1] ELSE told
    BY <1>5 DEF H!Command, H!InChain, H!HasCommand, H!HookStages, Ends
  <2>2. H!Capped' <=> H!Capped
    BY <2>1 DEF H!Capped
  <2>3. CASE hookCtx = "live" /\ stage = "finish" /\ ~H!Capped
    <3>1. Hears(plugin, {"Stop"}) /\ H!Event(plugin) \in Ends
      BY <2>1, <2>3, EventIs
    <3>2. Chain({"Stop"})
      BY <2>3 DEF Telling
    <3>3. Chain({"Stop"})'
      BY <2>1, <3>1, <3>2, ChainTells
    <3>4. QED
      BY <2>1, <2>2, <2>3, <3>3 DEF Telling
  <2>4. CASE hookCtx = "live" /\ stage = "stop" /\ ended = "failed"
    <3>1. Hears(plugin, Ends) /\ H!Event(plugin) \in Ends
      BY <2>1, <2>4, EventIs
    <3>2. Chain(Ends)
      BY <2>4 DEF Telling
    <3>3. Chain(Ends)'
      BY <2>1, <3>1, <3>2, ChainTells
    <3>4. QED
      BY <2>1, <2>2, <2>4, <3>3 DEF Telling
  <2>5. stage = "stop" => ended = "failed"
    BY <2>1, EventIs
  <2>6. QED
    BY <2>1, <2>2, <2>3, <2>4, <2>5 DEF Telling
<1>6. CASE H!Submitted
  BY <1>6 DEF H!Submitted, H!NextPlugin, H!Then, Telling
<1>7. CASE H!PreTool
  BY <1>7 DEF H!PreTool, H!NextPlugin, H!Then, H!After, H!Order, Telling
<1>8. CASE H!Gate
  BY <1>8 DEF H!Gate, H!After, H!Order, Telling
<1>9. CASE H!Exec
  BY <1>9 DEF H!Exec, Telling
<1>10. CASE H!PostTool
  BY <1>10 DEF H!PostTool, H!NextPlugin, Telling
<1>11. CASE H!Model
  <2>1. plugin' = 1 /\ command' = 0 /\ told' = H!Untold
    BY <1>11 DEF H!Model, Telling
  <2>2. \A of : Chain(of)'
    BY <2>1, ChainBegins
  <2>3. /\ stage' \in {"stop", "pre", "finish"} /\ ended' # "answered"
        /\ stage' # "stop" => ended' = ""
    BY <1>11 DEF H!Model, H!Order, Telling
  <2>4. QED
    BY <2>1, <2>2, <2>3 DEF Telling
<1>12. CASE H!Finish
  <2>1. CASE H!Capped /\ stage' = "stop" /\ ended' = "answered" /\ continued' = continued
    <3>1. H!Capped'
      BY <2>1 DEF H!Capped
    <3>2. QED
      BY <2>1, <3>1 DEF Telling
  <2>2. CASE ~H!Capped /\ H!Concluded /\ H!NextPlugin
    <3> DEFINE more == goOn \/ out.blocked \/ out.context
    <3>1. /\ stage = "finish" /\ plugin \in DOMAIN Plugins /\ ~H!HasCommand /\ ended = ""
          /\ told' = told /\ hookCtx' = hookCtx
          /\ stage' = H!Then(IF more THEN "model" ELSE "stop")
          /\ ended' = IF plugin = Len(Plugins) /\ ~more THEN "answered" ELSE ended
          /\ plugin # Len(Plugins) \/ ~more => continued' = continued
      BY <1>12, <2>2 DEF H!Finish, H!Concluded, H!InChain, Telling
    <3> HIDE DEF more
    <3>2. CASE hookCtx # "live"
      BY <2>2, <3>1, <3>2 DEF Telling, H!Then, H!NextPlugin
    <3>3. CASE hookCtx = "live"
      <4>1. Chain({"Stop"}) /\ (Hears(plugin, {"Stop"}) => command > 0)
        BY <2>2, <3>1, <3>3, EventIs, TurnOver DEF Telling
      <4>2. /\ plugin # Len(Plugins) => Chain({"Stop"})'
            /\ plugin = Len(Plugins) => All({"Stop"})'
        BY <2>2, <3>1, <4>1, ChainGoesOn
      <4>3. plugin # Len(Plugins) => stage' = "finish" /\ ended' = ""
        BY <3>1 DEF H!Then
      <4>4. plugin = Len(Plugins) =>
              /\ plugin' = 1 /\ command' = 0
              /\ \/ stage' = "model" /\ ended' = ""
                 \/ stage' = "stop" /\ ended' = "answered"
        BY <2>2, <3>1 DEF H!Then, H!NextPlugin
      <4>5. QED
        BY <4>2, <4>3, <4>4 DEF Telling
    <3>4. QED
      BY <3>2, <3>3
  <2>3. QED
    BY <1>12, <2>1, <2>2 DEF H!Finish
<1>13. CASE H!Stop
  <2>1. /\ stage = "stop" /\ plugin \in DOMAIN Plugins /\ ~H!HasCommand /\ H!NextPlugin
        /\ stage' = H!Then("ended") /\ ended' = ended /\ told' = told /\ hookCtx' = hookCtx
        /\ continued' = continued
    BY <1>13 DEF H!Stop, H!Concluded, H!InChain
  <2>2. (H!Capped' <=> H!Capped) /\ stage' \in {"stop", "ended"}
    BY <2>1 DEF H!Capped, H!Then
  <2>3. CASE hookCtx = "live" /\ ended = "failed"
    <3>1. Chain(Ends) /\ (Hears(plugin, Ends) => command > 0)
      BY <2>1, <2>3, EventIs, TurnOver DEF Telling
    <3>2. /\ plugin # Len(Plugins) => Chain(Ends)'
          /\ plugin = Len(Plugins) => All(Ends)'
      BY <2>1, <3>1, ChainGoesOn
    <3>3. stage' = IF plugin = Len(Plugins) THEN "ended" ELSE "stop"
      BY <2>1 DEF H!Then
    <3>4. QED
      BY <2>1, <2>3, <3>2, <3>3 DEF Telling
  <2>4. CASE hookCtx = "live" /\ ended = "answered"
    <3>1. All({"Stop"})' <=> All({"Stop"})
      BY <1>2, <2>1
    <3>2. QED
      BY <2>1, <2>2, <2>4, <3>1 DEF Telling
  <2>5. QED
    BY <2>1, <2>2, <2>3, <2>4 DEF Telling
<1>14. QED
  BY <1>3, <1>4, <1>5, <1>6, <1>7, <1>8, <1>9, <1>10, <1>11, <1>12, <1>13 DEF H!Next, H!Step

LEMMA HooksStep == ASSUME HookInv, [H!Next]_(H!vars) PROVE HookInv'
BY HookTypesStep, GuardedStep, TellingStep DEF HookInv

LEMMA HooksKept == ASSUME HookInv PROVE HooksHold
<1>1. H!RefusalHolds /\ H!GateSawWhatRan /\ H!FailsClosed
  BY DEF HookInv, Guarded, H!RefusalHolds, H!GateSawWhatRan, H!FailsClosed
<1>2. H!EndIsTold
  <2>1. SUFFICES ASSUME stage = "ended", hookCtx = "live", continued < MaxContinuations,
                        NEW p \in DOMAIN Plugins, ended \in {"answered", "failed"},
                        Plugins[p].events \cap ({"Stop"} \cup (IF ended = "failed" THEN {"StopFailure"} ELSE {})) # {}
                 PROVE  told[p] = 1
    BY DEF H!EndIsTold
  <2>2. ~H!Capped
    <3>1. MaxContinuations \in Nat
      BY PluginsAssumption
    <3>2. continued \in Nat
      BY DEF HookInv, HookTypes
    <3>3. QED
      BY <2>1, <3>1, <3>2 DEF H!Capped
  <2>3. CASE ended = "answered"
    BY <2>1, <2>2, <2>3 DEF HookInv, Telling, All, Hears
  <2>4. CASE ended = "failed"
    BY <2>1, <2>4 DEF HookInv, Telling, All, Hears, Ends
  <2>5. QED
    BY <2>1, <2>3, <2>4
<1>3. QED
  BY <1>1, <1>2 DEF HooksHold

(***************************************************************************)
(* The run                                                                 *)
(***************************************************************************)

(* However commands of plugins fail, time out or are killed with the       *)
(* prompt, a call that one of them refused is not run, one that runs has   *)
(* the arguments its gate saw, and the end of a prompt is told once        *)
(* (cmdhook's run, runTool, beforeFinish); and when bash has returned, its *)
(* process group is gone and its result is what happened                   *)
(* (bashTool.Exec).  For any plugins, commands, calls and processes.       *)
THEOREM GuardsAlwaysHold == MCSpec => []GuardsHold
<1> DEFINE Inv == HookInv /\ BashInv
<1>1. MCInit => Inv
  BY HooksInit, BashInit DEF MCInit
<1>2. Inv /\ [MCNext]_all => Inv'
  <2>1. ASSUME Inv, [MCNext]_all PROVE [H!Next]_(H!vars) /\ [B!Next]_(B!vars)
    BY <2>1 DEF MCNext, all, hookVars, bashVars, H!vars, B!vars
  <2>2. QED
    BY <2>1, HooksStep, BashStep
<1>3. Inv => GuardsHold
  <2>1. ASSUME BashInv PROVE ShellContained
    BY <2>1 DEF BashInv, GroupStaysGone, ShellContained, B!GroupGone
  <2>2. QED
    BY <2>1, HooksKept DEF GuardsHold
<1>4. QED
  BY <1>1, <1>2, <1>3, PTL DEF MCSpec

(***************************************************************************)
(* What a function defined by recursion does                               *)
(*                                                                         *)
(* A recursive definition chooses its function.  Recursion gives one with  *)
(* the equations, by the least number at which a shorter one has no next;  *)
(* Climbing goes up from 0 to n.                                           *)
(***************************************************************************)

(* S has 0 and goes on to n.                                               *)
Climbs(S, n) == 0 \in S /\ \A i \in 1 .. n : i - 1 \in S => i \in S

LEMMA Climbing ==
  ASSUME NEW n \in Nat, NEW S, Climbs(S, n)
  PROVE  0 .. n \subseteq S
<1> DEFINE bad == {i \in 0 .. n : i \notin S}
<1> SUFFICES ASSUME bad # {} PROVE FALSE
  OBVIOUS
<1>1. bad \in SUBSET (Nat \ {0})
  BY DEF Climbs
<1>2. PICK w \in bad : \A v \in bad : w <= v
  BY <1>1, LeastExists
<1>3. w \in 1 .. n /\ w - 1 \in 0 .. n /\ ~(w <= w - 1)
  BY <1>1, <1>2
<1>4. w - 1 \in S
  BY <1>2, <1>3
<1> QED  BY <1>3, <1>4, <1>2 DEF Climbs

(* f is what the recursion from b by the steps G gives.                    *)
Steps(f, G, b, n) == f[0] = b /\ \A i \in 1 .. n : f[i] = G[i][f[i - 1]]

LEMMA Recursion ==
  ASSUME NEW V, NEW b \in V, NEW n \in Nat, NEW G \in [1 .. n -> [V -> V]]
  PROVE  \E f \in [0 .. n -> V] : Steps(f, G, b, n)
<1> DEFINE T == {k \in 0 .. n : \E f \in [0 .. k -> V] : Steps(f, G, b, k)}
<1>1. 0 \in T
  <2>1. [i \in 0 .. 0 |-> b] \in [0 .. 0 -> V] /\ Steps([i \in 0 .. 0 |-> b], G, b, 0)
    BY DEF Steps
  <2> QED  BY <2>1
<1>2. ASSUME NEW i \in 1 .. n, i - 1 \in T PROVE i \in T
  <2>1. PICK f \in [0 .. i - 1 -> V] : Steps(f, G, b, i - 1)
    BY <1>2
  <2> DEFINE g == [k \in 0 .. i |-> IF k = i THEN G[i][f[i - 1]] ELSE f[k]]
  <2>2. f[i - 1] \in V /\ G[i][f[i - 1]] \in V
    BY <2>1
  <2>3. g \in [0 .. i -> V]
    BY <2>1, <2>2
  <2>4. g[0] = b
    BY <2>1 DEF Steps
  <2>5. ASSUME NEW k \in 1 .. i PROVE g[k] = G[k][g[k - 1]]
    <3>1. CASE k = i
      BY <3>1, <2>1
    <3>2. CASE k # i
      <4>1. k \in 1 .. i - 1 /\ k - 1 \in 0 .. i /\ k - 1 # i
        BY <3>2
      <4>2. f[k] = G[k][f[k - 1]]
        BY <4>1, <2>1 DEF Steps
      <4> QED  BY <4>1, <4>2
    <3> QED  BY <3>1, <3>2
  <2>6. Steps(g, G, b, i)
    BY <2>4, <2>5 DEF Steps
  <2> QED  BY <2>3, <2>6
<1>3. Climbs(T, n)
  BY <1>1, <1>2 DEF Climbs
<1>4. n \in T
  BY <1>3, Climbing
<1> QED  BY <1>4

LEMMA EstType ==
  ASSUME NEW S, \A x \in S : x.size \in Nat, NEW m \in Seq(S)
  PROVE  C!EstChars(m) \in Nat
<1> DEFINE n == Len(m)
           E(i, v) == v + m[i].size
           G == [i \in 1 .. n |-> [v \in Nat |-> E(i, v)]]
           Is(f) == f = [i \in 0 .. n |-> IF i = 0 THEN 0 ELSE E(i, f[i - 1])]
           u == CHOOSE f : Is(f)
<1>1. C!EstChars(m) = u[n] /\ n \in Nat
  BY DEF C!EstChars
<1>2. \A i \in 1 .. n, v \in Nat : E(i, v) \in Nat
  OBVIOUS
<1> HIDE DEF n, E
<1>3. /\ G \in [1 .. n -> [Nat -> Nat]]
      /\ \A i \in 1 .. n, v \in Nat : G[i][v] = E(i, v)
  BY <1>2
<1> HIDE DEF G
<1>4. Is(u)
  <2>1. PICK f \in [0 .. n -> Nat] : Steps(f, G, 0, n)
    BY <1>1, <1>3, Recursion
  <2>2. ASSUME NEW i \in 1 .. n PROVE f[i] = E(i, f[i - 1])
    <3>1. f[i - 1] \in Nat
      BY <1>1, <2>1
    <3>2. f[i] = G[i][f[i - 1]]
      BY <2>1 DEF Steps
    <3> QED  BY <3>1, <3>2, <1>3
  <2>3. Is(f)
    BY <1>1, <2>1, <2>2 DEF Steps
  <2> QED  BY <2>3
<1> HIDE DEF u
<1>5. u[0] = 0 /\ \A i \in 1 .. n : u[i] = E(i, u[i - 1])
  BY <1>4, <1>1
<1> DEFINE T == {i \in 0 .. n : u[i] \in Nat}
<1>6. ASSUME NEW i \in 1 .. n, i - 1 \in T PROVE i \in T
  <2>1. u[i - 1] \in Nat
    BY <1>6
  <2>2. E(i, u[i - 1]) \in Nat
    BY <2>1, <1>2
  <2>3. u[i] \in Nat
    BY <2>2, <1>5
  <2> QED  BY <2>3, <1>1
<1>7. Climbs(T, n)
  BY <1>1, <1>5, <1>6 DEF Climbs
<1>8. n \in T
  BY <1>1, <1>7, Climbing
<1> QED  BY <1>1, <1>8

LEMMA SameSequence ==
  ASSUME NEW S, NEW a \in Seq(S), NEW b \in Seq(S), Len(a) = Len(b),
         \A i \in 1 .. Len(b) : a[i] = b[i]
  PROVE  a = b
OBVIOUS

Joined(a, b, c) == (a \o b) \o c = a \o (b \o c)

LEMMA ThreeParts ==
  ASSUME NEW S, NEW a \in Seq(S), NEW b \in Seq(S), NEW c \in Seq(S)
  PROVE  Joined(a, b, c)
BY DEF Joined

(* What InOrder gives, one number at a time. *)
InOrderUpTo(n, S, u) ==
  /\ InOrder(n, S) = u[n]
  /\ u[0] = <<>>
  /\ \A i \in 1 .. n : /\ i \in S => u[i] = Append(u[i - 1], i)
                       /\ i \notin S => u[i] = u[i - 1]

(* The recursion of InOrder has its equations.                             *)
LEMMA InOrderIs ==
  ASSUME NEW n \in Nat, NEW S
  PROVE  \E u : InOrderUpTo(n, S, u)
<1> DEFINE V == Seq(1 .. n)
           E(i, v) == IF i \in S THEN Append(v, i) ELSE v
           G == [i \in 1 .. n |-> [v \in V |-> E(i, v)]]
           Is(f) == f = [i \in 0 .. n |-> IF i = 0 THEN <<>> ELSE E(i, f[i - 1])]
           u == CHOOSE f : Is(f)
<1>1. InOrder(n, S) = u[n]
  BY DEF InOrder
<1>2. ASSUME NEW i \in 1 .. n, NEW v \in V PROVE E(i, v) \in V
  <2>1. Append(v, i) \in V
    OBVIOUS
  <2> HIDE DEF V
  <2> QED  BY <2>1
<1>3. <<>> \in V
  OBVIOUS
<1> HIDE DEF V, E
<1>4. /\ G \in [1 .. n -> [V -> V]]
      /\ \A i \in 1 .. n, v \in V : G[i][v] = E(i, v)
  BY <1>2
<1> HIDE DEF G
<1>5. Is(u)
  <2>1. PICK f \in [0 .. n -> V] : Steps(f, G, <<>>, n)
    BY <1>3, <1>4, Recursion
  <2>2. ASSUME NEW i \in 1 .. n PROVE f[i] = E(i, f[i - 1])
    <3>1. f[i - 1] \in V
      BY <2>1
    <3>2. f[i] = G[i][f[i - 1]]
      BY <2>1 DEF Steps
    <3> QED  BY <3>1, <3>2, <1>4
  <2>3. Is(f)
    BY <2>1, <2>2 DEF Steps
  <2> QED  BY <2>3
<1> HIDE DEF u
<1>6. u[0] = <<>> /\ \A i \in 1 .. n : u[i] = E(i, u[i - 1])
  BY <1>5
<1> QED  BY <1>1, <1>6 DEF InOrderUpTo, E

(* A sequence lists a set when each member is in it once. *)
Lists(s, D) ==
  /\ s \in Seq(D) /\ Len(s) = Cardinality(D)
  /\ \A i \in D : \E k \in 1 .. Len(s) : s[k] = i

(* InOrder lists the members of S up to n once each. *)
LEMMA InOrderLists ==
  ASSUME NEW n \in Nat, NEW S
  PROVE  Lists(InOrder(n, S), S \cap 1 .. n)
<1>1. PICK u : InOrderUpTo(n, S, u)
  BY InOrderIs
<1> DEFINE In(k) == S \cap 1 .. k
           P(k)  == /\ u[k] \in Seq(In(k))
                    /\ IsFiniteSet(In(k)) /\ Len(u[k]) = Cardinality(In(k))
                    /\ \A i \in In(k) : \E j \in 1 .. Len(u[k]) : u[k][j] = i
           T     == {k \in 0 .. n : P(k)}
<1>2. P(0)
  <2>1. In(0) = {} /\ u[0] = <<>>
    BY <1>1 DEF InOrderUpTo
  <2>2. IsFiniteSet(In(0)) /\ Cardinality(In(0)) = 0
    BY <2>1, FS_EmptySet
  <2>3. u[0] \in Seq(In(0)) /\ Len(u[0]) = 0
    BY <2>1
  <2>4. \A i \in In(0) : \E j \in 1 .. Len(u[0]) : u[0][j] = i
    BY <2>1
  <2> HIDE DEF In
  <2> QED  BY <2>2, <2>3, <2>4
<1>3. ASSUME NEW k \in 1 .. n, P(k - 1) PROVE P(k)
  <2> DEFINE a == u[k - 1]
             A == In(k - 1)
             b == u[k]
             D == In(k)
  <2>1. /\ a \in Seq(A)
        /\ IsFiniteSet(A) /\ Len(a) = Cardinality(A)
        /\ \A i \in A : \E j \in 1 .. Len(a) : a[j] = i
    BY <1>3
  <2>2. CASE k \in S
    <3>1. D = A \cup {k} /\ k \notin A
      BY <2>2
    <3>2. b = Append(a, k)
      BY <1>1, <2>2 DEF InOrderUpTo
    <3> HIDE DEF a, A, b, D
    <3>3. IsFiniteSet(D) /\ Cardinality(D) = Cardinality(A) + 1
      BY <3>1, <2>1, FS_AddElement
    <3>4. A \subseteq D /\ k \in D
      BY <3>1
    <3>5. a \in Seq(D)
      BY <3>4, <2>1, SeqMonotonic
    <3>6. b \in Seq(D) /\ Len(b) = Cardinality(D)
      BY <3>2, <3>3, <3>4, <3>5, <2>1
    <3>7. ASSUME NEW i \in D PROVE \E j \in 1 .. Len(b) : b[j] = i
      <4>1. CASE i = k
        BY <4>1, <3>2, <3>5
      <4>2. CASE i \in A
        BY <4>2, <3>2, <3>5, <2>1
      <4> QED  BY <4>1, <4>2, <3>1
    <3>8. /\ b \in Seq(D)
          /\ IsFiniteSet(D) /\ Len(b) = Cardinality(D)
          /\ \A i \in D : \E j \in 1 .. Len(b) : b[j] = i
      BY <3>3, <3>6, <3>7
    <3> QED  BY <3>8 DEF b, D
  <2>3. CASE k \notin S
    <3>1. D = A /\ b = a
      BY <1>1, <2>3 DEF InOrderUpTo
    <3> HIDE DEF a, A, b, D
    <3>2. /\ b \in Seq(D)
          /\ IsFiniteSet(D) /\ Len(b) = Cardinality(D)
          /\ \A i \in D : \E j \in 1 .. Len(b) : b[j] = i
      BY <3>1, <2>1
    <3> QED  BY <3>2 DEF b, D
  <2> QED  BY <2>2, <2>3
<1>4. P(n)
  <2> HIDE DEF P
  <2>1. Climbs(T, n)
    BY <1>2, <1>3 DEF Climbs
  <2> QED  BY <2>1, Climbing
<1> QED  BY <1>4, <1>1 DEF InOrderUpTo, Lists

(* From a number on, all of them. *)
LEMMA InOrderTail ==
  ASSUME NEW n \in Nat, NEW c \in 0 .. n
  PROVE  InOrder(n, c + 1 .. n) = [k \in 1 .. n - c |-> k + c]
<1> DEFINE S == c + 1 .. n
<1>1. PICK u : InOrderUpTo(n, S, u)
  BY InOrderIs
<1> DEFINE From(k) == [j \in 1 .. k |-> j + c]
           P(k) == u[k] = IF k < c THEN <<>> ELSE From(k - c)
           T    == {k \in 0 .. n : P(k)}
<1>0. From(0) = <<>>
  OBVIOUS
<1>2. P(0)
  <2> HIDE DEF From
  <2> QED  BY <1>0, <1>1 DEF InOrderUpTo
<1>3. ASSUME NEW k \in 1 .. n, P(k - 1) PROVE P(k)
  <2>1. CASE k > c
    <3> DEFINE l == k - 1 - c
    <3>1. l \in Nat /\ k = l + 1 + c /\ k \in S
      BY <2>1
    <3>2. u[k] = Append(u[k - 1], k)
      BY <1>1, <3>1 DEF InOrderUpTo
    <3>3. u[k - 1] = From(l)
      BY <1>3, <2>1
    <3> HIDE DEF l
    <3>4. From(l) \in Seq(Nat) /\ Len(From(l)) = l
      BY <3>1
    <3>5. Append(From(l), k) = From(l + 1)
      <4>1. Append(From(l), k) \in Seq(Nat) /\ Len(Append(From(l), k)) = l + 1
        BY <3>1, <3>4
      <4>2. From(l + 1) \in Seq(Nat) /\ Len(From(l + 1)) = l + 1
        BY <3>1
      <4>3. ASSUME NEW j \in 1 .. l + 1 PROVE Append(From(l), k)[j] = From(l + 1)[j]
        BY <3>1, <3>4
      <4> HIDE DEF From
      <4> QED  BY <4>1, <4>2, <4>3, SeqEqual
    <3> HIDE DEF From
    <3>6. u[k] = From(l + 1) /\ k - c = l + 1
      BY <3>1, <3>2, <3>3, <3>5
    <3> QED  BY <3>6, <2>1
  <2>2. CASE k = c
    <3>1. k \notin S /\ k - c = 0 /\ k - 1 < c
      BY <2>2
    <3> HIDE DEF From
    <3>2. u[k] = u[k - 1] /\ u[k - 1] = <<>>
      BY <1>1, <1>3, <3>1 DEF InOrderUpTo
    <3> QED  BY <3>1, <3>2, <1>0, <2>2
  <2>3. CASE k < c
    <3>1. k \notin S /\ k - 1 < c
      BY <2>3
    <3> HIDE DEF From
    <3>2. u[k] = u[k - 1] /\ u[k - 1] = <<>>
      BY <1>1, <1>3, <3>1 DEF InOrderUpTo
    <3> QED  BY <3>2, <2>3
  <2> QED  BY <2>1, <2>2, <2>3
<1>4. P(n)
  <2> HIDE DEF P
  <2>1. Climbs(T, n)
    BY <1>2, <1>3 DEF Climbs
  <2> QED  BY <2>1, Climbing
<1> QED  BY <1>4, <1>1 DEF InOrderUpTo

(***************************************************************************)
(* Conversations a provider takes                                          *)
(*                                                                         *)
(* Accepted is about each message and the ones behind it: it holds of what *)
(* is put together from accepted parts, and of a part that begins where no *)
(* result does.                                                            *)
(***************************************************************************)

(* Messages whose calls are named as the models name them.                 *)
Calling(S) == \A x \in S : x.ids \in CallIds

Same(x, y)    == x.role = y.role /\ x.ids = y.ids
Good(m, i)    == /\ m[i].role = "assistant" => Answers(m, i)
                 /\ m[i].role = "tool" => Belongs(m, i)

(* Message by message, o has from c on what m has from d on.               *)
Window(m, d, o, c) == \A k \in 1 .. Len(m) - d : Same(m[d + k], o[c + k])

(* The n messages after i answer x.                                        *)
Answering(m, i, x, n) ==
  /\ \A k \in 1 .. n : m[i + k].role = "tool"
  /\ {m[i + k].ids[1] : k \in 1 .. n} = {x[k] : k \in 1 .. n}

(* o is the first c messages of itself, as they should be, and what m has  *)
(* from d on, which does not begin with a result.                          *)
Continues(m, d, o, c) ==
  /\ Len(o) = c + (Len(m) - d) /\ Window(m, d, o, c)
  /\ d < Len(m) => m[d + 1].role # "tool"
  /\ \A i \in 1 .. c : Good(o, i)

LEMMA AnswersIs ==
  ASSUME NEW m, NEW i
  PROVE  Answers(m, i) <=> i + Len(m[i].ids) <= Len(m) /\ Answering(m, i, m[i].ids, Len(m[i].ids))
BY DEF Answers, Answering

LEMMA AnsweringSame ==
  ASSUME NEW m, NEW i, NEW o, NEW j, NEW x, NEW n, Answering(m, i, x, n),
         \A k \in 1 .. n : Same(m[i + k], o[j + k])
  PROVE  Answering(o, j, x, n)
<1>1. \A k \in 1 .. n : o[j + k].role = "tool"
  BY DEF Answering, Same
<1>2. \A k \in 1 .. n : o[j + k].ids[1] = m[i + k].ids[1]
  BY DEF Same
<1>3. {o[j + k].ids[1] : k \in 1 .. n} = {m[i + k].ids[1] : k \in 1 .. n}
  BY <1>2, Zenon
<1> QED  BY <1>1, <1>3 DEF Answering

(* The end of an accepted history that does not begin with a result is as  *)
(* good after other messages.                                              *)
LEMMA WindowGood ==
  ASSUME NEW S, Calling(S), NEW m \in Seq(S), NEW T, Calling(T), NEW o \in Seq(T),
         NEW c \in Nat, NEW d \in 0 .. Len(m), Continues(m, d, o, c), Accepted(m)
  PROVE  Accepted(o)
<1>0. /\ Len(o) = c + (Len(m) - d) /\ Window(m, d, o, c)
      /\ d < Len(m) => m[d + 1].role # "tool"
      /\ \A i \in 1 .. c : Good(o, i)
  BY DEF Continues
<1>1. ASSUME NEW q \in 1 .. Len(m) - d PROVE Good(o, c + q)
  <2> DEFINE h == d + q
             i == c + q
             x == m[h].ids
             n == Len(x)
  <2>1. h \in 1 .. Len(m) /\ i \in 1 .. Len(o) /\ Len(o) - i = Len(m) - h /\ h - i = d - c
    BY <1>0
  <2>2. Same(m[h], o[i]) /\ Good(m, h)
    BY <2>1, <1>0 DEF Window, Accepted, Good
  <2>3. x \in CallIds
    BY <2>1 DEF Calling
  <2>4. n \in Nat
    BY <2>3 DEF CallIds
  <2>5. ASSUME o[i].role = "assistant" PROVE Answers(o, i)
    <3>1. h + n <= Len(m) /\ Answering(m, h, x, n) /\ o[i].ids = x
      BY <2>2, <2>5, AnswersIs DEF Good, Same
    <3> HIDE DEF x, n
    <3>0. h = d + q /\ i = c + q /\ h + n <= Len(m) /\ Len(m) \in Nat /\ d \in Nat /\ q \in Nat \ {0}
      BY <3>1
    <3> HIDE DEF h, i
    <3>2. ASSUME NEW k \in 1 .. n
          PROVE  q + k \in 1 .. Len(m) - d /\ h + k = d + (q + k) /\ i + k = c + (q + k)
      BY <2>4, <3>0
    <3>3. \A k \in 1 .. n : Same(m[h + k], o[i + k])
      BY <3>2, <1>0 DEF Window
    <3>4. Answering(o, i, x, n)
      BY <3>1, <3>3, AnsweringSame
    <3>5. i + n <= Len(o)
      BY <2>1, <2>4, <3>1
    <3> QED  BY <3>1, <3>4, <3>5, AnswersIs DEF n
  <2>6. ASSUME o[i].role = "tool" PROVE Belongs(o, i)
    <3>1. PICK j \in 1 .. h - 1 : m[j].role = "assistant" /\ h <= j + Len(m[j].ids)
      BY <2>2, <2>6 DEF Good, Same, Belongs
    <3> DEFINE y == m[j].ids
               l == Len(y)
    <3>2. j \in 1 .. Len(m)
      BY <2>1
    <3>3. y \in CallIds
      BY <3>2 DEF Calling
    <3>4. l \in Nat
      BY <3>3 DEF CallIds
    <3>5. CASE j > d
      <4> DEFINE p == j - d
      <4>1. p \in 1 .. Len(m) - d /\ j = d + p
        BY <3>2, <3>5
      <4>2. Same(m[j], o[c + p])
        BY <4>1, <1>0 DEF Window
      <4> HIDE DEF y, l
      <4>3. h <= j + l
        BY <3>1 DEF l, y
      <4>4. c + p \in 1 .. i - 1 /\ i <= c + p + l
        BY <2>1, <3>1, <3>4, <4>1, <4>3
      <4>5. o[c + p].role = "assistant" /\ Len(o[c + p].ids) = l
        BY <3>1, <4>2 DEF Same, l, y
      <4> HIDE DEF i, p
      <4> QED  BY <4>4, <4>5 DEF Belongs
    <3>6. CASE j <= d
      <4>1. Answering(m, j, y, l)
        BY <3>1, <3>2, AnswersIs DEF Accepted
      <4> HIDE DEF y, l
      <4>2. h <= j + l
        BY <3>1 DEF l, y
      <4> DEFINE k == d + 1 - j
      <4>3. k \in 1 .. l /\ j + k = d + 1 /\ d < Len(m)
        BY <2>1, <3>1, <3>4, <3>6, <4>2
      <4> HIDE DEF k
      <4>4. m[j + k].role = "tool"
        BY <4>1, <4>3 DEF Answering
      <4> QED  BY <4>3, <4>4, <1>0
    <3> QED  BY <3>2, <3>5, <3>6
  <2> QED  BY <2>5, <2>6 DEF Good
<1>2. ASSUME NEW i \in 1 .. Len(o) PROVE Good(o, i)
  <2>1. CASE i <= c
    BY <2>1, <1>0
  <2>2. CASE i > c
    <3> DEFINE q == i - c
    <3>1. q \in 1 .. Len(m) - d /\ i = c + q
      BY <2>2, <1>0
    <3> HIDE DEF q
    <3> QED  BY <3>1, <1>1
  <2> QED  BY <2>1, <2>2
<1> QED  BY <1>2 DEF Accepted, Good

(* What follows an accepted history does not matter to it.                 *)
LEMMA PrefixGood ==
  ASSUME NEW S, Calling(S), NEW m \in Seq(S), Accepted(m), NEW o,
         \A i \in 1 .. Len(m) : o[i] = m[i], Len(o) \in Nat, Len(m) <= Len(o), NEW i \in 1 .. Len(m)
  PROVE  Good(o, i)
<1> DEFINE x == m[i].ids
           n == Len(x)
<1>1. x \in CallIds
  BY DEF Calling
<1>2. n \in Nat
  BY <1>1 DEF CallIds
<1>3. o[i] = m[i] /\ Len(m) \in Nat
  OBVIOUS
<1>4. ASSUME m[i].role = "assistant" PROVE Answers(o, i)
  <2>1. i + n <= Len(m) /\ Answering(m, i, x, n)
    BY <1>4, AnswersIs DEF Accepted
  <2> HIDE DEF x, n
  <2>2. \A k \in 1 .. n : i + k \in 1 .. Len(m)
    BY <1>2, <1>3, <2>1
  <2>3. \A k \in 1 .. n : Same(m[i + k], o[i + k])
    BY <2>2 DEF Same
  <2>4. Answering(o, i, x, n)
    BY <2>1, <2>3, AnsweringSame
  <2>5. i + n <= Len(o)
    BY <1>2, <1>3, <2>1
  <2> QED  BY <1>3, <2>4, <2>5, AnswersIs DEF n, x
<1>5. ASSUME m[i].role = "tool" PROVE Belongs(o, i)
  <2>1. PICK j \in 1 .. i - 1 : m[j].role = "assistant" /\ i <= j + Len(m[j].ids)
    BY <1>5 DEF Accepted, Belongs
  <2>2. o[j] = m[j]
    BY <1>3
  <2> QED  BY <2>1, <2>2 DEF Belongs
<1> QED  BY <1>3, <1>4, <1>5 DEF Good

(* Two accepted histories, one after the other, are one.                   *)
LEMMA AcceptedConcat ==
  ASSUME NEW S, Calling(S), NEW a \in Seq(S), NEW b \in Seq(S), Accepted(a), Accepted(b)
  PROVE  a \o b \in Seq(S) /\ Accepted(a \o b)
<1> DEFINE o == a \o b
           c == Len(a)
<1>1. /\ o \in Seq(S) /\ Len(o) = c + Len(b) /\ c \in Nat /\ Len(b) \in Nat
      /\ \A i \in 1 .. c : o[i] = a[i]
      /\ \A i \in 1 .. Len(b) : o[c + i] = b[i]
  OBVIOUS
<1> HIDE DEF o
<1>2. ASSUME NEW i \in 1 .. c PROVE Good(o, i)
  BY <1>1, PrefixGood
<1> HIDE DEF c
<1>3. Window(b, 0, o, c)
  BY <1>1 DEF Same, Window
<1>4. 0 < Len(b) => b[0 + 1].role # "tool"
  BY <1>1 DEF Accepted, Belongs
<1>5. Len(o) = c + (Len(b) - 0) /\ 0 \in 0 .. Len(b)
  BY <1>1
<1>6. Continues(b, 0, o, c)
  BY <1>2, <1>3, <1>4, <1>5 DEF Continues
<1>7. Accepted(o)
  BY <1>1, <1>5, <1>6, WindowGood
<1> QED  BY <1>1, <1>7 DEF o

(* Messages that are neither answers nor calls are accepted.               *)
LEMMA TextsAccepted ==
  ASSUME NEW S, NEW m \in Seq(S), \A i \in 1 .. Len(m) : m[i].role \notin {"assistant", "tool"}
  PROVE  Accepted(m)
BY DEF Accepted

(* A message with calls and their answers is accepted.                     *)
LEMMA BlockAccepted ==
  ASSUME NEW S, Calling(S), NEW x \in S, x.role = "assistant", NEW r \in Seq(S),
         Len(r) = Len(x.ids), \A k \in 1 .. Len(r) : r[k].role = "tool",
         \A k \in 1 .. Len(r) : \E l \in 1 .. Len(r) : r[k].ids[1] = x.ids[l],
         \A l \in 1 .. Len(r) : \E k \in 1 .. Len(r) : r[k].ids[1] = x.ids[l]
  PROVE  <<x>> \o r \in Seq(S) /\ Accepted(<<x>> \o r)
<1> DEFINE m == <<x>> \o r
           n == Len(r)
<1>0. <<x>> \in Seq(S) /\ Len(<<x>>) = 1 /\ <<x>>[1] = x /\ n \in Nat
  OBVIOUS
<1>1. /\ m \in Seq(S) /\ Len(m) = 1 + n /\ m[1] = x
      /\ \A k \in 1 .. n : m[1 + k] = r[k]
  BY <1>0
<1> HIDE DEF m
<1>r. ASSUME NEW k \in 1 .. n PROVE m[1 + k].role = "tool"
  <2>1. m[1 + k] = r[k]
    BY <1>1
  <2>2. r[k].role = "tool"
    OBVIOUS
  <2> QED  BY <2>1, <2>2
<1> HIDE DEF n
<1>2. {r[k].ids[1] : k \in 1 .. n} = {x.ids[k] : k \in 1 .. n}
  <2> DEFINE a(k) == r[k].ids[1]
             b(k) == x.ids[k]
  <2>1. /\ \A k \in 1 .. n : \E l \in 1 .. n : a(k) = b(l)
        /\ \A l \in 1 .. n : \E k \in 1 .. n : a(k) = b(l)
    BY DEF n
  <2> HIDE DEF a, b
  <2>2. ASSUME NEW v PROVE v \in {a(k) : k \in 1 .. n} <=> v \in {b(k) : k \in 1 .. n}
    BY <2>1
  <2>3. {a(k) : k \in 1 .. n} = {b(k) : k \in 1 .. n}
    BY <2>2
  <2> QED  BY <2>3 DEF a, b
<1>3. Answers(m, 1)
  <2>4. \A k \in 1 .. n : m[1 + k].ids[1] = r[k].ids[1]
    BY <1>1 DEF n
  <2>1. {m[1 + k].ids[1] : k \in 1 .. n} = {r[k].ids[1] : k \in 1 .. n}
    <3> DEFINE a(k) == m[1 + k].ids[1]
               b(k) == r[k].ids[1]
    <3>1. \A k \in 1 .. n : a(k) = b(k)
      BY <2>4
    <3> HIDE DEF a, b
    <3>2. {a(k) : k \in 1 .. n} = {b(k) : k \in 1 .. n}
      BY <3>1
    <3> QED  BY <3>2 DEF a, b
  <2>0. \A k \in 1 .. n : m[1 + k].role = "tool"
    BY <1>r
  <2>2. Answering(m, 1, x.ids, n)
    BY <2>0, <1>2, <2>1 DEF Answering
  <2>3. m[1].ids = x.ids /\ Len(x.ids) = n /\ 1 + n <= Len(m)
    BY <1>0, <1>1 DEF n
  <2> QED  BY <2>2, <2>3, AnswersIs
<1>4. ASSUME NEW k \in 1 .. n PROVE m[1 + k].role = "tool" /\ Belongs(m, 1 + k)
  <2>0. Len(m[1].ids) = n /\ m[1].role = "assistant" /\ m[1 + k].role = "tool"
    <3>1. m[1] = x
      BY <1>1
    <3> QED  BY <3>1, <1>r DEF n
  <2>1. 1 \in 1 .. (1 + k) - 1 /\ 1 + k <= 1 + Len(m[1].ids) /\ m[1].role = "assistant"
    BY <1>0, <2>0
  <2> QED  BY <2>0, <2>1 DEF Belongs
<1>5. ASSUME NEW i \in 1 .. Len(m) PROVE Good(m, i)
  <2>1. CASE i = 1
    BY <2>1, <1>1, <1>3 DEF Good
  <2>2. CASE i # 1
    <3> DEFINE k == i - 1
    <3>1. k \in 1 .. n /\ i = 1 + k
      BY <2>2, <1>0, <1>1
    <3> HIDE DEF k
    <3>2. m[i].role = "tool" /\ Belongs(m, i)
      BY <3>1, <1>4
    <3> QED  BY <3>2 DEF Good
  <2> QED  BY <2>1, <2>2
<1>6. Accepted(m)
  BY <1>5 DEF Accepted, Good
<1> QED  BY <1>1, <1>6 DEF m

(* The least of some of the first numbers.                                 *)
LEMMA FirstIs ==
  ASSUME NEW n, NEW S, S \subseteq 1 .. n, S # {}
  PROVE  First(S) \in S /\ \A j \in S : First(S) <= j
<1>1. PICK w \in S : \A v \in S : w <= v
  BY LeastExists
<1> QED  BY <1>1 DEF First

(* What alignKeepAtUser leaves is the end of its window, from a message    *)
(* that is not a result on.                                                *)
LEMMA AlignIs ==
  ASSUME NEW S, NEW m \in Seq(S)
  PROVE  \E d \in 0 .. Len(m) : /\ AlignKeepAtUser(m) = SubSeq(m, d + 1, Len(m))
                                /\ d < Len(m) => m[d + 1].role # "tool"
<1> DEFINE users == {i \in 1 .. Len(m) : m[i].role = "user"}
           others == {i \in 1 .. Len(m) : m[i].role # "tool"}
<1>1. CASE users # {}
  <2> DEFINE f == First(users)
  <2>1. f \in users
    BY <1>1, FirstIs
  <2>2. AlignKeepAtUser(m) = SubSeq(m, f, Len(m))
    BY <1>1 DEF AlignKeepAtUser
  <2> HIDE DEF f
  <2>3. f - 1 \in 0 .. Len(m) /\ (f - 1) + 1 = f /\ m[f].role # "tool"
    BY <2>1
  <2> QED  BY <2>2, <2>3
<1>2. CASE users = {} /\ others # {}
  <2> DEFINE f == First(others)
  <2>1. f \in others
    BY <1>2, FirstIs
  <2>2. AlignKeepAtUser(m) = SubSeq(m, f, Len(m))
    BY <1>2 DEF AlignKeepAtUser
  <2> HIDE DEF f
  <2>3. f - 1 \in 0 .. Len(m) /\ (f - 1) + 1 = f /\ m[f].role # "tool"
    BY <2>1
  <2> QED  BY <2>2, <2>3
<1>3. CASE users = {} /\ others = {}
  <2>1. AlignKeepAtUser(m) = <<>>
    BY <1>3 DEF AlignKeepAtUser
  <2>2. SubSeq(m, Len(m) + 1, Len(m)) = <<>>
    OBVIOUS
  <2> QED  BY <2>1, <2>2
<1> QED  BY <1>1, <1>2, <1>3

(* The kept window of the last k messages, aligned: the end of the history *)
(* from some message on that is not a result.                              *)
WindowFrom(m, a, d) ==
  /\ Len(a) = Len(m) - d
  /\ \A i \in 1 .. Len(m) - d : a[i] = m[d + i]
  /\ d < Len(m) => m[d + 1].role # "tool"

(* a is what w has after its first e.                                      *)
EndOf(w, e, a) == Len(a) = Len(w) - e /\ \A i \in 1 .. Len(w) - e : a[i] = w[e + i]

LEMMA TailOf ==
  ASSUME NEW S, NEW w \in Seq(S), NEW e \in 0 .. Len(w)
  PROVE  SubSeq(w, e + 1, Len(w)) \in Seq(S) /\ EndOf(w, e, SubSeq(w, e + 1, Len(w)))
BY DEF EndOf

(* The last k messages, aligned, are a window that starts at no result.    *)
LEMMA WindowTaken ==
  ASSUME NEW S, NEW m \in Seq(S), NEW k \in 0 .. Len(m), NEW a,
         a = AlignKeepAtUser(SubSeq(m, Len(m) - k + 1, Len(m)))
  PROVE  a \in Seq(S) /\ \E d \in Len(m) - k .. Len(m) : WindowFrom(m, a, d)
<1> DEFINE n == Len(m)
           b == n - k
           w == SubSeq(m, b + 1, n)
<1>1. n \in Nat /\ k \in 0 .. n /\ b \in 0 .. n
  OBVIOUS
<1>2. w \in Seq(S) /\ Len(w) = k /\ \A i \in 1 .. k : w[i] = m[b + i]
  OBVIOUS
<1>3. a = AlignKeepAtUser(w)
  OBVIOUS
<1> HIDE DEF w
<1>4. PICK e \in 0 .. k : a = SubSeq(w, e + 1, k) /\ (e < k => w[e + 1].role # "tool")
  BY <1>2, <1>3, AlignIs
<1>5. a \in Seq(S) /\ Len(a) = k - e /\ \A i \in 1 .. k - e : a[i] = w[e + i]
  <2>1. e \in 0 .. Len(w) /\ a = SubSeq(w, e + 1, Len(w)) /\ Len(w) = k
    BY <1>2, <1>4
  <2>2. w \in Seq(S)
    BY <1>2
  <2>3. a \in Seq(S) /\ EndOf(w, e, a)
    BY <2>1, <2>2, TailOf
  <2> QED  BY <2>1, <2>3 DEF EndOf
<1> DEFINE d == b + e
<1>6. d \in b .. n /\ n - d = k - e
  BY <1>1, <1>4
<1>7. ASSUME NEW i \in 1 .. k - e PROVE a[i] = m[d + i]
  <2>1. e + i \in 1 .. k /\ b + (e + i) = d + i
    BY <1>1, <1>4
  <2> QED  BY <2>1, <1>2, <1>5
<1>8. ASSUME d < n PROVE m[d + 1].role # "tool"
  <2>1. e < k /\ e + 1 \in 1 .. k /\ b + (e + 1) = d + 1
    BY <1>1, <1>4, <1>8
  <2> QED  BY <2>1, <1>2, <1>4
<1> HIDE DEF d
<1>9. WindowFrom(m, a, d)
  BY <1>5, <1>6, <1>7, <1>8 DEF WindowFrom
<1> QED  BY <1>5, <1>6, <1>9

(* So a window of what a provider takes is one it takes.                   *)
LEMMA WindowAccepted ==
  ASSUME NEW S, Calling(S), NEW m \in Seq(S), Accepted(m), NEW k \in 0 .. Len(m), NEW a,
         a = AlignKeepAtUser(SubSeq(m, Len(m) - k + 1, Len(m)))
  PROVE  a \in Seq(S) /\ Accepted(a)
<1>1. PICK d \in Len(m) - k .. Len(m) : WindowFrom(m, a, d)
  BY WindowTaken
<1>2. a \in Seq(S) /\ d \in 0 .. Len(m) /\ Len(m) \in Nat
  BY WindowTaken
<1> DEFINE c == 0
<1>3. c \in Nat /\ (\A i \in 1 .. Len(m) - d : c + i = i) /\ c + (Len(m) - d) = Len(m) - d /\ 1 .. c = {}
  BY <1>2
<1> HIDE DEF c
<1>4. ASSUME NEW i \in 1 .. Len(m) - d PROVE Same(m[d + i], a[c + i])
  BY <1>1, <1>3 DEF WindowFrom, Same
<1>5. Window(m, d, a, c)
  BY <1>4 DEF Window
<1>6. /\ Len(a) = c + (Len(m) - d)
      /\ d < Len(m) => m[d + 1].role # "tool"
  BY <1>1, <1>3 DEF WindowFrom
<1>7. \A i \in 1 .. c : Good(a, i)
  BY <1>3
<1>8. Continues(m, d, a, c) /\ c \in Nat
  BY <1>3, <1>5, <1>6, <1>7 DEF Continues
<1> QED  BY <1>2, <1>8, WindowGood

-----------------------------------------------------------------------------
(* The messages of the loop.                                               *)
Msgs      == [role : Roles, ids : CallIds]
(* The calls of the answer r, and a list of all of the first n.            *)
CallsOf(n, r) == [i \in 1 .. n |-> <<r, i>>]
Listing(is, n) ==
  /\ is \in Seq(1 .. n) /\ Len(is) = n
  /\ \A i \in 1 .. n : \E k \in 1 .. Len(is) : is[k] = i

LEMMA MsgsCall == Calling(Msgs) /\ User \in Msgs /\ Message("assistant", <<>>) \in Msgs
<1>1. <<>> \in CallIds
  BY DEF CallIds
<1> QED  BY <1>1 DEF Calling, Msgs, User, Message, Roles

LEMMA NotesAccepted ==
  ASSUME NEW n \in Nat
  PROVE  Notes(n) \in Seq(Msgs) /\ Accepted(Notes(n))
<1>1. Notes(n) \in Seq(Msgs) /\ \A i \in 1 .. Len(Notes(n)) : Notes(n)[i] = User
  BY MsgsCall DEF Notes
<1>2. User.role \notin {"assistant", "tool"}
  BY DEF User, Message
<1> QED  BY <1>1, <1>2, TextsAccepted

(* Whatever a compaction leaves of the loop's messages, a provider takes   *)
(* it.                                                                     *)
LEMMA CompactedAccepted ==
  ASSUME NEW m \in Seq(Msgs), Accepted(m), NEW o \in Compacted(m)
  PROVE  o \in Seq(Msgs) /\ Accepted(o)
<1>1. CASE o = m
  BY <1>1
<1>2. CASE o # m
  <2>1. PICK k \in 2 .. Len(m) : o = <<User>> \o AlignKeepAtUser(SubSeq(m, Len(m) - k + 1, Len(m)))
    BY <1>2 DEF Compacted
  <2> DEFINE a == AlignKeepAtUser(SubSeq(m, Len(m) - k + 1, Len(m)))
  <2>2. k \in 0 .. Len(m)
    OBVIOUS
  <2>3. a \in Seq(Msgs) /\ Accepted(a)
    BY <2>2, MsgsCall, WindowAccepted
  <2>4. o = <<User>> \o a
    BY <2>1
  <2> HIDE DEF a
  <2>5. <<User>> \in Seq(Msgs) /\ Accepted(<<User>>)
    <3>1. <<User>> \in Seq(Msgs) /\ \A i \in 1 .. Len(<<User>>) : <<User>>[i] = User
      BY MsgsCall
    <3>2. User.role \notin {"assistant", "tool"}
      BY DEF User, Message
    <3> QED  BY <3>1, <3>2, TextsAccepted
  <2> QED  BY <2>3, <2>4, <2>5, MsgsCall, AcceptedConcat
<1> QED  BY <1>1, <1>2

Block(x, r) ==
  /\ x.role = "assistant" /\ Len(r) = Len(x.ids)
  /\ \A k \in 1 .. Len(r) : r[k].role = "tool"
  /\ \A k \in 1 .. Len(r) : \E l \in 1 .. Len(r) : r[k].ids[1] = x.ids[l]
  /\ \A l \in 1 .. Len(r) : \E k \in 1 .. Len(r) : r[k].ids[1] = x.ids[l]

LEMMA BlockTaken ==
  ASSUME NEW S, Calling(S), NEW x \in S, NEW r \in Seq(S), Block(x, r)
  PROVE  <<x>> \o r \in Seq(S) /\ Accepted(<<x>> \o r)
BY BlockAccepted DEF Block

(* A call of a reply with the results of all its calls, in any order.      *)
LEMMA AnsweredAccepted ==
  ASSUME NEW n \in Nat, NEW r \in Int, NEW is, Listing(is, n), NEW t,
         t = [k \in 1 .. Len(is) |-> Message("tool", <<<<r, is[k]>>>>)],
         NEW h \in Seq(Msgs), Accepted(h), NEW x, x = Message("assistant", CallsOf(n, r))
  PROVE  Append(h, x) \o t \in Seq(Msgs) /\ Accepted(Append(h, x) \o t)
<1>1. is \in Seq(1 .. n) /\ Len(is) = n /\ \A k \in 1 .. n : is[k] \in 1 .. n
  <2>1. is \in Seq(1 .. n) /\ Len(is) = n
    BY DEF Listing
  <2> QED  BY <2>1
<1>2. x \in Msgs /\ x.role = "assistant" /\ Len(x.ids) = n /\ \A k \in 1 .. n : x.ids[k] = <<r, k>>
  <2>1. CallsOf(n, r) \in CallIds /\ Len(CallsOf(n, r)) = n
    BY DEF CallsOf, CallIds
  <2>2. \A k \in 1 .. n : CallsOf(n, r)[k] = <<r, k>>
    BY DEF CallsOf
  <2> QED  BY <2>1, <2>2 DEF Message, Msgs, Roles
<1>3. /\ t \in Seq(Msgs) /\ Len(t) = n
      /\ \A k \in 1 .. n : t[k].role = "tool" /\ t[k].ids[1] = <<r, is[k]>>
  <2>1. ASSUME NEW k \in 1 .. n
        PROVE  t[k] \in Msgs /\ t[k].role = "tool" /\ t[k].ids[1] = <<r, is[k]>>
    <3>1. <<<<r, is[k]>>>> \in CallIds
      BY <1>1 DEF CallIds
    <3>2. t[k] = Message("tool", <<<<r, is[k]>>>>)
      BY <1>1
    <3> DEFINE c == <<<<r, is[k]>>>>
    <3>3. c[1] = <<r, is[k]>> /\ c \in CallIds
      BY <3>1
    <3> HIDE DEF c
    <3>4. t[k] = [role |-> "tool", ids |-> c]
      BY <3>2 DEF c, Message
    <3>5. t[k] \in Msgs
      BY <3>3, <3>4 DEF Msgs, Roles
    <3>6. t[k].role = "tool" /\ t[k].ids = c
      BY <3>4
    <3> QED  BY <3>3, <3>5, <3>6
  <2>2. t \in [1 .. n -> Msgs]
    <3> HIDE DEF Msgs
    <3> QED  BY <1>1, <2>1
  <2>3. t \in Seq(Msgs) /\ Len(t) = n
    <3> HIDE DEF Msgs
    <3> QED  BY <2>2
  <2> QED  BY <2>1, <2>3
<1>4. \A k \in 1 .. n : \E l \in 1 .. n : t[k].ids[1] = x.ids[l]
  <2>1. ASSUME NEW k \in 1 .. n PROVE \E l \in 1 .. n : t[k].ids[1] = x.ids[l]
    <3>1. is[k] \in 1 .. n /\ t[k].ids[1] = <<r, is[k]>>
      BY <1>1, <1>3
    <3> QED  BY <3>1, <1>2
  <2> QED  BY <2>1
<1>5. \A l \in 1 .. n : \E k \in 1 .. n : t[k].ids[1] = x.ids[l]
  <2>1. ASSUME NEW l \in 1 .. n PROVE \E k \in 1 .. n : t[k].ids[1] = x.ids[l]
    <3>1. PICK k \in 1 .. n : is[k] = l
      BY <1>1 DEF Listing
    <3> QED  BY <3>1, <1>2, <1>3
  <2> QED  BY <2>1
<1>6. <<x>> \o t \in Seq(Msgs) /\ Accepted(<<x>> \o t)
  <2>1. /\ \A k \in 1 .. Len(t) : t[k].role = "tool"
        /\ \A k \in 1 .. Len(t) : \E l \in 1 .. Len(t) : t[k].ids[1] = x.ids[l]
        /\ \A l \in 1 .. Len(t) : \E k \in 1 .. Len(t) : t[k].ids[1] = x.ids[l]
    BY <1>3, <1>4, <1>5
  <2>2. t \in Seq(Msgs) /\ Len(t) = Len(x.ids) /\ x \in Msgs /\ x.role = "assistant"
    BY <1>2, <1>3
  <2>3. Calling(Msgs)
    BY MsgsCall
  <2>4. Block(x, t)
    BY <2>1, <2>2 DEF Block
  <2> QED  BY <2>2, <2>3, <2>4, BlockTaken
<1>7. Append(h, x) \o t = h \o (<<x>> \o t)
  <2>1. x \in Msgs /\ t \in Seq(Msgs) /\ h \in Seq(Msgs)
    BY <1>2, <1>3
  <2> QED  BY <2>1
<1> QED  BY <1>6, <1>7, MsgsCall, AcceptedConcat

(***************************************************************************)
(* The loop's messages                                                     *)
(*                                                                         *)
(* MsgsInv: outside a batch msgs is accepted, and in a batch it is an      *)
(* accepted history and the answer that asked for the batch.               *)
(***************************************************************************)

LEMMA AllListed ==
  ASSUME NEW n \in Nat, NEW S, 1 .. n \subseteq S
  PROVE  Listing(InOrder(n, S), n)
<1>1. S \cap 1 .. n = 1 .. n /\ Cardinality(1 .. n) = n
  BY FS_Interval
<1>2. Lists(InOrder(n, S), 1 .. n)
  BY <1>1, InOrderLists
<1> QED  BY <1>1, <1>2 DEF Listing, Lists

LEMMA RestListed ==
  ASSUME NEW n \in Nat, NEW A, A \subseteq 1 .. n
  PROVE  Listing(InOrder(n, A) \o InOrder(n, 1 .. n \ A), n)
<1> DEFINE a == InOrder(n, A)
           D == (1 .. n) \ A
           b == InOrder(n, D)
           o == a \o b
<1>1. /\ a \in Seq(A) /\ Len(a) = Cardinality(A)
      /\ \A i \in A : \E k \in 1 .. Len(a) : a[k] = i
  <2>1. A \cap 1 .. n = A
    OBVIOUS
  <2>2. Lists(a, A)
    BY <2>1, InOrderLists
  <2> QED  BY <2>2 DEF Lists
<1>2. /\ b \in Seq(D) /\ Len(b) = Cardinality(D)
      /\ \A i \in D : \E k \in 1 .. Len(b) : b[k] = i
  <2>1. D \cap 1 .. n = D
    OBVIOUS
  <2> HIDE DEF D
  <2>2. Lists(b, D)
    BY <2>1, InOrderLists
  <2> QED  BY <2>2 DEF Lists
<1> HIDE DEF a, b
<1>3. Cardinality(A) + Cardinality(D) = n
  <2>1. IsFiniteSet(1 .. n) /\ Cardinality(1 .. n) = n
    BY FS_Interval
  <2>2. Cardinality(D) = n - Cardinality((1 .. n) \cap A) /\ (1 .. n) \cap A = A
    BY <2>1, FS_Difference
  <2>3. Cardinality(A) \in Nat
    BY <2>1, FS_Subset, FS_CardinalityType
  <2> HIDE DEF D
  <2>4. Cardinality(D) = n - Cardinality(A)
    BY <2>2, Zenon
  <2> QED  BY <2>3, <2>4
<1>4. a \in Seq(1 .. n) /\ b \in Seq(1 .. n)
  BY <1>1, <1>2, SeqMonotonic
<1>5. o \in Seq(1 .. n) /\ Len(o) = n
  <2> HIDE DEF D
  <2>1. o \in Seq(1 .. n) /\ Len(o) = Len(a) + Len(b)
    BY <1>4
  <2>2. Len(a) = Cardinality(A) /\ Len(b) = Cardinality(D)
    BY <1>1, <1>2
  <2> HIDE DEF o
  <2> QED  BY <2>1, <2>2, <1>3
<1>6. ASSUME NEW i \in 1 .. n PROVE \E k \in 1 .. Len(o) : o[k] = i
  <2>1. CASE i \in A
    <3>1. PICK k \in 1 .. Len(a) : a[k] = i
      BY <1>1, <2>1
    <3>2. k \in 1 .. Len(o) /\ o[k] = a[k]
      BY <1>4
    <3> QED  BY <3>1, <3>2
  <2>2. CASE i \in D
    <3>1. PICK k \in 1 .. Len(b) : b[k] = i
      BY <1>2, <2>2
    <3>2. Len(a) + k \in 1 .. Len(o) /\ o[Len(a) + k] = b[k]
      BY <1>4
    <3> QED  BY <3>1, <3>2
  <2> QED  BY <2>1, <2>2
<1> HIDE DEF o
<1>7. Listing(o, n)
  BY <1>5, <1>6 DEF Listing
<1> QED  BY <1>7 DEF o, a, b, D

-----------------------------------------------------------------------------
(* Between batches the messages are a history a provider accepts; while    *)
(* one runs, its call is still without results.                            *)
Asked(h) == Append(h, Message("assistant", CallsOf(Len(batch), replies)))

(* What the loop's messages are outside a batch and in it.                 *)
MsgsInv ==
  /\ msgs \in Seq(Msgs)
  /\ phase # "batch" => Accepted(msgs)
  /\ phase = "batch" => \E h \in Seq(Msgs) : Accepted(h) /\ msgs = Asked(h)

LEMMA MoreAccepted ==
  ASSUME NEW m \in Seq(Msgs), NEW t \in Seq(Msgs), Accepted(m), Accepted(t)
  PROVE  m \o t \in Seq(Msgs) /\ Accepted(m \o t)
BY MsgsCall, AcceptedConcat

LEMMA TextAccepted ==
  ASSUME NEW x \in {User, Message("assistant", <<>>)}
  PROVE  <<x>> \in Seq(Msgs) /\ Accepted(<<x>>)
<1>1. <<x>> \in Seq(Msgs) /\ Len(<<x>>) = 1 /\ <<x>>[1] = x
  BY MsgsCall
<1>2. x.role # "tool" /\ Len(x.ids) = 0
  BY DEF User, Message
<1>3. Answers(<<x>>, 1)
  <2>1. Answering(<<x>>, 1, x.ids, 0)
    BY DEF Answering
  <2>2. <<x>>[1].ids = x.ids /\ 1 + Len(<<x>>[1].ids) <= Len(<<x>>)
    BY <1>1, <1>2
  <2> QED  BY <1>2, <2>1, <2>2, AnswersIs
<1> QED  BY <1>1, <1>2, <1>3 DEF Accepted

(* The answers that follow a batch.                                        *)
LEMMA BatchAnswered ==
  ASSUME IInv, MsgsInv, phase = "batch", NEW is, Listing(is, Len(batch))
  PROVE  msgs \o ToolMessages(is) \in Seq(Msgs) /\ Accepted(msgs \o ToolMessages(is))
<1>1. PICK h \in Seq(Msgs) : Accepted(h) /\ msgs = Asked(h)
  BY DEF MsgsInv
<1>2. Len(batch) \in Nat /\ replies \in Int
  BY DEF IInv, TypeOK
<1> DEFINE x == Message("assistant", CallsOf(Len(batch), replies))
           t == ToolMessages(is)
<1>3. t = [k \in 1 .. Len(is) |-> Message("tool", <<<<replies, is[k]>>>>)]
  BY DEF ToolMessages
<1>4. x = Message("assistant", CallsOf(Len(batch), replies)) /\ msgs = Append(h, x)
  BY <1>1 DEF Asked
<1> HIDE DEF x, t
<1>5. Append(h, x) \o t \in Seq(Msgs) /\ Accepted(Append(h, x) \o t)
  BY <1>1, <1>2, <1>3, <1>4, AnsweredAccepted
<1> QED  BY <1>4, <1>5 DEF t

LEMMA AllAnswered ==
  ASSUME IInv, NothingDropped, BatchEnds, BatchError \in {"none", "done"}
  PROVE  Listing(Results, Len(batch))
<1>1. 1 .. Len(batch) \subseteq Answered
  BY DEF NothingDropped, Answered, Calls
<1>2. Len(batch) \in Nat
  BY DEF IInv, TypeOK
<1> QED  BY <1>1, <1>2, AllListed DEF Results

LEMMA RestAnswered ==
  ASSUME IInv
  PROVE  Listing(Repaired, Len(batch))
<1>1. Len(batch) \in Nat /\ Answered \subseteq 1 .. Len(batch)
  BY DEF IInv, TypeOK, Answered, Calls
<1> HIDE DEF Answered
<1> QED  BY <1>1, RestListed DEF Repaired, Results, Calls

-----------------------------------------------------------------------------
(* Steps that add no more than a note or a compaction.                     *)
LEMMA MsgsSteps ==
  ASSUME IInv, MsgsInv,
         OutOfTurns \/ Aborted \/ Send \/ Steer \/ Cancel \/ Interrupted \/ Overflow \/ CallFails
  PROVE  MsgsInv'
<1>1. phase = "batch" => Steer \/ Cancel
  BY DEF OutOfTurns, Aborted, Send, Interrupted, Overflow, CallFails
<1>2. CASE Steer \/ Cancel
  <2>1. UNCHANGED <<phase, msgs, batch, replies>>
    BY <1>2 DEF Steer, Cancel, batchVars
  <2> QED  BY <2>1 DEF MsgsInv, Asked
<1>3. CASE ~(Steer \/ Cancel)
  <2>1. Accepted(msgs) /\ msgs \in Seq(Msgs) /\ phase' # "batch"
    BY <1>1, <1>3
       DEF MsgsInv, OutOfTurns, Aborted, Send, Interrupted, Overflow, CallFails, EndWith, SameTurn
  <2>2. \/ msgs' = msgs \/ msgs' \in Compacted(msgs)
        \/ msgs' = msgs \o Notes(steers)
    BY <1>3 DEF OutOfTurns, Aborted, Send, Interrupted, Overflow, CallFails
  <2>3. msgs' \in Seq(Msgs) /\ Accepted(msgs')
    <3>1. steers \in Nat
      BY DEF IInv, TypeOK
    <3> QED  BY <2>1, <2>2, <3>1, CompactedAccepted, NotesAccepted, MoreAccepted
  <2> QED  BY <2>1, <2>3 DEF MsgsInv
<1> QED  BY <1>2, <1>3

LEMMA Numbered ==
  ASSUME IInv, NEW b \in Batches
  PROVE  Len(b) \in Nat /\ replies + 1 \in Int
<1>1. replies \in Nat
  BY Parts DEF LoopType
<1>2. b \in Seq(Tools)
  BY LoopAssumption DEF LoopAssumption
<1> QED  BY <1>1, <1>2

(* An answer adds its calls, and opens their batch.                        *)
LEMMA MsgsReplies ==
  ASSUME IInv, MsgsInv, Reply
  PROVE  MsgsInv'
<1>1. Accepted(msgs) /\ msgs \in Seq(Msgs)
  BY DEF MsgsInv, Reply, ReplyText, ReplyCut, ReplyCalls
<1>2. CASE ReplyText
  <2> DEFINE x == Message("assistant", <<>>)
  <2>1. phase' # "batch"
    BY <1>2 DEF ReplyText, EndWith, NextTurn
  <2>2. msgs' = Append(msgs, x) \/ msgs' = msgs \o <<x, User>>
    BY <1>2 DEF ReplyText
  <2>3. x \in Msgs /\ User \in Msgs
    BY MsgsCall
  <2>4. <<x>> \in Seq(Msgs) /\ Accepted(<<x>>) /\ <<User>> \in Seq(Msgs) /\ Accepted(<<User>>)
    BY TextAccepted
  <2> HIDE DEF x
  <2>5. msgs \o <<x>> \in Seq(Msgs) /\ Accepted(msgs \o <<x>>)
    BY <1>1, <2>4, MoreAccepted
  <2>6. (msgs \o <<x>>) \o <<User>> \in Seq(Msgs) /\ Accepted((msgs \o <<x>>) \o <<User>>)
    BY <2>4, <2>5, MoreAccepted
  <2>7. Append(msgs, x) = msgs \o <<x>> /\ msgs \o <<x, User>> = (msgs \o <<x>>) \o <<User>>
    BY <1>1, <2>3
  <2> QED  BY <2>1, <2>2, <2>5, <2>6, <2>7 DEF MsgsInv
<1>3. ASSUME NEW b \in Batches, ReplyCut(b) PROVE MsgsInv'
  <2>1. phase' # "batch"
    BY <1>3 DEF ReplyCut, EndWith, NextTurn
  <2> DEFINE n == Len(b)
             r == replies + 1
             is == [k \in 1 .. n |-> k]
             x == Message("assistant", CallsOf(n, r))
             t == [k \in 1 .. Len(is) |-> Message("tool", <<<<r, is[k]>>>>)]
  <2>2. n \in Nat /\ r \in Int
    BY Numbered
  <2>3. Listing(is, n)
    <3>1. is \in Seq(1 .. n) /\ Len(is) = n /\ \A i \in 1 .. n : is[i] = i
      BY <2>2
    <3> HIDE DEF is
    <3> QED  BY <3>1 DEF Listing
  <2>4. msgs' = msgs \o <<x>> \o [i \in 1 .. n |-> Message("tool", <<Ids(n)[i]>>)]
    BY <1>3 DEF ReplyCut, Ids, CallsOf
  <2>5. [i \in 1 .. n |-> Message("tool", <<Ids(n)[i]>>)] = t
    <3>1. Len(is) = n
      BY <2>3 DEF Listing
    <3>2. \A i \in 1 .. n : Ids(n)[i] = <<r, is[i]>>
      BY DEF Ids
    <3> HIDE DEF is, r, n
    <3> QED  BY <3>1, <3>2
  <2> HIDE DEF is, n, r, t
  <2>6. Append(msgs, x) \o t \in Seq(Msgs) /\ Accepted(Append(msgs, x) \o t)
    BY <1>1, <2>2, <2>3, AnsweredAccepted DEF t
  <2>7. msgs \o <<x>> = Append(msgs, x)
    BY <1>1
  <2> QED  BY <2>1, <2>4, <2>5, <2>6, <2>7 DEF MsgsInv
<1>4. ASSUME NEW b \in Batches, NEW malformed \in BOOLEAN, ReplyCalls(b, malformed) PROVE MsgsInv'
  <2>1. /\ phase' = "batch" /\ batch' = b /\ replies' = replies + 1
        /\ msgs' = Append(msgs, Message("assistant", Ids(Len(b))))
    BY <1>4 DEF ReplyCalls, Begin
  <2>2. Ids(Len(b)) = CallsOf(Len(b), replies + 1)
    BY DEF Ids, CallsOf
  <2> DEFINE n == Len(b)
             r == replies + 1
             x == Message("assistant", CallsOf(n, r))
  <2>3. n \in Nat /\ r \in Int
    BY Numbered
  <2> HIDE DEF n, r
  <2>4. x \in Msgs
    <3>1. CallsOf(n, r) \in CallIds
      BY <2>3 DEF CallsOf, CallIds
    <3> QED  BY <3>1 DEF Msgs, Message, Roles
  <2>5. msgs' \in Seq(Msgs) /\ msgs' = Append(msgs, x)
    <3>1. msgs' = Append(msgs, x)
      BY <2>1, <2>2 DEF n, r
    <3> HIDE DEF x
    <3> QED  BY <3>1, <2>4, <1>1
  <2>6. \E h \in Seq(Msgs) : Accepted(h) /\ msgs' = Append(h, Message("assistant", CallsOf(Len(batch'), replies')))
    BY <1>1, <2>1, <2>5 DEF n, r
  <2> QED  BY <2>1, <2>5, <2>6 DEF MsgsInv, Asked
<1> QED  BY <1>2, <1>3, <1>4 DEF Reply

(* The results of a batch, or what its repair puts in their place, answer  *)
(* its calls.                                                              *)
LEMMA MsgsAfterBatch ==
  ASSUME IInv, MsgsInv, NothingDropped, AfterBatch
  PROVE  MsgsInv'
<1>1. BatchEnds /\ phase = "batch" /\ phase' # "batch"
  BY DEF AfterBatch, BatchDone, BatchFails, BatchSucceeds, BatchEnds, EndWith, NextTurn
<1> DEFINE r == msgs \o ToolMessages(Results)
<1>2. ASSUME BatchError \in {"none", "done"} PROVE r \in Seq(Msgs) /\ Accepted(r)
  <2>1. Listing(Results, Len(batch))
    BY <1>1, <1>2, AllAnswered
  <2> QED  BY <1>1, <2>1, BatchAnswered
<1> HIDE DEF r
<1>3. CASE BatchDone
  BY <1>1, <1>2, <1>3 DEF BatchDone, MsgsInv, r
<1>4. CASE BatchFails
  <2>1. Listing(Repaired, Len(batch))
    BY RestAnswered
  <2>2. msgs' = msgs \o ToolMessages(Repaired)
    BY <1>4 DEF BatchFails
  <2>3. msgs' \in Seq(Msgs) /\ Accepted(msgs')
    BY <1>1, <2>1, <2>2, BatchAnswered
  <2> QED  BY <1>1, <2>3 DEF MsgsInv
<1>5. CASE BatchSucceeds
  <2>1. \E a, c \in {0, 1} : LET base == r \o Notes(a)
                            IN  msgs' = base \/ msgs' = base \o Notes(c) \o Notes(steers)
    BY <1>5 DEF BatchSucceeds, r
  <2>2. PICK a \in {0, 1}, c \in {0, 1} :
          \/ msgs' = r \o Notes(a)
          \/ msgs' = r \o Notes(a) \o Notes(c) \o Notes(steers)
    BY <2>1
  <2>3. a \in Nat /\ c \in Nat /\ steers \in Nat
    BY DEF IInv, TypeOK
  <2>4. r \in Seq(Msgs) /\ Accepted(r)
    BY <1>2, <1>5 DEF BatchSucceeds
  <2>5. r \o Notes(a) \in Seq(Msgs) /\ Accepted(r \o Notes(a))
    BY <2>3, <2>4, NotesAccepted, MoreAccepted
  <2> DEFINE s == r \o Notes(a)
  <2> HIDE DEF s
  <2>6. s \o Notes(c) \in Seq(Msgs) /\ Accepted(s \o Notes(c))
    BY <2>3, <2>5, NotesAccepted, MoreAccepted DEF s
  <2> DEFINE u == s \o Notes(c)
  <2> HIDE DEF u
  <2>7. u \o Notes(steers) \in Seq(Msgs) /\ Accepted(u \o Notes(steers))
    BY <2>3, <2>6, NotesAccepted, MoreAccepted DEF u
  <2>8. msgs' \in Seq(Msgs) /\ Accepted(msgs')
    BY <2>2, <2>5, <2>7 DEF s, u
  <2> QED  BY <1>1, <2>8 DEF MsgsInv
<1> QED  BY <1>3, <1>4, <1>5 DEF AfterBatch

LEMMA MsgsInit == ASSUME Init PROVE MsgsInv
<1>1. PICK p \in Priors : msgs = Append(p, User)
  BY DEF Init
<1>2. p \in Seq(Msgs) /\ Accepted(p)
  BY LoopAssumption DEF LoopAssumption, Msgs
<1>3. <<User>> \in Seq(Msgs) /\ Accepted(<<User>>) /\ User \in Msgs
  BY TextAccepted, MsgsCall
<1>4. p \o <<User>> \in Seq(Msgs) /\ Accepted(p \o <<User>>)
  BY <1>2, <1>3, MoreAccepted
<1>5. msgs = p \o <<User>>
  BY <1>1, <1>2, <1>3
<1> QED  BY <1>4, <1>5 DEF MsgsInv, Init

LEMMA MsgsStep ==
  ASSUME IInv, NothingDropped, MsgsInv, [Next]_vars
  PROVE  MsgsInv'
<1>1. CASE OutOfTurns \/ Aborted \/ Send \/ Steer \/ Cancel \/ Interrupted \/ Overflow \/ CallFails
  BY <1>1, MsgsSteps
<1>2. CASE Reply
  BY <1>2, MsgsReplies
<1>3. CASE AfterBatch
  BY <1>3, MsgsAfterBatch
<1>4. CASE ToolStep \/ UNCHANGED vars
  <2>1. UNCHANGED <<phase, msgs, replies>>
    BY <1>4 DEF ToolStep, vars
  <2>2. UNCHANGED batch
    BY <1>4 DEF ToolStep, Step, Take, GiveUp, Enter, Finish, vars, batchVars
  <2> QED  BY <2>1, <2>2 DEF MsgsInv, Asked
<1> QED  BY <1>1, <1>2, <1>3, <1>4 DEF Next

LEMMA MsgsReplayable == ASSUME MsgsInv PROVE Replayable
BY DEF MsgsInv, Replayable

(***************************************************************************)
(* Compaction                                                              *)
(***************************************************************************)

(* What messages say, and the messages of a session.                       *)
Words == Tasks \cup {p.task : p \in Sessions} \cup {"ok", "nudge", "summary"}
Texts == {"ask", "note", "ping"}
Kinds == {"system", "assistant", "tool", "anchor", "stub"} \cup Texts
RoleOf(kind) == IF kind \in {"system", "assistant", "tool"} THEN kind ELSE "user"
Fields == [role : Roles, ids : CallIds, kind : Kinds, says : Seq(Words), size : Nat]
Formed(x) == /\ x.role = RoleOf(x.kind)
             /\ x.kind \in Texts => Len(x.says) = 1
Ctx == {x \in Fields : Formed(x)}

LEMMA CtxCall == Calling(Ctx)
BY DEF Calling, Ctx, Fields

LEMMA SizesCount == ASSUME NEW m \in Seq(Ctx) PROVE C!EstChars(m) \in Nat
<1>1. \A x \in Ctx : x.size \in Nat
  BY DEF Ctx, Fields
<1> QED  BY <1>1, EstType

(* The history of Conversation is the one of AgentLoop. *)
LEMMA SameConversation ==
  ASSUME NEW m
  PROVE  /\ C!Accepted(m) = Accepted(m) /\ C!AlignKeepAtUser(m) = AlignKeepAtUser(m)
         /\ C!Compacted(m) = Compacted(m)
         /\ \A S : C!First(S) = First(S)
         /\ \A n, S : C!InOrder(n, S) = InOrder(n, S)
<1>1. \A S : C!First(S) = First(S)
  BY DEF C!First, First
<1>2. \A n, S : C!InOrder(n, S) = InOrder(n, S)
  BY DEF C!InOrder, InOrder
<1>3. \A a : C!AlignKeepAtUser(a) = AlignKeepAtUser(a)
  BY <1>1 DEF C!AlignKeepAtUser, AlignKeepAtUser
<1>4. C!Compacted(m) = Compacted(m)
  BY <1>3 DEF C!Compacted, Compacted, C!User, User, C!Message, Message
<1>5. C!Accepted(m) = Accepted(m)
  BY DEF C!Accepted, Accepted, C!Answers, Answers, C!Belongs, Belongs
<1> QED  BY <1>1, <1>2, <1>3, <1>4, <1>5

(* The same messages, some of them smaller; only an anchor and a stub may  *)
(* say less.                                                               *)
Smaller(x, y) ==
  /\ y.role = x.role /\ y.ids = x.ids /\ y.kind = x.kind
  /\ x.kind \notin {"anchor", "stub"} => y.says = x.says
  /\ y.size <= x.size

(* The same messages, some of them shorter; that still say the same; and   *)
(* no result beyond the limit.                                             *)
Resized(m, o) == Len(o) = Len(m) /\ \A i \in 1 .. Len(m) : Smaller(m[i], o[i])
Saying(m, o)  == \A i \in 1 .. Len(m) : o[i].says = m[i].says
Capped(m)     == \A i \in 1 .. Len(m) : m[i].role = "tool" => m[i].size <= ToolLimit

LEMMA ResizedSelf == ASSUME NEW m \in Seq(Ctx) PROVE Resized(m, m)
<1>1. \A x \in Ctx : Smaller(x, x)
  BY DEF Smaller, Ctx, Fields
<1> QED  BY <1>1 DEF Resized

LEMMA ResizedTwice ==
  ASSUME NEW m \in Seq(Ctx), NEW o \in Seq(Ctx), NEW q \in Seq(Ctx), Resized(m, o), Resized(o, q)
  PROVE  Resized(m, q)
<1>1. ASSUME NEW i \in 1 .. Len(m) PROVE Smaller(m[i], q[i])
  <2>1. Smaller(m[i], o[i]) /\ Smaller(o[i], q[i])
    BY DEF Resized
  <2>2. m[i].size \in Nat /\ o[i].size \in Nat /\ q[i].size \in Nat
    <3>1. m[i] \in Ctx /\ o[i] \in Ctx /\ q[i] \in Ctx
      BY DEF Resized
    <3> QED  BY <3>1 DEF Ctx, Fields
  <2> QED  BY <2>1, <2>2 DEF Smaller
<1> QED  BY <1>1 DEF Resized

LEMMA ResizedCapped ==
  ASSUME NEW m \in Seq(Ctx), NEW o \in Seq(Ctx), Resized(m, o), Capped(m), ToolLimit \in Nat
  PROVE  Capped(o)
<1>1. ASSUME NEW i \in 1 .. Len(o), o[i].role = "tool" PROVE o[i].size <= ToolLimit
  <2>1. i \in 1 .. Len(m) /\ Smaller(m[i], o[i])
    BY DEF Resized
  <2>2. m[i].size \in Nat /\ o[i].size \in Nat
    <3>1. m[i] \in Ctx /\ o[i] \in Ctx
      BY <2>1
    <3> QED  BY <3>1 DEF Ctx, Fields
  <2> QED  BY <1>1, <2>1, <2>2 DEF Capped, Smaller
<1> QED  BY <1>1 DEF Capped

LEMMA ResizedAccepted ==
  ASSUME NEW m \in Seq(Ctx), NEW o \in Seq(Ctx), Resized(m, o), Accepted(m)
  PROVE  Accepted(o)
<1> DEFINE c == 0
<1>1. c \in Nat /\ c \in 0 .. Len(m) /\ c + (Len(m) - c) = Len(m) /\ Len(m) - c = Len(m) /\ 1 .. c = {}
  OBVIOUS
<1>2. 0 < Len(m) => m[0 + 1].role # "tool"
  BY DEF Accepted, Belongs
<1>3. Window(m, c, o, c)
  BY DEF Window, Resized, Smaller, Same
<1> HIDE DEF c
<1>4. c < Len(m) => m[c + 1].role # "tool"
  BY <1>2 DEF c
<1>5. Continues(m, c, o, c)
  BY <1>1, <1>3, <1>4 DEF Continues, Resized
<1> QED  BY <1>1, <1>5, CtxCall, WindowGood

(* A message that is smaller.                                              *)
LEMMA CutFormed ==
  ASSUME NEW x \in Ctx, NEW s \in Nat, s <= x.size, NEW y, y = [x EXCEPT !.size = s]
  PROVE  y \in Ctx /\ Smaller(x, y) /\ y.says = x.says
BY DEF Ctx, Fields, Formed, Smaller

LEMMA TruncatedIs ==
  ASSUME NEW a \in Nat, NEW b \in Nat
  PROVE  /\ C!Truncated(a, b) \in Nat /\ C!Truncated(a, b) <= a /\ C!Truncated(a, b) <= b
         /\ a <= b => C!Truncated(a, b) = a
BY DEF C!Truncated, C!Least

(* Trimming and the request's own cap only shorten results.                *)
LEMMA TrimIs ==
  ASSUME NEW m \in Seq(Ctx), NEW recent \in Nat, NEW older \in Nat
  PROVE  /\ C!Trim(m, recent, older) \in Seq(Ctx)
         /\ Resized(m, C!Trim(m, recent, older))
         /\ Saying(m, C!Trim(m, recent, older))
<1> DEFINE o == C!Trim(m, recent, older)
<1>1. ASSUME NEW i \in 1 .. Len(m) PROVE o[i] \in Ctx /\ Smaller(m[i], o[i]) /\ o[i].says = m[i].says
  <2>1. m[i] \in Ctx /\ m[i].size \in Nat
    <3>1. m[i] \in Ctx
      OBVIOUS
    <3> QED  BY <3>1 DEF Ctx, Fields
  <2>2. \E s \in {recent, older} : o[i] = m[i] \/ o[i] = [m[i] EXCEPT !.size = C!Truncated(m[i].size, s)]
    <3> DEFINE old == C!Cardinality({j \in i .. Len(m) : m[j].role = "tool"}) > OlderAfter
    <3>1. o[i] = IF m[i].role # "tool" THEN m[i]
                 ELSE [m[i] EXCEPT !.size = C!Truncated(@, IF old THEN older ELSE recent)]
      BY DEF C!Trim
    <3> HIDE DEF o, old
    <3> QED  BY <3>1
  <2>3. PICK s \in {recent, older} : o[i] = m[i] \/ o[i] = [m[i] EXCEPT !.size = C!Truncated(m[i].size, s)]
    BY <2>2
  <2> HIDE DEF o
  <2>4. C!Truncated(m[i].size, s) \in Nat /\ C!Truncated(m[i].size, s) <= m[i].size
    BY <2>1, TruncatedIs
  <2>5. CASE o[i] = m[i]
    BY <2>1, <2>5 DEF Smaller
  <2>6. CASE o[i] = [m[i] EXCEPT !.size = C!Truncated(m[i].size, s)]
    BY <2>1, <2>4, <2>6, CutFormed
  <2> QED  BY <2>3, <2>5, <2>6
<1>2. o = [i \in 1 .. Len(m) |-> o[i]]
  BY DEF C!Trim
<1> HIDE DEF o
<1>3. o \in Seq(Ctx) /\ Len(o) = Len(m)
  <2>1. o \in [1 .. Len(m) -> Ctx] /\ Len(m) \in Nat
    BY <1>1, <1>2
  <2> HIDE DEF Ctx
  <2> QED  BY <2>1
<1>4. Resized(m, o) /\ Saying(m, o)
  BY <1>1, <1>3 DEF Resized, Saying
<1> QED  BY <1>3, <1>4 DEF o

(* A cap changes a message and nothing of those before and after it.       *)
Limited(x) == IF x.role # "tool" THEN x ELSE [x EXCEPT !.size = C!Truncated(@, ToolLimit)]

LEMMA CapIs ==
  ASSUME NEW m \in Seq(Ctx), ToolLimit \in Nat
  PROVE  /\ C!Cap(m) = [i \in 1 .. Len(m) |-> Limited(m[i])]
         /\ C!Cap(m) \in Seq(Ctx) /\ Resized(m, C!Cap(m))
         /\ Capped(m) => C!Cap(m) = m
<1>1. C!Cap(m) = [i \in 1 .. Len(m) |-> Limited(m[i])]
  BY DEF C!Cap, C!Trim, Limited
<1>2. C!Cap(m) \in Seq(Ctx) /\ Resized(m, C!Cap(m))
  BY TrimIs DEF C!Cap
<1>3. ASSUME Capped(m) PROVE C!Cap(m) = m
  <2>1. ASSUME NEW i \in 1 .. Len(m) PROVE C!Cap(m)[i] = m[i]
    <3>1. m[i] \in Ctx
      OBVIOUS
    <3>2. m[i].size \in Nat /\ m[i] \in Fields
      BY <3>1 DEF Ctx, Fields
    <3>3. CASE m[i].role = "tool"
      <4>1. C!Truncated(m[i].size, ToolLimit) = m[i].size
        BY <1>3, <3>2, <3>3, TruncatedIs DEF Capped
      <4>2. C!Cap(m)[i] = [m[i] EXCEPT !.size = m[i].size]
        BY <1>1, <3>3, <4>1 DEF Limited
      <4> QED  BY <3>2, <4>2 DEF Fields
    <3>4. CASE m[i].role # "tool"
      BY <1>1, <3>4 DEF Limited
    <3> QED  BY <3>3, <3>4
  <2> HIDE DEF Ctx
  <2> QED  BY <2>1, <1>1
<1> QED  BY <1>1, <1>2, <1>3

(* What grows by numbers is bounded.  Snipping, a round for each result.   *)
LEMMA Bounded ==
  ASSUME NEW n \in Nat, NEW f \in [1 .. n -> Nat]
  PROVE  \E b \in Nat : \A i \in 1 .. n : f[i] <= b
<1> DEFINE P(k) == \E b \in Nat : \A i \in 1 .. k : f[i] <= b
           T    == {k \in 0 .. n : P(k)}
<1>1. P(0)
  OBVIOUS
<1>2. ASSUME NEW k \in 1 .. n, P(k - 1) PROVE P(k)
  <2>1. PICK b \in Nat : \A i \in 1 .. k - 1 : f[i] <= b
    BY <1>2
  <2> DEFINE c == IF f[k] <= b THEN b ELSE f[k]
  <2>2. c \in Nat /\ b <= c /\ f[k] <= c
    OBVIOUS
  <2> HIDE DEF c
  <2>3. ASSUME NEW i \in 1 .. k PROVE f[i] <= c
    <3>1. CASE i = k
      BY <3>1, <2>2
    <3>2. CASE i # k
      <4>1. i \in 1 .. k - 1 /\ f[i] \in Nat
        BY <3>2
      <4> QED  BY <4>1, <2>1, <2>2
    <3> QED  BY <3>1, <3>2
  <2> QED  BY <2>2, <2>3
<1> HIDE DEF P
<1>3. Climbs(T, n)
  BY <1>1, <1>2 DEF Climbs
<1>4. P(n)
  BY <1>3, Climbing
<1> QED  BY <1>4 DEF P

LEMMA GreatestExists ==
  ASSUME NEW b \in Nat, NEW S \in SUBSET Nat, S # {}, \A v \in S : v <= b
  PROVE  \E w \in S : \A v \in S : v <= w
<1> DEFINE T == {b + 1 - v : v \in S}
<1>1. T \in SUBSET (Nat \ {0}) /\ T # {}
  <2>1. ASSUME NEW v \in S PROVE b + 1 - v \in Nat \ {0}
    <3>1. v \in Nat /\ v <= b
      OBVIOUS
    <3> QED  BY <3>1
  <2> QED  BY <2>1
<1>2. PICK t \in T : \A u \in T : t <= u
  BY <1>1, LeastExists
<1>3. PICK w \in S : t = b + 1 - w
  OBVIOUS
<1>4. ASSUME NEW v \in S PROVE v <= w
  <2>1. t <= b + 1 - v
    BY <1>2
  <2>2. v \in Nat /\ w \in Nat
    OBVIOUS
  <2> QED  BY <2>1, <2>2, <1>3
<1> QED  BY <1>4

(* Of some results one is the longest.                                     *)
LEMMA GreatestAt ==
  ASSUME NEW n \in Nat, NEW f \in [1 .. n -> Nat], NEW S, S \subseteq 1 .. n, S # {}
  PROVE  \E x \in S : \A y \in S : f[y] <= f[x]
<1> DEFINE W == {f[x] : x \in S}
<1>1. PICK b \in Nat : \A i \in 1 .. n : f[i] <= b
  BY Bounded
<1>2. W \in SUBSET Nat /\ W # {} /\ \A v \in W : v <= b
  BY <1>1
<1>3. PICK w \in W : \A v \in W : v <= w
  <2> HIDE DEF W
  <2> QED  BY <1>2, GreatestExists
<1>4. PICK x \in S : w = f[x]
  OBVIOUS
<1> QED  BY <1>3, <1>4

(* Cutting one result.                                                     *)
LEMMA CutIs ==
  ASSUME C!ContextAssumption, NEW m \in Seq(Ctx), NEW i, NEW target \in Int
  PROVE  /\ C!Cut(m, i, target) \in Seq(Ctx)
         /\ Resized(m, C!Cut(m, i, target)) /\ Saying(m, C!Cut(m, i, target))
         /\ \A j \in 1 .. Len(m) : j # i => C!Cut(m, i, target)[j] = m[j]
         /\ i \in 1 .. Len(m) => C!Cut(m, i, target)[i].size <= ToolLimit
<1> DEFINE o == C!Cut(m, i, target)
           need == C!EstChars(m) - target
           most == C!Least(m[i].size, C!Most(ToolLimit, C!Floor))
           s == IF need > 0 THEN C!Least(most, C!Most(C!Floor, m[i].size - need)) ELSE most
<1>1. o = [m EXCEPT ![i].size = s]
  BY DEF C!Cut
<1>2. need \in Int
  BY SizesCount
<1>3. CASE i \in 1 .. Len(m)
  <2>1. m[i] \in Ctx /\ m[i].size \in Nat
    <3>1. m[i] \in Ctx
      BY <1>3
    <3> QED  BY <3>1 DEF Ctx, Fields
  <2> HIDE DEF need
  <2>a. most \in Nat /\ most <= m[i].size /\ most <= ToolLimit
    BY <2>1 DEF C!ContextAssumption, C!Floor, C!Least, C!Most
  <2> HIDE DEF most
  <2>b. C!Most(C!Floor, m[i].size - need) \in Nat
    BY <1>2, <2>1 DEF C!Floor, C!Most
  <2>2. s \in Nat /\ s <= m[i].size /\ s <= ToolLimit
    <3> DEFINE y == C!Most(C!Floor, m[i].size - need)
    <3>1. y \in Nat
      BY <2>b
    <3> HIDE DEF y
    <3>2. C!Least(most, y) \in Nat /\ C!Least(most, y) <= most
      BY <2>a, <3>1 DEF C!Least
    <3>3. s = most \/ s = C!Least(most, y)
      BY DEF y
    <3> HIDE DEF s
    <3>4. ToolLimit \in Nat
      BY DEF C!ContextAssumption
    <3> QED  BY <2>1, <2>a, <3>2, <3>3, <3>4
  <2> HIDE DEF o, s
  <2>c. m = [j \in 1 .. Len(m) |-> m[j]]
    OBVIOUS
  <2>3. /\ o = [j \in 1 .. Len(m) |-> o[j]]
        /\ o[i] = [m[i] EXCEPT !.size = s]
        /\ \A j \in 1 .. Len(m) : j # i => o[j] = m[j]
    BY <1>1, <1>3, <2>c
  <2>4. o[i] \in Ctx /\ Smaller(m[i], o[i]) /\ o[i].says = m[i].says /\ o[i].size = s
    <3>1. [m[i] EXCEPT !.size = s].size = s
      BY <2>1 DEF Ctx, Fields
    <3>2. o[i] \in Ctx /\ Smaller(m[i], o[i]) /\ o[i].says = m[i].says
      BY <2>1, <2>2, <2>3, CutFormed
    <3> QED  BY <2>3, <3>1, <3>2
  <2>5. \A x \in Ctx : Smaller(x, x)
    BY DEF Smaller, Ctx, Fields
  <2>6. ASSUME NEW j \in 1 .. Len(m) PROVE o[j] \in Ctx /\ Smaller(m[j], o[j]) /\ o[j].says = m[j].says
    <3>1. CASE j = i
      BY <3>1, <2>4
    <3>2. CASE j # i
      <4>1. o[j] = m[j] /\ m[j] \in Ctx
        BY <3>2, <2>3
      <4> QED  BY <4>1, <2>5
    <3> QED  BY <3>1, <3>2
  <2>7. o \in Seq(Ctx) /\ Len(o) = Len(m)
    <3>1. o \in [1 .. Len(m) -> Ctx] /\ Len(m) \in Nat
      BY <2>3, <2>6
    <3> HIDE DEF Ctx
    <3> QED  BY <3>1
  <2>8. Resized(m, o) /\ Saying(m, o)
    BY <2>6, <2>7 DEF Resized, Saying
  <2>9. o[i].size <= ToolLimit
    BY <2>2, <2>4
  <2> QED  BY <2>3, <2>7, <2>8, <2>9 DEF o
<1>4. CASE i \notin 1 .. Len(m)
  <2>1. o = m
    <3> HIDE DEF s, o
    <3> QED  BY <1>1, <1>4
  <2>2. Resized(m, m) /\ Saying(m, m)
    BY ResizedSelf DEF Saying
  <2> HIDE DEF o
  <2>3. o \in Seq(Ctx) /\ Resized(m, o) /\ Saying(m, o) /\ \A j \in 1 .. Len(m) : o[j] = m[j]
    BY <2>1, <2>2
  <2> QED  BY <1>4, <2>3 DEF o
<1> QED  BY <1>3, <1>4

(* How far snipping has come: what is left to look at, and the rest cut.   *)
Snipping(m, long, k, r) ==
  /\ r.cut \in Seq(Ctx) /\ Resized(m, r.cut) /\ Saying(m, r.cut)
  /\ r.left \subseteq long /\ Cardinality(r.left) = Cardinality(long) - k
  /\ \A j \in long \ r.left : r.cut[j].size <= ToolLimit

LEMMA OneLess ==
  ASSUME NEW S, IsFiniteSet(S), NEW x \in S
  PROVE  Cardinality(S \ {x}) = Cardinality(S) - 1
BY FS_RemoveElement

(* A round of Snip cuts the longest that is left.                          *)
LEMMA SnipStep ==
  ASSUME C!ContextAssumption, NEW m \in Seq(Ctx), NEW target \in Int,
         NEW long, long \subseteq 1 .. Len(m), IsFiniteSet(long),
         NEW k \in 1 .. Cardinality(long), NEW r, Snipping(m, long, k - 1, r),
         NEW i, i = C!Longest(r.cut, r.left),
         NEW q, q = [cut |-> C!Cut(r.cut, i, target), left |-> r.left \ {i}]
  PROVE  Snipping(m, long, k, q)
<1> DEFINE a == r.cut
           b == C!Cut(a, i, target)
           S == r.left
<1>1. /\ a \in Seq(Ctx) /\ Resized(m, a) /\ Saying(m, a)
      /\ S \subseteq long /\ Cardinality(S) = Cardinality(long) - (k - 1)
      /\ \A j \in long \ S : a[j].size <= ToolLimit
  BY DEF Snipping
<1>2. i = C!Longest(a, S)
  OBVIOUS
<1>3. q.cut = b /\ q.left = S \ {i}
  OBVIOUS
<1>4. Cardinality(long) \in Nat /\ Len(m) \in Nat
  BY FS_CardinalityType
<1>5. IsFiniteSet(S)
  BY <1>1, FS_Subset
<1> HIDE DEF a, S
<1>6. S # {}
  <2>1. Cardinality(S) = Cardinality(long) - (k - 1)
    BY <1>1
  <2>2. Cardinality(S) # 0
    BY <2>1, <1>4
  <2> QED  BY <2>2, FS_EmptySet
<1>7. i \in S
  <2> DEFINE L == {x \in S : \A y \in S : a[y].size <= a[x].size}
  <2>1. S \subseteq 1 .. Len(m) /\ \A x \in S : a[x].size \in Nat
    <3>1. S \subseteq 1 .. Len(a)
      BY <1>1 DEF Resized
    <3>2. ASSUME NEW x \in S PROVE a[x].size \in Nat
      <4>1. a[x] \in Ctx
        BY <3>1, <1>1
      <4> QED  BY <4>1 DEF Ctx, Fields
    <3> QED  BY <1>1, <3>2
  <2>2. L # {}
    <3> DEFINE f == [x \in 1 .. Len(m) |-> a[x].size]
    <3>1. f \in [1 .. Len(m) -> Nat] /\ Len(m) \in Nat
      <4>1. ASSUME NEW x \in 1 .. Len(m) PROVE a[x].size \in Nat
        <5>1. a[x] \in Ctx
          BY <1>1 DEF Resized
        <5> QED  BY <5>1 DEF Ctx, Fields
      <4> QED  BY <4>1
    <3>2. \A x \in S : f[x] = a[x].size
      BY <2>1
    <3> HIDE DEF f
    <3>3. PICK x \in S : \A y \in S : f[y] <= f[x]
      BY <3>1, <2>1, <1>6, GreatestAt
    <3> QED  BY <3>2, <3>3
  <2>3. C!First(L) \in L
    <3>1. L \subseteq 1 .. Len(m)
      BY <2>1
    <3> HIDE DEF L
    <3> QED  BY <3>1, <2>2, FirstIs, SameConversation
  <2>4. i = C!First(L)
    BY <1>2 DEF C!Longest
  <2> QED  BY <2>3, <2>4
<1>8. /\ b \in Seq(Ctx) /\ Resized(a, b) /\ Saying(a, b)
      /\ \A j \in 1 .. Len(a) : j # i => b[j] = a[j]
      /\ i \in 1 .. Len(a) => b[i].size <= ToolLimit
  BY <1>1, CutIs
<1> HIDE DEF b
<1>9. Len(a) = Len(m) /\ i \in 1 .. Len(a)
  BY <1>1, <1>7 DEF Resized
<1>10. Resized(m, b)
  BY <1>1, <1>8, ResizedTwice
<1>11. Saying(m, b)
  BY <1>1, <1>8, <1>9 DEF Saying
<1>12. Cardinality(S \ {i}) = Cardinality(long) - k
  <2>1. Cardinality(S \ {i}) = Cardinality(S) - 1
    BY <1>5, <1>7, OneLess
  <2> QED  BY <2>1, <1>1, <1>4
<1>13. ASSUME NEW j \in long \ (S \ {i}) PROVE b[j].size <= ToolLimit
  <2>1. CASE j = i
    BY <2>1, <1>8, <1>9
  <2>2. CASE j # i
    <3>1. j \in 1 .. Len(a) /\ j \in long \ S
      BY <2>2, <1>9
    <3> QED  BY <3>1, <2>2, <1>1, <1>8
  <2> QED  BY <2>1, <2>2
<1>14. S \ {i} \subseteq long
  BY <1>1
<1> QED  BY <1>3, <1>8, <1>10, <1>11, <1>12, <1>13, <1>14 DEF Snipping

LEMMA SameCardinality == ASSUME NEW S PROVE C!Cardinality(S) = Cardinality(S)
BY DEF C!Cardinality, Cardinality

(* Snipping keeps the messages and what they say, and no result is longer  *)
(* than the limit after it.                                                *)
LEMMA SnipIs ==
  ASSUME C!ContextAssumption, NEW m \in Seq(Ctx), NEW target \in Int
  PROVE  /\ C!Snip(m, target) \in Seq(Ctx)
         /\ Resized(m, C!Snip(m, target)) /\ Saying(m, C!Snip(m, target))
         /\ Capped(C!Snip(m, target))
<1> DEFINE long == {i \in DOMAIN m : m[i].role = "tool" /\ m[i].size > C!Floor}
           n == Cardinality(long)
           V == [cut : Seq(Ctx), left : SUBSET long]
           Pick(r) == C!Longest(r.cut, r.left)
           E(r) == [cut |-> C!Cut(r.cut, Pick(r), target), left |-> r.left \ {Pick(r)}]
           b == [cut |-> m, left |-> long]
           G == [i \in 1 .. n |-> [v \in V |-> E(v)]]
           Is(f) == f = [k \in 0 .. n |-> IF k = 0 THEN b ELSE E(f[k - 1])]
           u == CHOOSE f : Is(f)
<1>1. C!Snip(m, target) = u[n].cut
  BY SameCardinality DEF C!Snip
<1>2. long \subseteq 1 .. Len(m) /\ IsFiniteSet(long) /\ n \in Nat
  <2>1. long \subseteq 1 .. Len(m) /\ Len(m) \in Nat
    OBVIOUS
  <2>2. IsFiniteSet(1 .. Len(m))
    BY <2>1, FS_Interval
  <2> HIDE DEF long
  <2>3. IsFiniteSet(long)
    BY <2>1, <2>2, FS_Subset
  <2> QED  BY <2>1, <2>3, FS_CardinalityType
<1>a. \A j \in 1 .. Len(m) : m[j].role = "tool" /\ j \notin long => m[j].size <= ToolLimit
  <2>1. ASSUME NEW j \in 1 .. Len(m), m[j].role = "tool", j \notin long PROVE m[j].size <= ToolLimit
    <3>1. m[j] \in Ctx /\ ~(m[j].size > C!Floor)
      BY <2>1
    <3>2. m[j].size \in Nat
      BY <3>1 DEF Ctx, Fields
    <3> QED  BY <3>1, <3>2 DEF C!Floor, C!ContextAssumption
  <2> QED  BY <2>1
<1> HIDE DEF long, n
<1>3. ASSUME NEW r \in V PROVE E(r) \in V
  <2>1. r.cut \in Seq(Ctx) /\ r.left \subseteq long
    OBVIOUS
  <2>2. C!Cut(r.cut, Pick(r), target) \in Seq(Ctx)
    BY <2>1, CutIs
  <2> HIDE DEF Pick
  <2> QED  BY <2>1, <2>2
<1>4. b \in V
  OBVIOUS
<1> HIDE DEF V, E, b
<1>5. /\ G \in [1 .. n -> [V -> V]]
      /\ \A i \in 1 .. n, v \in V : G[i][v] = E(v)
  BY <1>3
<1> HIDE DEF G
<1>6. Is(u)
  <2>1. PICK f \in [0 .. n -> V] : Steps(f, G, b, n)
    BY <1>2, <1>4, <1>5, Recursion
  <2>2. ASSUME NEW i \in 1 .. n PROVE f[i] = E(f[i - 1])
    <3>1. f[i - 1] \in V
      BY <1>2, <2>1
    <3>2. f[i] = G[i][f[i - 1]]
      BY <2>1 DEF Steps
    <3> QED  BY <3>1, <3>2, <1>5
  <2>3. Is(f)
    BY <1>2, <2>1, <2>2 DEF Steps
  <2> QED  BY <2>3
<1> HIDE DEF u
<1>7. u[0] = b /\ \A i \in 1 .. n : u[i] = E(u[i - 1])
  BY <1>2, <1>6
<1> DEFINE P(k) == Snipping(m, long, k, u[k])
           T    == {k \in 0 .. n : P(k)}
<1>8. P(0)
  <2>1. u[0] = [cut |-> m, left |-> long]
    BY <1>7 DEF b
  <2>2. Resized(m, m) /\ Saying(m, m)
    BY ResizedSelf DEF Saying
  <2>3. u[0].cut = m /\ u[0].left = long
    BY <2>1
  <2>4. Cardinality(long) = Cardinality(long) - 0
    BY <1>2 DEF n
  <2> QED  BY <2>2, <2>3, <2>4 DEF Snipping
<1>9. ASSUME NEW k \in 1 .. n, P(k - 1) PROVE P(k)
  <2>1. u[k] = E(u[k - 1])
    BY <1>7
  <2> DEFINE r == u[k - 1]
             i == Pick(r)
             q == u[k]
  <2>2. Snipping(m, long, k - 1, r)
    BY <1>9
  <2>3. q = [cut |-> C!Cut(r.cut, i, target), left |-> r.left \ {i}]
    BY <2>1 DEF E
  <2>4. i = C!Longest(r.cut, r.left)
    OBVIOUS
  <2>5. k \in 1 .. Cardinality(long)
    BY DEF n
  <2> HIDE DEF r, i, q
  <2>6. Snipping(m, long, k, q)
    BY <1>2, <2>2, <2>3, <2>4, <2>5, SnipStep
  <2> QED  BY <2>6 DEF q
<1>10. P(n)
  <2> HIDE DEF P
  <2>1. Climbs(T, n)
    BY <1>2, <1>8, <1>9 DEF Climbs
  <2> QED  BY <1>2, <2>1, Climbing
<1> DEFINE r == u[n]
           o == r.cut
<1>11. /\ o \in Seq(Ctx) /\ Resized(m, o) /\ Saying(m, o)
       /\ r.left \subseteq long /\ Cardinality(r.left) = n - n
       /\ \A j \in long \ r.left : o[j].size <= ToolLimit
  BY <1>10 DEF Snipping, n
<1>12. r.left = {}
  <2>1. IsFiniteSet(r.left)
    BY <1>2, <1>11, FS_Subset
  <2>2. Cardinality(r.left) = 0
    BY <1>2, <1>11
  <2> QED  BY <2>1, <2>2, FS_EmptySet
<1> HIDE DEF r, o
<1>13. ASSUME NEW j \in 1 .. Len(o), o[j].role = "tool" PROVE o[j].size <= ToolLimit
  <2>1. j \in 1 .. Len(m) /\ Smaller(m[j], o[j])
    BY <1>11 DEF Resized
  <2>2. CASE j \in long
    BY <2>2, <1>11, <1>12
  <2>3. CASE j \notin long
    <3>1. m[j].size <= ToolLimit
      BY <2>1, <2>3, <1>13, <1>a DEF Smaller
    <3>2. m[j] \in Ctx /\ o[j] \in Ctx
      BY <2>1, <1>11
    <3>3. m[j].size \in Nat /\ o[j].size \in Nat /\ ToolLimit \in Nat
      BY <3>2 DEF Ctx, Fields, C!ContextAssumption
    <3> QED  BY <2>1, <3>1, <3>3 DEF Smaller
  <2> QED  BY <2>2, <2>3
<1>14. Capped(o)
  BY <1>13 DEF Capped
<1> QED  BY <1>1, <1>11, <1>14 DEF o, r

(* An anchor holds the first of some intents, as many as its size.         *)
AnchorOf(x, p) ==
  /\ x.size = Len(x.says) /\ x.size \in 1 .. Len(p)
  /\ \A i \in 1 .. x.size : x.says[i] = p[i]

(* What the user said and nothing cuts.                                    *)
Unmoved(m, o) == \A i \in 1 .. Len(m) : m[i].kind \in Texts => o[i] = m[i]

Pinned(m, p) == \A i \in 1 .. Len(m) : m[i].kind = "anchor" => AnchorOf(m[i], p)

(* A message that says something else, and is smaller.                     *)
LEMMA SaidFormed ==
  ASSUME NEW x \in Fields, NEW s \in Seq(Words), NEW n \in Nat, NEW y,
         y = [role |-> x.role, ids |-> x.ids, kind |-> x.kind, says |-> s, size |-> n]
  PROVE  /\ y \in Fields /\ y.role = x.role /\ y.ids = x.ids /\ y.kind = x.kind
         /\ y.size = n /\ y.says = s
<1>1. x.role \in Roles /\ x.ids \in CallIds /\ x.kind \in Kinds
  BY DEF Fields
<1> QED  BY <1>1 DEF Fields

(* Shortening an anchor leaves the first of its pins.                      *)
LEMMA ShortenIs ==
  ASSUME NEW m \in Seq(Ctx), NEW p \in Seq(Words), Pinned(m, p), NEW size \in Nat \ {0}
  PROVE  /\ C!Shorten(m, size) \in Seq(Ctx)
         /\ Resized(m, C!Shorten(m, size)) /\ Pinned(C!Shorten(m, size), p)
         /\ Unmoved(m, C!Shorten(m, size))
<1> DEFINE o == C!Shorten(m, size)
           F(x) == IF x.kind \in {"anchor", "stub"} /\ x.size > size
                   THEN [x EXCEPT !.size = size,
                                  !.says = IF x.kind = "anchor" THEN SubSeq(x.says, 1, size) ELSE <<>>]
                   ELSE x
<1>0. o = [i \in DOMAIN m |-> F(m[i])]
  BY DEF C!Shorten
<1>1. ASSUME NEW i \in 1 .. Len(m)
      PROVE  o[i] \in Ctx /\ Smaller(m[i], o[i]) /\ (o[i].kind = "anchor" => AnchorOf(o[i], p))
  <2> DEFINE x == m[i]
             y == o[i]
  <2>0. y = F(x)
    <3> HIDE DEF F, o
    <3> QED  BY <1>0
  <2> HIDE DEF o
  <2>1. x \in Ctx /\ (x.kind = "anchor" => AnchorOf(x, p))
    <3>1. x \in Ctx
      <4> HIDE DEF Ctx
      <4> QED  OBVIOUS
    <3> QED  BY <3>1 DEF Pinned
  <2> HIDE DEF x, y
  <2>2. x \in Fields /\ Formed(x) /\ x.size \in Nat /\ x.says \in Seq(Words)
    BY <2>1 DEF Ctx, Fields
  <2>r. x = [role |-> x.role, ids |-> x.ids, kind |-> x.kind, says |-> x.says, size |-> x.size]
    BY <2>2 DEF Fields
  <2>3. CASE ~(x.kind \in {"anchor", "stub"} /\ x.size > size)
    <3>1. y = x
      BY <2>0, <2>3 DEF F
    <3> QED  BY <3>1, <2>1, <2>2 DEF Smaller, x, y
  <2>4. CASE x.kind = "stub" /\ x.size > size
    <3>1. y = [x EXCEPT !.size = size, !.says = <<>>]
      BY <2>0, <2>4 DEF F
    <3>2. /\ y \in Fields /\ y.role = x.role /\ y.ids = x.ids /\ y.kind = x.kind
          /\ y.size = size /\ y.says = <<>>
      <4>1. <<>> \in Seq(Words)
        OBVIOUS
      <4>2. y = [role |-> x.role, ids |-> x.ids, kind |-> x.kind, says |-> <<>>, size |-> size]
        BY <2>r, <3>1
      <4> QED  BY <2>2, <4>1, <4>2, SaidFormed
    <3>3. Formed(y)
      BY <2>2, <2>4, <3>2 DEF Formed, Texts
    <3> QED  BY <2>2, <2>4, <3>2, <3>3 DEF Ctx, Smaller, x, y
  <2>5. CASE x.kind = "anchor" /\ x.size > size
    <3> DEFINE s == SubSeq(x.says, 1, size)
    <3>0. x.size = Len(x.says) /\ x.size \in 1 .. Len(p) /\ \A j \in 1 .. x.size : x.says[j] = p[j]
      BY <2>1, <2>5 DEF AnchorOf
    <3>1. s \in Seq(Words) /\ Len(s) = size /\ \A j \in 1 .. size : s[j] = x.says[j]
      BY <3>0, <2>2, <2>5
    <3>2. y = [x EXCEPT !.size = size, !.says = s]
      BY <2>0, <2>5 DEF F
    <3> HIDE DEF s
    <3>3. /\ y \in Fields /\ y.role = x.role /\ y.ids = x.ids /\ y.kind = x.kind
          /\ y.size = size /\ y.says = s
      <4>1. y = [role |-> x.role, ids |-> x.ids, kind |-> x.kind, says |-> s, size |-> size]
        BY <2>r, <3>2
      <4> QED  BY <2>2, <3>1, <4>1, SaidFormed
    <3>4. Formed(y)
      BY <2>2, <2>5, <3>3 DEF Formed, Texts
    <3>5. AnchorOf(y, p)
      <4>1. size <= x.size /\ size \in 1 .. Len(p)
        BY <2>5, <3>0
      <4>2. ASSUME NEW j \in 1 .. size PROVE s[j] = p[j]
        BY <3>0, <3>1, <4>1
      <4> QED  BY <3>1, <3>3, <4>1, <4>2 DEF AnchorOf
    <3> QED  BY <2>2, <2>5, <3>3, <3>4, <3>5 DEF Ctx, Smaller, x, y
  <2> QED  BY <2>3, <2>4, <2>5
<1>2. o = [i \in 1 .. Len(m) |-> o[i]]
  BY DEF C!Shorten
<1>5. Unmoved(m, o)
  <2>1. \A x : x.kind \in Texts => F(x) = x
    BY DEF Texts
  <2> HIDE DEF F, o
  <2> QED  BY <1>0, <2>1 DEF Unmoved
<1> HIDE DEF o, F
<1>3. o \in Seq(Ctx) /\ Len(o) = Len(m)
  <2>1. o \in [1 .. Len(m) -> Ctx] /\ Len(m) \in Nat
    BY <1>1, <1>2
  <2> HIDE DEF Ctx
  <2> QED  BY <2>1
<1>4. Resized(m, o) /\ Pinned(o, p)
  BY <1>1, <1>3 DEF Resized, Pinned
<1> QED  BY <1>3, <1>4, <1>5 DEF o

LEMMA TrimPinned ==
  ASSUME NEW m \in Seq(Ctx), NEW p, Pinned(m, p), NEW recent \in Nat, NEW older \in Nat
  PROVE  Pinned(C!Trim(m, recent, older), p) /\ Unmoved(m, C!Trim(m, recent, older))
<1> DEFINE o == C!Trim(m, recent, older)
<1>1. ASSUME NEW i \in 1 .. Len(m), o[i].kind = "anchor" PROVE AnchorOf(o[i], p)
  <2>1. Smaller(m[i], o[i])
    BY TrimIs DEF Resized
  <2>2. m[i].kind = "anchor" /\ m[i] \in Ctx
    BY <2>1, <1>1 DEF Smaller
  <2>3. m[i].role # "tool"
    BY <2>2 DEF Ctx, Formed, RoleOf
  <2>4. o[i] = m[i]
    BY <2>3 DEF C!Trim
  <2> QED  BY <2>2, <2>4 DEF Pinned
<1>2. Len(o) = Len(m)
  BY TrimIs DEF Resized
<1>3. ASSUME NEW i \in 1 .. Len(m), m[i].kind \in Texts PROVE o[i] = m[i]
  <2>1. m[i] \in Ctx
    OBVIOUS
  <2>2. m[i].role # "tool"
    BY <1>3, <2>1 DEF Ctx, Formed, RoleOf, Texts
  <2> QED  BY <2>2 DEF C!Trim
<1> QED  BY <1>1, <1>2, <1>3 DEF Pinned, Unmoved

(* The end of a round of CompactOpts only makes messages smaller.          *)
Shrunk(m, o, p) == o \in Seq(Ctx) /\ Resized(m, o) /\ Unmoved(m, o) /\ Pinned(o, p)

LEMMA ShrunkTwice ==
  ASSUME NEW m \in Seq(Ctx), NEW o, NEW q, NEW p, Shrunk(m, o, p), Shrunk(o, q, p)
  PROVE  Shrunk(m, q, p)
<1>1. Resized(m, q)
  BY ResizedTwice DEF Shrunk
<1>2. ASSUME NEW i \in 1 .. Len(m), m[i].kind \in Texts PROVE q[i] = m[i]
  BY <1>2 DEF Shrunk, Resized, Unmoved
<1> QED  BY <1>1, <1>2 DEF Shrunk, Unmoved

(* All that Rebuilt shortens: results, then the anchor, twice.             *)
LEMMA ShrinkIs ==
  ASSUME NEW m \in Seq(Ctx), NEW p \in Seq(Words), Pinned(m, p), NEW target
  PROVE  Shrunk(m, C!ShrinkAnchors(m, target), p)
<1> DEFINE Less(s, size) == IF C!EstChars(s) <= target THEN s ELSE C!Shorten(s, size)
           a == Less(m, 6)
           b == Less(a, 2)
           c == Less(b, 1)
<1>1. C!ShrinkAnchors(m, target) = c
  BY DEF C!ShrinkAnchors
<1>2. ASSUME NEW s \in Seq(Ctx), Pinned(s, p), NEW size \in Nat \ {0} PROVE Shrunk(s, Less(s, size), p)
  BY <1>2, ShortenIs, ResizedSelf DEF Shrunk, Unmoved
<1> HIDE DEF Less
<1>3. Shrunk(m, a, p)
  BY <1>2
<1>4. a \in Seq(Ctx) /\ Pinned(a, p)
  BY <1>3 DEF Shrunk
<1> HIDE DEF a
<1>5. Shrunk(a, b, p)
  BY <1>2, <1>4
<1>6. b \in Seq(Ctx) /\ Pinned(b, p)
  BY <1>5 DEF Shrunk
<1> HIDE DEF b
<1>7. Shrunk(b, c, p)
  BY <1>2, <1>6
<1> HIDE DEF c
<1>8. Shrunk(m, b, p)
  BY <1>3, <1>5, ShrunkTwice
<1> QED  BY <1>1, <1>7, <1>8, ShrunkTwice

(* Concatenating, and the pins of a history, message by message.           *)
LEMMA FlattenType ==
  ASSUME NEW W, NEW s \in Seq(Seq(W))
  PROVE  C!FlattenSeq(s) \in Seq(W)
<1> DEFINE n == Len(s)
           V == Seq(W)
           E(i, v) == IF i = 1 THEN s[i] ELSE v \o s[i]
           G == [i \in 1 .. n |-> [v \in V |-> E(i, v)]]
           Is(f) == f = [i \in 1 .. n |-> E(i, f[i - 1])]
           u == CHOOSE f : Is(f)
<1>1. CASE n = 0
  BY <1>1 DEF C!FlattenSeq
<1>2. CASE n # 0
  <2>1. C!FlattenSeq(s) = u[n] /\ n \in Nat \ {0}
    BY <1>2 DEF C!FlattenSeq
  <2>2. ASSUME NEW i \in 1 .. n, NEW v \in V PROVE E(i, v) \in V
    <3>1. s[i] \in V
      OBVIOUS
    <3> QED  BY <3>1
  <2>3. <<>> \in V /\ s[1] \in V
    BY <1>2
  <2>4. \A v, w : E(1, v) = E(1, w)
    OBVIOUS
  <2> HIDE DEF V, E
  <2>5. /\ G \in [1 .. n -> [V -> V]]
        /\ \A i \in 1 .. n, v \in V : G[i][v] = E(i, v)
    BY <2>2
  <2> HIDE DEF G, n
  <2>6. PICK f \in [0 .. n -> V] : Steps(f, G, <<>>, n)
    BY <2>1, <2>3, <2>5, Recursion
  <2>7. ASSUME NEW i \in 1 .. n PROVE f[i] \in V /\ f[i] = E(i, f[i - 1])
    <3>1. f[i - 1] \in V /\ f[i] \in V
      BY <2>1, <2>6
    <3>2. f[i] = G[i][f[i - 1]]
      BY <2>6 DEF Steps
    <3> QED  BY <3>1, <3>2, <2>5
  <2> DEFINE g == [i \in 1 .. n |-> f[i]]
  <2>8. ASSUME NEW i \in 1 .. n PROVE g[i] = E(i, g[i - 1])
    <3>1. CASE i = 1
      BY <3>1, <2>4, <2>7
    <3>2. CASE i # 1
      <4>1. i - 1 \in 1 .. n
        BY <3>2, <2>1
      <4> QED  BY <4>1, <2>7
    <3> QED  BY <3>1, <3>2
  <2>9. Is(g)
    BY <2>8
  <2>10. Is(u)
    <3> HIDE DEF g
    <3> QED  BY <2>9
  <2> HIDE DEF u
  <2>11. \A i \in 1 .. n : u[i] = E(i, u[i - 1])
    BY <2>10
  <2> DEFINE T == {i \in 0 .. n : i = 0 \/ u[i] \in V}
  <2>12. ASSUME NEW i \in 1 .. n, i - 1 \in T PROVE i \in T
    <3>1. CASE i = 1
      <4>1. E(1, <<>>) \in V
        BY <2>1, <2>2, <2>3
      <4>2. u[1] = E(1, u[0])
        BY <3>1, <2>11
      <4> QED  BY <3>1, <4>1, <4>2, <2>4, <2>1
    <3>2. CASE i # 1
      <4>1. u[i - 1] \in V
        BY <3>2, <2>12
      <4> QED  BY <4>1, <2>2, <2>11
    <3> QED  BY <3>1, <3>2
  <2>13. Climbs(T, n)
    BY <2>1, <2>12 DEF Climbs
  <2>14. n \in T
    BY <2>1, <2>13, Climbing
  <2> QED  BY <2>1, <2>14 DEF V
<1> QED  BY <1>1, <1>2

LEMMA TextFormed ==
  ASSUME NEW kind \in Texts \cup {"anchor", "stub"}, NEW says \in Seq(Words), NEW size \in Nat,
         kind \in Texts => Len(says) = 1
  PROVE  C!Text(kind, says, size) \in Ctx
<1> DEFINE x == C!Text(kind, says, size)
<1>1. x = [role |-> "user", ids |-> <<>>, kind |-> kind, says |-> says, size |-> size]
  BY DEF C!Text
<1>2. <<>> \in CallIds /\ "user" \in Roles /\ kind \in Kinds
  BY DEF CallIds, Roles, Kinds
<1> HIDE DEF x
<1>3. x \in Fields
  BY <1>1, <1>2 DEF Fields
<1>4. RoleOf(kind) = "user"
  BY DEF RoleOf, Texts
<1> QED  BY <1>1, <1>3, <1>4 DEF Ctx, Formed, x

LEMMA StubIs ==
  ASSUME NEW dropped \in Seq(Ctx), NEW pins
  PROVE  /\ C!Stub(dropped, pins) \in Ctx
         /\ C!Stub(dropped, pins).kind = "stub" /\ C!Stub(dropped, pins).ids = <<>>
<1> DEFINE S == {i \in DOMAIN dropped : C!IsUser(dropped[i]) /\ dropped[i].kind # "stub"}
           users == C!InOrder(Len(dropped), S)
           n == Len(users)
           shown == IF n > 4 THEN <<users[1], users[n - 1], users[n]>> ELSE users
           list == [i \in DOMAIN shown |-> dropped[shown[i]].says]
           says == C!FlattenSeq(list)
<1>1. C!Stub(dropped, pins) = IF pins = <<>> THEN C!Text("stub", says, C!StubSize + Len(shown))
                              ELSE C!Text("stub", <<>>, C!StubSize)
  BY DEF C!Stub
<1> DEFINE D == 1 .. Len(dropped)
<1>2. users \in Seq(D)
  <2> HIDE DEF S
  <2>1. Lists(InOrder(Len(dropped), S), S \cap D)
    BY InOrderLists
  <2>2. InOrder(Len(dropped), S) = users
    BY SameConversation
  <2>3. users \in Seq(S \cap D)
    BY <2>1, <2>2 DEF Lists
  <2> HIDE DEF users, D
  <2> QED  BY <2>3, SeqMonotonic
<1> HIDE DEF users
<1>3. shown \in Seq(D)
  <2>1. CASE n > 4
    <3>1. n \in Nat /\ 1 \in 1 .. n /\ n - 1 \in 1 .. n /\ n \in 1 .. n
      BY <1>2, <2>1
    <3> HIDE DEF D
    <3>2. users[1] \in D /\ users[n - 1] \in D /\ users[n] \in D
      BY <1>2, <3>1
    <3> HIDE DEF n
    <3> QED  BY <2>1, <3>2
  <2>2. CASE ~(n > 4)
    BY <2>2, <1>2
  <2> QED  BY <2>1, <2>2
<1> HIDE DEF shown
<1>4. list \in Seq(Seq(Words))
  <2>1. ASSUME NEW i \in 1 .. Len(shown) PROVE dropped[shown[i]].says \in Seq(Words)
    <3>1. shown[i] \in D
      <4> HIDE DEF D
      <4> QED  BY <1>3
    <3>2. dropped[shown[i]] \in Ctx
      BY <3>1
    <3> QED  BY <3>2 DEF Ctx, Fields
  <2>2. DOMAIN shown = 1 .. Len(shown) /\ Len(shown) \in Nat
    <3> HIDE DEF D
    <3> QED  BY <1>3
  <2>3. list \in [1 .. Len(shown) -> Seq(Words)]
    BY <2>1, <2>2
  <2> HIDE DEF list
  <2> QED  BY <2>2, <2>3
<1> HIDE DEF list
<1>5. says \in Seq(Words)
  BY <1>4, FlattenType
<1> HIDE DEF says
<1>6. Len(shown) \in Nat
  <2> HIDE DEF D
  <2> QED  BY <1>3
<1>7. C!StubSize + Len(shown) \in Nat /\ C!StubSize \in Nat
  BY <1>6 DEF C!StubSize
<1>8. <<>> \in Seq(Words)
  OBVIOUS
<1>9. ASSUME NEW s \in Seq(Words), NEW z \in Nat 
      PROVE  C!Text("stub", s, z) \in Ctx /\ C!Text("stub", s, z).kind = "stub" /\ C!Text("stub", s, z).ids = <<>>
  BY TextFormed DEF Texts, C!Text
<1> QED  BY <1>1, <1>5, <1>7, <1>8, <1>9

(* A message that says what the user wants.                                *)
Want(x) == x.kind \in {"ask", "note"}

(* The intents that pins are collected from: those no kept text says.      *)
Open(r, kept, i) == Want(r[i]) /\ r[i].says \notin C!Says(kept)

(* What is known of the pins of the first k messages.                      *)
PinsOf(r, kept, k, p) ==
  /\ p \in Seq(Words) /\ Len(p) <= MaxPins
  /\ \A i, j \in 1 .. Len(p) : p[i] = p[j] => i = j
  /\ \A i \in 1 .. Len(p) : \E j \in 1 .. k : Open(r, kept, j) /\ r[j].says[1] = p[i]
  /\ \A j \in 1 .. k : Open(r, kept, j) =>
        Len(p) = MaxPins \/ \E i \in 1 .. Len(p) : p[i] = r[j].says[1]
  /\ \A f \in 1 .. k : Open(r, kept, f) /\ (\A j \in 1 .. f - 1 : ~Want(r[j])) =>
        Len(p) > 0 /\ p[1] = r[f].says[1]

(* A message adds its intent unless it is known or there are enough.       *)
LEMMA PinsStep ==
  ASSUME MaxPins \in Nat \ {0}, NEW r \in Seq(Ctx), NEW kept, NEW k \in 1 .. Len(r),
         NEW p, PinsOf(r, kept, k - 1, p), NEW q,
         q = IF \/ ~C!IsText(r[k]) \/ r[k].kind = "ping" \/ r[k].says \in C!Says(kept)
                \/ Len(p) = MaxPins \/ C!Contains(p, r[k].says[1])
             THEN p ELSE Append(p, r[k].says[1])
  PROVE  PinsOf(r, kept, k, q)
<1> DEFINE w == r[k].says[1]
           here == Open(r, kept, k)
<1>1. /\ p \in Seq(Words) /\ Len(p) <= MaxPins
      /\ \A i, j \in 1 .. Len(p) : p[i] = p[j] => i = j
      /\ \A i \in 1 .. Len(p) : \E j \in 1 .. k - 1 : Open(r, kept, j) /\ r[j].says[1] = p[i]
      /\ \A j \in 1 .. k - 1 : Open(r, kept, j) =>
            Len(p) = MaxPins \/ \E i \in 1 .. Len(p) : p[i] = r[j].says[1]
      /\ \A f \in 1 .. k - 1 : Open(r, kept, f) /\ (\A j \in 1 .. f - 1 : ~Want(r[j])) =>
            Len(p) > 0 /\ p[1] = r[f].says[1]
  BY DEF PinsOf
<1>2. r[k] \in Ctx
  OBVIOUS
<1>3. here <=> C!IsText(r[k]) /\ r[k].kind # "ping" /\ r[k].says \notin C!Says(kept)
  BY <1>2 DEF Open, Want, C!IsText
<1>4. here => w \in Words
  BY <1>2 DEF Open, Want, Ctx, Formed, Fields, Texts
<1>5. CASE ~here \/ Len(p) = MaxPins \/ C!Contains(p, w)
  <2>1. q = p
    BY <1>3, <1>5
  <2>2. \A i \in 1 .. Len(p) : \E j \in 1 .. k : Open(r, kept, j) /\ r[j].says[1] = p[i]
    <3>1. \A j \in 1 .. k - 1 : j \in 1 .. k
      OBVIOUS
    <3> QED  BY <1>1, <3>1
  <2>3. ASSUME NEW j \in 1 .. k, Open(r, kept, j)
        PROVE  Len(p) = MaxPins \/ \E i \in 1 .. Len(p) : p[i] = r[j].says[1]
    <3>1. CASE j = k
      BY <1>5, <2>3, <3>1 DEF C!Contains
    <3>2. CASE j # k
      <4>1. j \in 1 .. k - 1
        BY <3>2
      <4> QED  BY <4>1, <2>3, <1>1
    <3> QED  BY <3>1, <3>2
  <2>4. ASSUME NEW f \in 1 .. k, Open(r, kept, f), \A j \in 1 .. f - 1 : ~Want(r[j])
        PROVE  Len(p) > 0 /\ p[1] = r[f].says[1]
    <3>1. CASE f = k
      <4>1. Len(p) = 0
        <5>1. ASSUME Len(p) > 0 PROVE FALSE
          <6>1. 1 \in 1 .. Len(p)
            BY <1>1, <5>1
          <6>2. PICK j \in 1 .. k - 1 : Open(r, kept, j)
            BY <6>1, <1>1
          <6> QED  BY <6>2, <2>4, <3>1 DEF Open
        <5>2. Len(p) \in Nat
          BY <1>1
        <5> QED  BY <5>1, <5>2
      <4>2. \E i \in 1 .. Len(p) : p[i] = w
        <5>1. Len(p) # MaxPins
          BY <4>1
        <5> QED  BY <5>1, <1>5, <2>4, <3>1 DEF C!Contains
      <4> QED  BY <4>1, <4>2
    <3>2. CASE f # k
      <4>1. f \in 1 .. k - 1
        BY <3>2
      <4> QED  BY <4>1, <2>4, <1>1
    <3> QED  BY <3>1, <3>2
  <2>5. /\ p \in Seq(Words) /\ Len(p) <= MaxPins
        /\ \A i, j \in 1 .. Len(p) : p[i] = p[j] => i = j
    BY <1>1
  <2>6. PinsOf(r, kept, k, p)
    BY <2>2, <2>3, <2>4, <2>5 DEF PinsOf
  <2> QED  BY <2>1, <2>6
<1>6. CASE here /\ Len(p) # MaxPins /\ ~C!Contains(p, w)
  <2>1. q = Append(p, w)
    BY <1>3, <1>6
  <2>2. q \in Seq(Words) /\ Len(q) = Len(p) + 1 /\ Len(p) \in Nat
    BY <1>1, <1>4, <1>6, <2>1
  <2>3. q[Len(p) + 1] = w /\ \A i \in 1 .. Len(p) : q[i] = p[i]
    BY <1>1, <1>4, <1>6, <2>1
  <2>4. Len(q) <= MaxPins
    BY <1>1, <1>6, <2>2
  <2>5. ASSUME NEW i \in 1 .. Len(q), NEW j \in 1 .. Len(q), q[i] = q[j] PROVE i = j
    <3>1. \A l \in 1 .. Len(p) : p[l] # w
      BY <1>6 DEF C!Contains
    <3>2. \A l \in 1 .. Len(q) : l = Len(p) + 1 \/ l \in 1 .. Len(p)
      BY <2>2
    <3>3. CASE i \in 1 .. Len(p) /\ j \in 1 .. Len(p)
      <4>1. p[i] = p[j]
        BY <2>3, <2>5, <3>3
      <4> QED  BY <3>3, <4>1, <1>1
    <3>4. CASE i \in 1 .. Len(p) /\ j = Len(p) + 1
      <4>1. p[i] = w
        BY <2>3, <2>5, <3>4
      <4> QED  BY <3>1, <3>4, <4>1
    <3>5. CASE j \in 1 .. Len(p) /\ i = Len(p) + 1
      <4>1. p[j] = w
        BY <2>3, <2>5, <3>5
      <4> QED  BY <3>1, <3>5, <4>1
    <3> QED  BY <3>2, <3>3, <3>4, <3>5
  <2>6. ASSUME NEW i \in 1 .. Len(q)
        PROVE  \E j \in 1 .. k : Open(r, kept, j) /\ r[j].says[1] = q[i]
    <3>1. CASE i = Len(p) + 1
      <4>1. k \in 1 .. k
        OBVIOUS
      <4> QED  BY <1>6, <2>3, <3>1, <4>1
    <3>2. CASE i # Len(p) + 1
      <4>1. i \in 1 .. Len(p)
        BY <2>2, <3>2
      <4>2. PICK j \in 1 .. k - 1 : Open(r, kept, j) /\ r[j].says[1] = p[i]
        BY <4>1, <1>1
      <4>3. j \in 1 .. k
        OBVIOUS
      <4> QED  BY <4>1, <4>2, <4>3, <2>3
    <3> QED  BY <3>1, <3>2
  <2>7. ASSUME NEW j \in 1 .. k, Open(r, kept, j)
        PROVE  Len(q) = MaxPins \/ \E i \in 1 .. Len(q) : q[i] = r[j].says[1]
    <3>1. CASE j = k
      <4>1. Len(p) + 1 \in 1 .. Len(q)
        BY <2>2
      <4> QED  BY <3>1, <4>1, <2>3
    <3>2. CASE j # k
      <4>1. j \in 1 .. k - 1
        BY <3>2
      <4>2. PICK i \in 1 .. Len(p) : p[i] = r[j].says[1]
        BY <4>1, <2>7, <1>1, <1>6
      <4>3. i \in 1 .. Len(q)
        BY <2>2
      <4> QED  BY <4>2, <4>3, <2>3
    <3> QED  BY <3>1, <3>2
  <2>8. ASSUME NEW f \in 1 .. k, Open(r, kept, f), \A j \in 1 .. f - 1 : ~Want(r[j])
        PROVE  Len(q) > 0 /\ q[1] = r[f].says[1]
    <3>1. CASE f = k
      <4>1. Len(p) = 0
        <5>1. ASSUME Len(p) > 0 PROVE FALSE
          <6>1. 1 \in 1 .. Len(p)
            BY <1>1, <5>1
          <6>2. PICK j \in 1 .. k - 1 : Open(r, kept, j)
            BY <6>1, <1>1
          <6> QED  BY <6>2, <2>8, <3>1 DEF Open
        <5> QED  BY <5>1, <2>2
      <4> QED  BY <3>1, <4>1, <2>2, <2>3
    <3>2. CASE f # k
      <4>1. f \in 1 .. k - 1
        BY <3>2
      <4>2. Len(p) > 0 /\ p[1] = r[f].says[1]
        BY <4>1, <2>8, <1>1
      <4>3. 1 \in 1 .. Len(p)
        BY <4>2, <2>2
      <4> QED  BY <4>2, <4>3, <2>2, <2>3
    <3> QED  BY <3>1, <3>2
  <2> QED  BY <2>2, <2>4, <2>5, <2>6, <2>7, <2>8 DEF PinsOf
<1> QED  BY <1>5, <1>6

(* What the pins hold: the first open intent first, and all of them as     *)
(* long as there is room; another text only if no intent is open.          *)
Pinning(r, kept, p) ==
  \/ PinsOf(r, kept, Len(r), p)
  \/ p \in Seq(Words) /\ \A j \in 1 .. Len(r) : ~Open(r, kept, j)

(* The pins of a history that drops r and keeps kept.                      *)
LEMMA PinsAre ==
  ASSUME MaxPins \in Nat \ {0}, NEW r \in Seq(Ctx), NEW kept
  PROVE  Pinning(r, kept, C!Pins(r, kept))
<1> DEFINE n == Len(r)
           V == Seq(Words)
           E(i, p) ==
              IF \/ ~C!IsText(r[i]) \/ r[i].kind = "ping" \/ r[i].says \in C!Says(kept)
                 \/ Len(p) = MaxPins \/ C!Contains(p, r[i].says[1])
              THEN p ELSE Append(p, r[i].says[1])
           G == [i \in 1 .. n |-> [v \in V |-> E(i, v)]]
           Is(f) == f = [i \in 0 .. n |-> IF i = 0 THEN <<>> ELSE E(i, f[i - 1])]
           u == CHOOSE f : Is(f)
           texts == {i \in DOMAIN r : C!IsText(r[i])}
           first == r[C!First(texts)].says
<1>1. C!Pins(r, kept) = IF u[n] = <<>> /\ texts # {} /\ first \notin C!Says(kept) THEN first ELSE u[n]
  BY DEF C!Pins
<1>2. ASSUME NEW i \in 1 .. n, NEW v \in V PROVE E(i, v) \in V
  <2>1. CASE C!IsText(r[i])
    <3>1. r[i] \in Ctx
      OBVIOUS
    <3>2. r[i].says[1] \in Words
      BY <2>1, <3>1 DEF C!IsText, Ctx, Fields, Formed, Texts
    <3>3. Append(v, r[i].says[1]) \in V
      BY <3>2
    <3> HIDE DEF V
    <3> QED  BY <3>3
  <2>2. CASE ~C!IsText(r[i])
    BY <2>2
  <2> QED  BY <2>1, <2>2
<1>3. <<>> \in V /\ n \in Nat
  OBVIOUS
<1>4. texts # {} => first \in V
  <2>1. ASSUME texts # {} PROVE C!First(texts) \in texts
    <3>1. texts \subseteq 1 .. n
      OBVIOUS
    <3> HIDE DEF texts
    <3> QED  BY <2>1, <3>1, FirstIs, SameConversation
  <2>2. \A x \in Ctx : x.says \in V
    BY DEF Ctx, Fields
  <2> HIDE DEF V
  <2> QED  BY <2>1, <2>2
<1> HIDE DEF V, E, texts, first
<1>5. /\ G \in [1 .. n -> [V -> V]]
      /\ \A i \in 1 .. n, v \in V : G[i][v] = E(i, v)
  BY <1>2
<1> HIDE DEF G
<1>6. Is(u)
  <2>1. PICK f \in [0 .. n -> V] : Steps(f, G, <<>>, n)
    BY <1>3, <1>5, Recursion
  <2>2. ASSUME NEW i \in 1 .. n PROVE f[i] = E(i, f[i - 1])
    <3>1. f[i - 1] \in V
      BY <2>1
    <3>2. f[i] = G[i][f[i - 1]]
      BY <2>1 DEF Steps
    <3> QED  BY <3>1, <3>2, <1>5
  <2>3. Is(f)
    BY <1>3, <2>1, <2>2 DEF Steps
  <2> QED  BY <2>3
<1> HIDE DEF u
<1>7. u[0] = <<>> /\ \A i \in 1 .. n : u[i] = E(i, u[i - 1])
  BY <1>3, <1>6
<1> DEFINE P(k) == PinsOf(r, kept, k, u[k])
           T    == {k \in 0 .. n : P(k)}
<1>8. P(0)
  <2>1. u[0] = <<>> /\ <<>> \in Seq(Words) /\ Len(<<>>) = 0
    BY <1>7
  <2> QED  BY <2>1 DEF PinsOf
<1>9. ASSUME NEW k \in 1 .. n, P(k - 1) PROVE P(k)
  <2>1. u[k] = E(k, u[k - 1])
    BY <1>7
  <2> DEFINE p == u[k - 1]
             q == u[k]
  <2>2. PinsOf(r, kept, k - 1, p)
    BY <1>9
  <2>3. q = IF \/ ~C!IsText(r[k]) \/ r[k].kind = "ping" \/ r[k].says \in C!Says(kept)
               \/ Len(p) = MaxPins \/ C!Contains(p, r[k].says[1])
            THEN p ELSE Append(p, r[k].says[1])
    BY <2>1 DEF E
  <2> HIDE DEF p, q
  <2>4. PinsOf(r, kept, k, q)
    BY <2>2, <2>3, PinsStep
  <2> QED  BY <2>4 DEF q
<1>10. P(n)
  <2> HIDE DEF P
  <2>1. Climbs(T, n)
    BY <1>3, <1>8, <1>9 DEF Climbs
  <2> QED  BY <1>3, <2>1, Climbing
<1>11. CASE u[n] = <<>> /\ texts # {} /\ first \notin C!Says(kept)
  <2>1. ASSUME NEW j \in 1 .. n PROVE ~Open(r, kept, j)
    <3>1. Len(u[n]) = 0
      BY <1>11
    <3>2. Open(r, kept, j) => Len(u[n]) = MaxPins \/ \E i \in 1 .. Len(u[n]) : u[n][i] = r[j].says[1]
      BY <1>10 DEF PinsOf
    <3> QED  BY <3>1, <3>2
  <2>2. C!Pins(r, kept) = first
    BY <1>1, <1>11
  <2>3. first \in Seq(Words)
    BY <1>4, <1>11 DEF V
  <2> QED  BY <2>1, <2>2, <2>3 DEF Pinning
<1>12. CASE ~(u[n] = <<>> /\ texts # {} /\ first \notin C!Says(kept))
  BY <1>1, <1>10, <1>12 DEF Pinning
<1> QED  BY <1>11, <1>12

(* A session begins with its system message; at most one anchor follows,   *)
(* at once.                                                                *)
Headed(m) ==
  /\ Len(m) >= 1 /\ m[1].kind = "system"
  /\ \A i \in 2 .. Len(m) : m[i].kind # "system"
  /\ \A i \in 3 .. Len(m) : m[i].kind # "anchor"

(* A round of CompactOpts before it shortens anything.                     *)
Heads(p)          == IF p = <<>> THEN 2 ELSE 3
Built(h, p, x, a) == <<h>> \o (IF p = <<>> THEN <<>> ELSE <<C!Anchor(p)>>) \o <<x>> \o a

BuiltOf(b, c, h, p, x, a) ==
  /\ b \in Seq(Ctx) /\ Len(b) = c + Len(a) /\ c \in {2, 3}
  /\ b[1] = h /\ (c = 3 => b[2] = C!Anchor(p)) /\ b[c] = x
  /\ \A i \in 1 .. Len(a) : b[c + i] = a[i]

(* Where its messages are.                                                 *)
LEMMA BuiltIs ==
  ASSUME NEW h \in Ctx, NEW p \in Seq(Words), NEW x \in Ctx, NEW a \in Seq(Ctx)
  PROVE  BuiltOf(Built(h, p, x, a), Heads(p), h, p, x, a)
<1> DEFINE b == Built(h, p, x, a)
           c == Heads(p)
<1> SUFFICES /\ b \in Seq(Ctx) /\ Len(b) = c + Len(a) /\ c \in {2, 3}
             /\ b[1] = h /\ (c = 3 => b[2] = C!Anchor(p)) /\ b[c] = x
             /\ \A i \in 1 .. Len(a) : b[c + i] = a[i]
  BY DEF BuiltOf
<1>b. b = Built(h, p, x, a) /\ c = Heads(p)
  OBVIOUS
<1> HIDE DEF b, c
<1>1. <<h>> \in Seq(Ctx) /\ <<x>> \in Seq(Ctx) /\ Len(<<h>>) = 1 /\ Len(<<x>>) = 1 /\ <<h>>[1] = h /\ <<x>>[1] = x
  OBVIOUS
<1>2. CASE p = <<>>
  <2>1. b = <<h>> \o <<>> \o <<x>> \o a /\ c = 2
    BY <1>2, <1>b DEF Built, Heads
  <2> HIDE DEF Ctx
  <2>2. b = <<h, x>> \o a
    BY <2>1
  <2>3. <<h, x>> \in Seq(Ctx) /\ Len(<<h, x>>) = 2 /\ <<h, x>>[1] = h /\ <<h, x>>[2] = x
    OBVIOUS
  <2> QED  BY <2>1, <2>2, <2>3
<1>3. CASE p # <<>>
  <2> DEFINE y == C!Anchor(p)
  <2>1. b = <<h>> \o <<y>> \o <<x>> \o a /\ c = 3
    BY <1>3, <1>b DEF Built, Heads
  <2>2. y \in Ctx
    BY TextFormed DEF C!Anchor, Texts
  <2> HIDE DEF Ctx, y
  <2>3. b = <<h, y, x>> \o a
    BY <2>1, <2>2
  <2>4. <<h, y, x>> \in Seq(Ctx) /\ Len(<<h, y, x>>) = 3 /\ <<h, y, x>>[1] = h /\ <<h, y, x>>[2] = y /\ <<h, y, x>>[3] = x
    BY <2>2
  <2> QED  BY <2>1, <2>3, <2>4 DEF y
<1> QED  BY <1>2, <1>3

(* What a compaction that drops makes: the system message, the pins, the   *)
(* stub or summary x, and the last k messages, aligned.                    *)
Remade(m, k, a, p, x, o) ==
  /\ k \in 2 .. Len(m) - 2
  /\ a = AlignKeepAtUser(SubSeq(Tail(m), Len(Tail(m)) - k + 1, Len(Tail(m))))
  /\ a \in Seq(Ctx) /\ p \in Seq(Words) /\ x \in Ctx
  /\ x.ids = <<>> /\ (x.kind = "stub" \/ x = C!Summary)
  /\ Pinning(Tail(m), a, p)
  /\ Shrunk(Built(m[1], p, x, a), o, p)

(* The kept messages in the history, which are neither the system message  *)
(* nor the anchor.                                                         *)
LEMMA KeptFrom ==
  ASSUME NEW m \in Seq(Ctx), Headed(m), NEW k \in 2 .. Len(m) - 2, NEW a,
         a = AlignKeepAtUser(SubSeq(Tail(m), Len(Tail(m)) - k + 1, Len(Tail(m))))
  PROVE  /\ a \in Seq(Ctx)
         /\ \E d \in Len(m) - k .. Len(m) : WindowFrom(m, a, d)
         /\ \A i \in 1 .. Len(a) : a[i].kind \notin {"system", "anchor"}
<1> DEFINE r == Tail(m)
<1>1. r \in Seq(Ctx) /\ Len(r) = Len(m) - 1 /\ Len(m) \in Nat /\ \A i \in 1 .. Len(m) - 1 : r[i] = m[i + 1]
  BY DEF Headed
<1>2. k \in 0 .. Len(r)
  BY <1>1
<1>3. a = AlignKeepAtUser(SubSeq(r, Len(r) - k + 1, Len(r)))
  OBVIOUS
<1> HIDE DEF r
<1>4. a \in Seq(Ctx) /\ \E d \in Len(r) - k .. Len(r) : WindowFrom(r, a, d)
  BY <1>1, <1>2, <1>3, WindowTaken
<1>5. PICK d \in Len(r) - k .. Len(r) : WindowFrom(r, a, d)
  BY <1>4
<1> DEFINE e == d + 1
<1>6. e \in Len(m) - k .. Len(m) /\ d \in Nat /\ Len(r) - d = Len(m) - e /\ e >= 2
  BY <1>1, <1>5
<1>7. Len(a) = Len(m) - e
  BY <1>5, <1>6 DEF WindowFrom
<1>8. ASSUME NEW i \in 1 .. Len(m) - e PROVE a[i] = m[e + i]
  <2>1. d + i \in 1 .. Len(m) - 1 /\ (d + i) + 1 = e + i /\ i \in 1 .. Len(r) - d
    <3>1. Len(m) \in Nat /\ Len(r) = Len(m) - 1 /\ d \in Nat /\ e \in Nat
      BY <1>1, <1>6
    <3>2. e <= Len(m) /\ e >= 2 /\ Len(r) - d = Len(m) - e
      BY <1>1, <1>6
    <3> QED  BY <3>1, <3>2
  <2> QED  BY <2>1, <1>1, <1>5 DEF WindowFrom
<1>9. ASSUME e < Len(m) PROVE m[e + 1].role # "tool"
  <2>1. d + 1 \in 1 .. Len(m) - 1 /\ d < Len(r) /\ (d + 1) + 1 = e + 1
    BY <1>1, <1>6, <1>9
  <2> QED  BY <2>1, <1>1, <1>5 DEF WindowFrom
<1> HIDE DEF e
<1>10. WindowFrom(m, a, e)
  BY <1>7, <1>8, <1>9 DEF WindowFrom
<1>11. ASSUME NEW i \in 1 .. Len(a) PROVE a[i].kind \notin {"system", "anchor"}
  <2>1. e + i \in 3 .. Len(m) /\ e + i \in 2 .. Len(m) /\ i \in 1 .. Len(m) - e
    BY <1>1, <1>6, <1>7
  <2> QED  BY <2>1, <1>8 DEF Headed
<1> QED  BY <1>4, <1>6, <1>10, <1>11

(* A round of CompactOpts is such a history, shrunk.                       *)
LEMMA RebuiltIs ==
  ASSUME C!ContextAssumption, NEW m \in Seq(Ctx), Headed(m), NEW k \in 2 .. Len(m) - 2,
         NEW target, NEW summary
  PROVE  \E a, p, x : Remade(m, k, a, p, x, C!Rebuilt(m, k, target, summary))
<1> DEFINE rest == Tail(m)
           dropped == SubSeq(rest, 1, Len(rest) - k)
           kept == C!AlignKeepAtUser(SubSeq(rest, Len(rest) - k + 1, Len(rest)))
           pins == C!Pins(rest, kept)
           x == IF summary THEN C!Summary ELSE C!Stub(dropped, pins)
           made == Built(m[1], pins, x, kept)
           Less(s, recent, older) == IF C!EstChars(s) <= target THEN s ELSE C!Trim(s, recent, older)
           s1 == Less(made, ToolLimit \div 3, C!Floor)
           s2 == Less(s1, C!Floor, C!Floor \div 2)
           o == C!ShrinkAnchors(s2, target)
<1>1. C!Rebuilt(m, k, target, summary) = o
  BY DEF C!Rebuilt, Built
<1>2. rest \in Seq(Ctx) /\ Len(rest) = Len(m) - 1 /\ m[1] \in Ctx /\ Len(m) \in Nat /\ m[1].kind = "system"
  BY DEF Headed
<1>3. kept = AlignKeepAtUser(SubSeq(rest, Len(rest) - k + 1, Len(rest)))
  BY SameConversation
<1>4. dropped \in Seq(Ctx)
  <2> HIDE DEF rest
  <2> QED  BY <1>2
<1> HIDE DEF kept
<1>5. /\ kept \in Seq(Ctx)
      /\ \A i \in 1 .. Len(kept) : kept[i].kind \notin {"system", "anchor"}
  BY <1>3, KeptFrom
<1> HIDE DEF rest, dropped
<1>6. Pinning(rest, kept, pins)
  BY <1>2, PinsAre DEF C!ContextAssumption
<1>7. pins \in Seq(Words)
  BY <1>6 DEF Pinning, PinsOf
<1> HIDE DEF pins
<1>8. x \in Ctx /\ x.ids = <<>> /\ (x.kind = "stub" \/ x = C!Summary) /\ x.kind # "anchor"
  <2>1. C!Summary \in Ctx /\ C!Summary.kind = "note" /\ C!Summary.ids = <<>>
    <3>1. <<"summary">> \in Seq(Words) /\ Len(<<"summary">>) = 1
      BY DEF Words
    <3> QED  BY <3>1, TextFormed DEF C!Summary, C!Text, C!StubSize, Texts
  <2> QED  BY <2>1, <1>4, StubIs
<1> HIDE DEF x
<1> DEFINE c == Heads(pins)
<1>9. /\ made \in Seq(Ctx) /\ Len(made) = c + Len(kept) /\ c \in {2, 3}
      /\ made[1] = m[1] /\ (c = 3 => made[2] = C!Anchor(pins)) /\ made[c] = x
      /\ \A i \in 1 .. Len(kept) : made[c + i] = kept[i]
  <2>1. BuiltOf(made, c, m[1], pins, x, kept)
    BY <1>2, <1>5, <1>7, <1>8, BuiltIs
  <2> HIDE DEF made, c
  <2> QED  BY <2>1 DEF BuiltOf
<1>10. c = 3 => pins # <<>>
  BY DEF Heads
<1> HIDE DEF made, c
<1>11. Pinned(made, pins)
  <2>1. ASSUME NEW i \in 1 .. Len(made), made[i].kind = "anchor" PROVE AnchorOf(made[i], pins)
    <3>1. i = 1 \/ (c = 3 /\ i = 2) \/ i = c \/ i \in c + 1 .. Len(made)
      BY <1>9
    <3>2. CASE i = 1
      BY <3>2, <2>1, <1>2, <1>9
    <3>3. CASE c = 3 /\ i = 2
      <4>1. made[i] = C!Anchor(pins)
        BY <3>3, <1>9
      <4>2. pins # <<>> /\ Len(pins) \in Nat /\ Len(pins) > 0
        BY <3>3, <1>7, <1>10
      <4>3. C!Anchor(pins).size = Len(pins) /\ C!Anchor(pins).says = pins
        BY DEF C!Anchor, C!Text
      <4> QED  BY <4>1, <4>2, <4>3 DEF AnchorOf
    <3>4. CASE i = c
      BY <3>4, <2>1, <1>8, <1>9
    <3>5. CASE i \in c + 1 .. Len(made)
      <4>1. PICK j \in 1 .. Len(kept) : i = c + j
        <5>1. i - c \in 1 .. Len(kept) /\ i = c + (i - c)
          BY <3>5, <1>5, <1>9
        <5> QED  BY <5>1
      <4> QED  BY <4>1, <2>1, <1>5, <1>9
    <3> QED  BY <3>1, <3>2, <3>3, <3>4, <3>5
  <2> QED  BY <2>1 DEF Pinned
<1>12. ASSUME NEW s \in Seq(Ctx), Pinned(s, pins), NEW recent \in Nat, NEW older \in Nat
       PROVE  Shrunk(s, Less(s, recent, older), pins)
  BY <1>12, TrimIs, TrimPinned, ResizedSelf DEF Shrunk, Unmoved
<1>13. ToolLimit \div 3 \in Nat /\ C!Floor \in Nat /\ C!Floor \div 2 \in Nat
  BY DEF C!ContextAssumption, C!Floor
<1> HIDE DEF Less
<1>14. Shrunk(made, s1, pins)
  BY <1>9, <1>11, <1>12, <1>13
<1>15. s1 \in Seq(Ctx) /\ Pinned(s1, pins)
  BY <1>14 DEF Shrunk
<1> HIDE DEF s1
<1>16. Shrunk(s1, s2, pins)
  BY <1>12, <1>13, <1>15
<1>17. s2 \in Seq(Ctx) /\ Pinned(s2, pins)
  BY <1>16 DEF Shrunk
<1> HIDE DEF s2
<1>18. Shrunk(s2, o, pins)
  BY <1>7, <1>17, ShrinkIs
<1> HIDE DEF o
<1>19. Shrunk(made, o, pins)
  <2>1. Shrunk(made, s2, pins)
    BY <1>9, <1>14, <1>16, ShrunkTwice
  <2> QED  BY <2>1, <1>9, <1>18, ShrunkTwice
<1>20. Remade(m, k, kept, pins, x, o)
  BY <1>3, <1>5, <1>6, <1>7, <1>8, <1>19 DEF Remade, rest, made
<1> QED  BY <1>1, <1>20

(* What a compaction makes: the same messages, snipped, or those that a    *)
(* window leaves.                                                          *)
Snipped(m, s) == s \in Seq(Ctx) /\ Resized(m, s) /\ Saying(m, s) /\ Capped(s)

(* A window of the snipped history leaves o.                               *)
Dropping(s, o) ==
  /\ Len(s) >= 6
  /\ \E k \in 2 .. Len(s) - 2 : \E a, p, x : Remade(s, k, a, p, x, o)

Compacting(m, o) ==
  \/ Snipped(m, o)
  \/ \E s : Snipped(m, s) /\ Dropping(s, o)

LEMMA WidestIs ==
  ASSUME NEW b \in Nat, NEW W, W \subseteq 0 .. b, W # {}
  PROVE  C!Max(W) \in W
<1>1. W \in SUBSET Nat /\ \A v \in W : v <= b /\ v \in Nat
  OBVIOUS
<1>2. PICK w \in W : \A v \in W : v <= w
  BY <1>1, GreatestExists
<1>3. \A v \in W : w >= v
  BY <1>1, <1>2
<1> QED  BY <1>3 DEF C!Max

LEMMA HeadedSame ==
  ASSUME NEW m \in Seq(Ctx), NEW s \in Seq(Ctx), Resized(m, s), Headed(m)
  PROVE  Headed(s)
<1>1. Len(s) = Len(m) /\ \A i \in 1 .. Len(m) : s[i].kind = m[i].kind
  BY DEF Resized, Smaller
<1> QED  BY <1>1 DEF Headed

LEMMA SnippedTwice ==
  ASSUME NEW m \in Seq(Ctx), NEW s, NEW q \in Seq(Ctx), Snipped(m, s), Resized(s, q), Saying(s, q),
         ToolLimit \in Nat
  PROVE  Snipped(m, q)
<1>1. s \in Seq(Ctx) /\ Resized(m, s) /\ Saying(m, s) /\ Capped(s)
  BY DEF Snipped
<1>2. Resized(m, q)
  BY <1>1, ResizedTwice
<1>3. Capped(q)
  BY <1>1, ResizedCapped
<1>4. Saying(m, q)
  BY <1>1 DEF Saying, Resized
<1> QED  BY <1>2, <1>3, <1>4 DEF Snipped

(* Compact is one or the other, for any target.                            *)
LEMMA CompactIs ==
  ASSUME C!ContextAssumption, NEW m \in Seq(Ctx), Headed(m), NEW target \in Int, NEW summary
  PROVE  Compacting(m, C!Compact(m, target, summary).messages)
<1> DEFINE s == C!Snip(m, target)
           t == C!Trim(s, ToolLimit, ToolLimit \div 2)
           u == C!Trim(t, ToolLimit \div 2, ToolLimit \div 4)
           R(k) == C!Rebuilt(t, k, target, summary)
           rounds  == {[keep |-> k, out |-> R(k)] : k \in C!Windows}
           fitting == {r \in rounds : C!EstChars(r.out) <= target}
           widest  == IF fitting = {} THEN 2 ELSE C!Max({r.keep : r \in fitting})
           o == C!Compact(m, target, summary).messages
<1>1. \/ o = s \/ o = t
      \/ Len(s) > 3 /\ o = u
      \/ Len(s) > 3 /\ Len(s) - 1 > KeepLast /\ o = (CHOOSE r \in rounds : r.keep = widest).out
  <2>0. Len(s) \in Nat /\ KeepLast \in Nat
    BY SnipIs DEF C!ContextAssumption
  <2>1. o = s \/ o = C!CompactOpts(s, target, summary)
    BY DEF C!Compact
  <2>2. C!CompactOpts(s, target, summary) =
           IF Len(s) <= 3 \/ C!EstChars(t) <= target THEN t
           ELSE IF Len(s) - 1 <= KeepLast THEN u
           ELSE (CHOOSE r \in rounds : r.keep = widest).out
    BY DEF C!CompactOpts
  <2> HIDE DEF s, t, u, rounds, widest, o
  <2> QED  BY <2>0, <2>1, <2>2
<1>2. Snipped(m, s) /\ s \in Seq(Ctx) /\ Resized(m, s)
  BY SnipIs DEF Snipped
<1>0. ToolLimit \in Nat /\ ToolLimit \div 2 \in Nat /\ ToolLimit \div 4 \in Nat /\ KeepLast \in Nat /\ KeepLast >= 4
  BY DEF C!ContextAssumption
<1> HIDE DEF s, o
<1>3. t \in Seq(Ctx) /\ Snipped(m, t) /\ Len(t) = Len(s)
  <2>1. t \in Seq(Ctx) /\ Resized(s, t) /\ Saying(s, t)
    BY <1>0, <1>2, TrimIs
  <2> HIDE DEF t
  <2> QED  BY <1>0, <1>2, <2>1, SnippedTwice DEF Resized
<1> HIDE DEF t
<1>4. Snipped(m, u)
  <2>1. u \in Seq(Ctx) /\ Resized(t, u) /\ Saying(t, u)
    BY <1>0, <1>3, TrimIs
  <2> HIDE DEF u
  <2> QED  BY <1>0, <1>3, <2>1, SnippedTwice
<1> HIDE DEF u
<1>5. CASE Len(s) - 1 > KeepLast /\ o = (CHOOSE r \in rounds : r.keep = widest).out
  <2>1. Len(t) \in Nat /\ Len(t) >= 6 /\ C!Windows \subseteq 2 .. Len(t) - 2 /\ 2 \in C!Windows
    BY <1>0, <1>3, <1>5 DEF C!Windows
  <2> HIDE DEF R
  <2>2. widest \in C!Windows
    <3>1. CASE fitting = {}
      BY <2>1, <3>1
    <3>2. CASE fitting # {}
      <4> DEFINE W == {r.keep : r \in fitting}
      <4>1. W \subseteq C!Windows /\ W # {}
        BY <3>2
      <4>2. widest = C!Max(W)
        BY <3>2
      <4> HIDE DEF W, widest
      <4>3. W \subseteq 0 .. Len(t)
        BY <2>1, <4>1
      <4> QED  BY <2>1, <4>1, <4>2, <4>3, WidestIs
    <3> QED  BY <3>1, <3>2
  <2> HIDE DEF widest
  <2>3. \E r \in rounds : r.keep = widest
    <3>1. [keep |-> widest, out |-> R(widest)] \in rounds
      BY <2>2
    <3> QED  BY <3>1
  <2>4. PICK r \in rounds : r.keep = widest /\ o = r.out
    BY <1>5, <2>3
  <2>5. PICK k \in C!Windows : r = [keep |-> k, out |-> R(k)]
    BY <2>4
  <2>6. k \in 2 .. Len(t) - 2 /\ o = R(k)
    BY <2>1, <2>4, <2>5
  <2>7. Headed(t)
    BY <1>3, HeadedSame DEF Snipped
  <2>8. \E a, p, x : Remade(t, k, a, p, x, o)
    BY <2>6, <2>7, <1>3, RebuiltIs DEF R
  <2>9. Dropping(t, o)
    BY <2>1, <2>6, <2>8 DEF Dropping
  <2> QED  BY <1>3, <2>9 DEF Compacting, o
<1>6. CASE o = s \/ o = t \/ o = u
  BY <1>2, <1>3, <1>4, <1>6 DEF Compacting, o
<1> QED  BY <1>1, <1>5, <1>6

(* What a remade history has, message by message.                          *)
Composed(s, o, c, d, a, p, x) ==
  /\ o \in Seq(Ctx) /\ Len(o) = c + Len(a) /\ c \in {2, 3}
  /\ WindowFrom(s, a, d) /\ d \in 2 .. Len(s)
  /\ o[1].kind = "system" /\ o[1].role = "system"
  /\ c = 3 => o[2].kind = "anchor" /\ o[2].role = "user" /\ AnchorOf(o[2], p)
  /\ o[c].role = "user" /\ o[c].ids = <<>> /\ o[c].kind = x.kind
  /\ x.kind = "stub" \/ o[c] = C!Summary
  /\ \A i \in 1 .. Len(a) : Smaller(a[i], o[c + i])

(* What follows the stub is a window of the history.                       *)
LEMMA RemadeIs ==
  ASSUME NEW s \in Seq(Ctx), Headed(s), NEW k \in 2 .. Len(s) - 2, NEW a, NEW p, NEW x, NEW o,
         Remade(s, k, a, p, x, o)
  PROVE  \E d \in Len(s) - k .. Len(s) : Composed(s, o, Heads(p), d, a, p, x)
<1> DEFINE b == Built(s[1], p, x, a)
           c == Heads(p)
<1>1. /\ a = AlignKeepAtUser(SubSeq(Tail(s), Len(Tail(s)) - k + 1, Len(Tail(s))))
      /\ a \in Seq(Ctx) /\ p \in Seq(Words) /\ x \in Ctx
      /\ x.ids = <<>> /\ (x.kind = "stub" \/ x = C!Summary)
      /\ o \in Seq(Ctx) /\ Resized(b, o) /\ Unmoved(b, o) /\ Pinned(o, p)
  BY DEF Remade, Shrunk
<1>2. PICK d \in Len(s) - k .. Len(s) : WindowFrom(s, a, d)
  BY <1>1, KeptFrom
<1>3. d \in 2 .. Len(s)
  BY <1>2
<1>4. s[1] \in Ctx /\ s[1].kind = "system" /\ s[1].role = "system"
  <2>1. s[1] \in Ctx /\ s[1].kind = "system"
    BY DEF Headed
  <2> QED  BY <2>1 DEF Ctx, Formed, RoleOf
<1>5. BuiltOf(b, c, s[1], p, x, a)
  BY <1>1, <1>4, BuiltIs
<1> HIDE DEF b, c
<1>6. /\ b \in Seq(Ctx) /\ Len(b) = c + Len(a) /\ c \in {2, 3}
      /\ b[1] = s[1] /\ (c = 3 => b[2] = C!Anchor(p)) /\ b[c] = x
      /\ \A i \in 1 .. Len(a) : b[c + i] = a[i]
  BY <1>5 DEF BuiltOf
<1>7. Len(o) = Len(b) /\ \A i \in 1 .. Len(b) : Smaller(b[i], o[i])
  BY <1>1 DEF Resized
<1>8. Len(a) \in Nat /\ 1 \in 1 .. Len(b) /\ 2 \in 1 .. Len(b) /\ c \in 1 .. Len(b)
      /\ \A i \in 1 .. Len(a) : c + i \in 1 .. Len(b)
  BY <1>1, <1>6
<1>9. o[1].kind = "system" /\ o[1].role = "system"
  BY <1>4, <1>6, <1>7, <1>8 DEF Smaller
<1>10. ASSUME c = 3 PROVE o[2].kind = "anchor" /\ o[2].role = "user" /\ AnchorOf(o[2], p)
  <2>1. C!Anchor(p).kind = "anchor" /\ C!Anchor(p).role = "user"
    BY DEF C!Anchor, C!Text
  <2>2. o[2].kind = "anchor" /\ o[2].role = "user"
    BY <1>6, <1>7, <1>8, <1>10, <2>1 DEF Smaller
  <2> QED  BY <2>2, <1>1, <1>7, <1>8 DEF Pinned
<1>11. Smaller(x, o[c])
  BY <1>6, <1>7, <1>8
<1>12. o[c].role = "user" /\ o[c].ids = <<>> /\ o[c].kind = x.kind
  <2>1. x.role = "user"
    <3>1. CASE x.kind = "stub"
      BY <1>1, <3>1 DEF Ctx, Formed, RoleOf
    <3>2. CASE x = C!Summary
      BY <3>2 DEF C!Summary, C!Text
    <3> QED  BY <1>1, <3>1, <3>2
  <2> QED  BY <1>1, <1>11, <2>1 DEF Smaller
<1>13. x.kind = "stub" \/ o[c] = C!Summary
  <2>1. ASSUME x = C!Summary PROVE o[c] = x
    <3>1. x.kind \in Texts
      BY <2>1 DEF C!Summary, C!Text, Texts
    <3> QED  BY <3>1, <1>1, <1>6, <1>8 DEF Unmoved
  <2> QED  BY <1>1, <2>1
<1>14. \A i \in 1 .. Len(a) : Smaller(a[i], o[c + i])
  BY <1>6, <1>7, <1>8
<1>15. Composed(s, o, c, d, a, p, x)
  BY <1>1, <1>2, <1>3, <1>6, <1>7, <1>9, <1>10, <1>12, <1>13, <1>14 DEF Composed
<1> QED  BY <1>15 DEF c

LEMMA Places ==
  ASSUME NEW n \in Nat, NEW d \in 0 .. n, NEW c \in {2, 3}, NEW l, l = c + (n - d)
  PROVE  \A i \in 1 .. l : i = 1 \/ (c = 3 /\ i = 2) \/ i = c \/ i - c \in 1 .. n - d
<1>1. CASE c = 2
  BY <1>1
<1>2. CASE c = 3
  BY <1>2
<1> QED  BY <1>1, <1>2

(* It is headed as before: the system message, at most one anchor.         *)
LEMMA ComposedHeaded ==
  ASSUME NEW s \in Seq(Ctx), Headed(s),
         NEW o, NEW c, NEW d, NEW a, NEW p, NEW x, Composed(s, o, c, d, a, p, x)
  PROVE  o \in Seq(Ctx) /\ Headed(o)
<1>1. /\ o \in Seq(Ctx) /\ Len(o) = c + Len(a) /\ c \in {2, 3}
      /\ d \in 2 .. Len(s)
      /\ o[1].kind = "system" /\ o[1].role = "system"
      /\ c = 3 => o[2].kind = "anchor" /\ o[2].role = "user"
      /\ o[c].role = "user" /\ o[c].ids = <<>>
      /\ o[c].kind = "stub" \/ o[c] = C!Summary
      /\ \A i \in 1 .. Len(a) : Smaller(a[i], o[c + i])
  BY DEF Composed
<1>2. /\ Len(a) = Len(s) - d
      /\ \A i \in 1 .. Len(s) - d : a[i] = s[d + i]
      /\ d < Len(s) => s[d + 1].role # "tool"
  BY DEF Composed, WindowFrom
<1>3. Len(s) \in Nat /\ Len(o) = c + (Len(s) - d) /\ c \in Nat /\ d \in 0 .. Len(s)
  BY <1>1, <1>2
<1>4. \A i \in 1 .. Len(s) - d : Smaller(s[d + i], o[c + i])
  BY <1>1, <1>2
<1>5. o[c].kind \in {"stub", "note"}
  BY <1>1 DEF C!Summary, C!Text
<1>6. \A i \in 1 .. Len(o) : i = 1 \/ (c = 3 /\ i = 2) \/ i = c \/ i - c \in 1 .. Len(s) - d
  <2>1. c \in {2, 3}
    BY <1>1
  <2> QED  BY <2>1, <1>3, Places
<1>7. Headed(o)
  <2>1. Len(o) >= 1
    BY <1>1, <1>3
  <2>2. ASSUME NEW i \in 1 .. Len(o), i - c \in 1 .. Len(s) - d
        PROVE  o[i].kind # "system" /\ o[i].kind # "anchor"
    <3> DEFINE j == i - c
    <3>1. j \in 1 .. Len(s) - d /\ c + j = i /\ d + j \in 3 .. Len(s) /\ d + j \in 2 .. Len(s)
      BY <1>1, <1>3, <2>2
    <3> HIDE DEF j
    <3>2. Smaller(s[d + j], o[i])
      BY <1>4, <3>1
    <3> QED  BY <3>1, <3>2 DEF Headed, Smaller
  <2>3. ASSUME NEW i \in 2 .. Len(o) PROVE o[i].kind # "system"
    BY <1>1, <1>5, <1>6, <2>2
  <2>4. ASSUME NEW i \in 3 .. Len(o) PROVE o[i].kind # "anchor"
    BY <1>1, <1>5, <1>6, <2>2
  <2> QED  BY <1>1, <2>1, <2>3, <2>4 DEF Headed
<1> QED  BY <1>1, <1>7

(* A remade history is one a provider accepts, with results that are not   *)
(* longer than before.                                                     *)
LEMMA ComposedGood ==
  ASSUME NEW s \in Seq(Ctx), Headed(s), Accepted(s), Capped(s), ToolLimit \in Nat,
         NEW o, NEW c, NEW d, NEW a, NEW p, NEW x, Composed(s, o, c, d, a, p, x)
  PROVE  o \in Seq(Ctx) /\ Headed(o) /\ Accepted(o) /\ Capped(o)
<1>1. /\ o \in Seq(Ctx) /\ Len(o) = c + Len(a) /\ c \in {2, 3}
      /\ d \in 2 .. Len(s)
      /\ o[1].kind = "system" /\ o[1].role = "system"
      /\ c = 3 => o[2].kind = "anchor" /\ o[2].role = "user"
      /\ o[c].role = "user" /\ o[c].ids = <<>>
      /\ o[c].kind = "stub" \/ o[c] = C!Summary
      /\ \A i \in 1 .. Len(a) : Smaller(a[i], o[c + i])
  BY DEF Composed
<1>2. /\ Len(a) = Len(s) - d
      /\ \A i \in 1 .. Len(s) - d : a[i] = s[d + i]
      /\ d < Len(s) => s[d + 1].role # "tool"
  BY DEF Composed, WindowFrom
<1>3. Len(s) \in Nat /\ Len(o) = c + (Len(s) - d) /\ c \in Nat /\ d \in 0 .. Len(s)
  BY <1>1, <1>2
<1>4. \A i \in 1 .. Len(s) - d : Smaller(s[d + i], o[c + i])
  BY <1>1, <1>2
<1>5. o[c].kind \in {"stub", "note"}
  BY <1>1 DEF C!Summary, C!Text
<1>6. \A i \in 1 .. Len(o) : i = 1 \/ (c = 3 /\ i = 2) \/ i = c \/ i - c \in 1 .. Len(s) - d
  <2>1. c \in {2, 3}
    BY <1>1
  <2> QED  BY <2>1, <1>3, Places
<1>7. Headed(o)
  BY ComposedHeaded
<1>8. Continues(s, d, o, c)
  <2>1. Window(s, d, o, c)
    BY <1>4 DEF Window, Smaller, Same
  <2>2. \A i \in 1 .. c : Good(o, i)
    BY <1>1 DEF Good
  <2> QED  BY <1>2, <1>3, <2>1, <2>2 DEF Continues
<1>9. Accepted(o)
  BY <1>1, <1>3, <1>8, CtxCall, WindowGood
<1>10. ASSUME NEW i \in 1 .. Len(o), o[i].role = "tool" PROVE o[i].size <= ToolLimit
  <2> DEFINE j == i - c
  <2>1. j \in 1 .. Len(s) - d /\ c + j = i /\ d + j \in 1 .. Len(s)
    BY <1>1, <1>3, <1>6, <1>10
  <2> HIDE DEF j
  <2>2. Smaller(s[d + j], o[i])
    BY <1>4, <2>1
  <2>3. s[d + j].size <= ToolLimit
    BY <1>10, <2>1, <2>2 DEF Capped, Smaller
  <2>4. s[d + j].size \in Nat /\ o[i].size \in Nat
    <3>1. s[d + j] \in Ctx /\ o[i] \in Ctx
      BY <1>1, <2>1
    <3> QED  BY <3>1 DEF Ctx, Fields
  <2> QED  BY <2>2, <2>3, <2>4 DEF Smaller
<1> QED  BY <1>1, <1>7, <1>9, <1>10 DEF Capped

LEMMA RemadeHeaded ==
  ASSUME NEW s \in Seq(Ctx), Headed(s), NEW k \in 2 .. Len(s) - 2, NEW a, NEW p, NEW x, NEW o,
         Remade(s, k, a, p, x, o)
  PROVE  o \in Seq(Ctx) /\ Headed(o)
BY RemadeIs, ComposedHeaded

(* Every compaction leaves a history that can be sent as it is.            *)
LEMMA CompactedGood ==
  ASSUME NEW m \in Seq(Ctx), Headed(m), Accepted(m), ToolLimit \in Nat, NEW o, Compacting(m, o)
  PROVE  o \in Seq(Ctx) /\ Headed(o) /\ Accepted(o) /\ Capped(o)
<1>1. ASSUME NEW s, Snipped(m, s) PROVE s \in Seq(Ctx) /\ Headed(s) /\ Accepted(s) /\ Capped(s)
  BY <1>1, HeadedSame, ResizedAccepted DEF Snipped
<1>2. CASE Snipped(m, o)
  BY <1>1, <1>2
<1>3. CASE \E s : Snipped(m, s) /\ Dropping(s, o)
  <2>1. PICK s : Snipped(m, s) /\ Dropping(s, o)
    BY <1>3
  <2>2. s \in Seq(Ctx) /\ Headed(s) /\ Accepted(s) /\ Capped(s)
    BY <1>1, <2>1
  <2>0. PICK k \in 2 .. Len(s) - 2 : \E a, p, x : Remade(s, k, a, p, x, o)
    BY <2>1 DEF Dropping
  <2>3. PICK a, p, x : Remade(s, k, a, p, x, o)
    BY <2>0
  <2>4. PICK d \in Len(s) - k .. Len(s) : Composed(s, o, Heads(p), d, a, p, x)
    BY <2>2, <2>3, RemadeIs
  <2> QED  BY <2>2, <2>4, ComposedGood
<1> QED  BY <1>2, <1>3 DEF Compacting

(* Where the messages begin that the loop's model knows of.                *)
Front(m) == IF Len(m) >= 2 /\ m[2].kind = "anchor" THEN 2 ELSE 1

(* What the loop's model sees of m after its first n messages.             *)
Outline(m, n, q) == /\ Len(q) = Len(m) - n
                    /\ \A i \in 1 .. Len(m) - n : q[i] = Message(m[n + i].role, m[n + i].ids)

LEMMA ShapeIs ==
  ASSUME NEW m \in Seq(Ctx), Headed(m)
  PROVE  C!Shape(m) \in Seq(Msgs) /\ Outline(m, Front(m), C!Shape(m))
<1> DEFINE n == Front(m)
           S == {i \in DOMAIN m : m[i].role # "system" /\ m[i].kind # "anchor"}
           body == C!InOrder(Len(m), S)
<1>1. Len(m) \in Nat /\ n \in 0 .. Len(m) /\ n \in {1, 2}
  BY DEF Headed, Front
<1>2. \A i \in 1 .. Len(m) : m[i].role = "system" <=> m[i].kind = "system"
  <2>1. \A x \in Ctx : x.role = "system" <=> x.kind = "system"
    BY DEF Ctx, Formed, RoleOf
  <2> HIDE DEF Ctx
  <2> QED  BY <2>1
<1>3. ASSUME NEW i \in 1 .. Len(m) PROVE i \in S <=> i > n
  <2>1. i \in S <=> m[i].kind # "system" /\ m[i].kind # "anchor"
    BY <1>2
  <2>2. CASE i > 2
    BY <1>1, <2>1, <2>2 DEF Headed
  <2>3. CASE i = 1
    BY <1>1, <2>1, <2>3 DEF Headed
  <2>4. CASE i = 2
    <3>1. i \in S <=> m[2].kind # "anchor"
      BY <2>1, <2>4 DEF Headed
    <3>2. n = 2 <=> m[2].kind = "anchor"
      BY <2>4 DEF Front
    <3> QED  BY <1>1, <2>4, <3>1, <3>2
  <2> QED  BY <2>2, <2>3, <2>4
<1>4. S = n + 1 .. Len(m)
  <2>1. S \subseteq 1 .. Len(m)
    OBVIOUS
  <2> HIDE DEF S, n
  <2>2. n \in Nat /\ Len(m) \in Nat
    BY <1>1
  <2>3. ASSUME NEW i \in S PROVE i \in n + 1 .. Len(m)
    <3>1. i \in 1 .. Len(m)
      BY <2>1
    <3>2. i > n
      BY <1>3, <3>1
    <3> QED  BY <2>2, <3>1, <3>2
  <2>4. ASSUME NEW i \in n + 1 .. Len(m) PROVE i \in S
    <3>1. i \in 1 .. Len(m) /\ i > n
      BY <2>2
    <3> QED  BY <1>3, <3>1
  <2> QED  BY <2>3, <2>4
<1>5. body = InOrder(Len(m), S)
  BY SameConversation
<1> HIDE DEF n, S
<1>6. body = [k \in 1 .. Len(m) - n |-> k + n]
  BY <1>1, <1>4, <1>5, InOrderTail
<1>7. C!Shape(m) = [i \in DOMAIN body |-> Message(m[body[i]].role, m[body[i]].ids)]
  BY DEF C!Shape, S, C!Message, Message
<1> HIDE DEF body
<1>8. DOMAIN body = 1 .. Len(m) - n /\ \A i \in 1 .. Len(m) - n : body[i] = n + i
  BY <1>1, <1>6
<1>9. C!Shape(m) = [i \in 1 .. Len(m) - n |-> Message(m[n + i].role, m[n + i].ids)]
  BY <1>7, <1>8
<1>10. ASSUME NEW i \in 1 .. Len(m) - n PROVE Message(m[n + i].role, m[n + i].ids) \in Msgs
  <2>1. m[n + i] \in Ctx
    BY <1>1
  <2> QED  BY <2>1 DEF Ctx, Fields, Message, Msgs
<1>11. C!Shape(m) \in Seq(Msgs)
  <2> DEFINE l == Len(m) - n
             F(i) == Message(m[n + i].role, m[n + i].ids)
  <2>1. l \in Nat /\ C!Shape(m) = [i \in 1 .. l |-> F(i)] /\ \A i \in 1 .. l : F(i) \in Msgs
    BY <1>1, <1>9, <1>10
  <2> HIDE DEF l, F, Msgs
  <2> QED  BY <2>1
<1>12. Outline(m, n, C!Shape(m))
  BY <1>1, <1>9 DEF Outline
<1> QED  BY <1>11, <1>12 DEF n

(* It does not see sizes.                                                  *)
LEMMA ShapeSame ==
  ASSUME NEW m \in Seq(Ctx), NEW s \in Seq(Ctx), Headed(m), Resized(m, s)
  PROVE  C!Shape(s) = C!Shape(m)
<1>1. Headed(s)
  BY HeadedSame
<1>2. Len(s) = Len(m) /\ \A i \in 1 .. Len(m) : s[i].kind = m[i].kind /\ s[i].role = m[i].role /\ s[i].ids = m[i].ids
  BY DEF Resized, Smaller
<1>3. Front(s) = Front(m)
  BY <1>2 DEF Front
<1>4. Front(m) \in {1, 2} /\ Len(m) \in Nat /\ Front(m) <= Len(m)
  BY DEF Front, Headed
<1> DEFINE n == Front(m)
           a == C!Shape(s)
           b == C!Shape(m)
<1>5. a \in Seq(Msgs) /\ b \in Seq(Msgs) /\ Outline(s, n, a) /\ Outline(m, n, b)
  BY <1>1, <1>3, ShapeIs
<1> HIDE DEF n, a, b
<1>6. Len(a) = Len(b) /\ \A i \in 1 .. Len(b) : a[i] = b[i]
  <2>1. \A i \in 1 .. Len(m) - n : n + i \in 1 .. Len(m)
    BY <1>4 DEF n
  <2> QED  BY <1>2, <1>5, <2>1 DEF Outline
<1>7. a = b
  BY <1>5, <1>6, SameSequence
<1> QED  BY <1>7 DEF a, b

(* What alignKeepAtUser cuts off depends on the roles alone.               *)
LEMMA AlignSame ==
  ASSUME NEW S, NEW v \in Seq(S), NEW T, NEW w \in Seq(T), Len(w) = Len(v),
         \A i \in 1 .. Len(v) : w[i].role = v[i].role
  PROVE  \E e \in 0 .. Len(v) :
            /\ AlignKeepAtUser(v) \in Seq(S) /\ EndOf(v, e, AlignKeepAtUser(v))
            /\ AlignKeepAtUser(w) \in Seq(T) /\ EndOf(w, e, AlignKeepAtUser(w))
<1> DEFINE n == Len(v)
           users == {i \in 1 .. n : v[i].role = "user"}
           others == {i \in 1 .. n : v[i].role # "tool"}
<1>1. n \in Nat /\ users \subseteq 1 .. n /\ others \subseteq 1 .. n
  OBVIOUS
<1>2. {i \in 1 .. n : w[i].role = "user"} = users /\ {i \in 1 .. n : w[i].role # "tool"} = others
  OBVIOUS
<1>3. AlignKeepAtUser(v) = IF users # {} THEN SubSeq(v, First(users), n)
                           ELSE IF others # {} THEN SubSeq(v, First(others), n) ELSE <<>>
  BY DEF AlignKeepAtUser
<1>4. AlignKeepAtUser(w) = IF users # {} THEN SubSeq(w, First(users), n)
                           ELSE IF others # {} THEN SubSeq(w, First(others), n) ELSE <<>>
  BY <1>2 DEF AlignKeepAtUser
<1> HIDE DEF users, others
<1>5. ASSUME NEW f \in 1 .. n, AlignKeepAtUser(v) = SubSeq(v, f, n), AlignKeepAtUser(w) = SubSeq(w, f, n)
      PROVE  \E e \in 0 .. n :
                /\ AlignKeepAtUser(v) \in Seq(S) /\ EndOf(v, e, AlignKeepAtUser(v))
                /\ AlignKeepAtUser(w) \in Seq(T) /\ EndOf(w, e, AlignKeepAtUser(w))
  <2> DEFINE e == f - 1
  <2>1. e \in 0 .. n /\ e + 1 = f
    OBVIOUS
  <2> HIDE DEF e
  <2>2. SubSeq(v, e + 1, n) \in Seq(S) /\ EndOf(v, e, SubSeq(v, e + 1, n))
    BY <2>1, TailOf
  <2>3. SubSeq(w, e + 1, n) \in Seq(T) /\ EndOf(w, e, SubSeq(w, e + 1, n))
    BY <2>1, TailOf
  <2> QED  BY <1>5, <2>1, <2>2, <2>3
<1>6. CASE users # {}
  BY <1>1, <1>3, <1>4, <1>5, <1>6, FirstIs
<1>7. CASE users = {} /\ others # {}
  BY <1>1, <1>3, <1>4, <1>5, <1>7, FirstIs
<1>8. CASE users = {} /\ others = {}
  <2>1. AlignKeepAtUser(v) = <<>> /\ AlignKeepAtUser(w) = <<>>
    BY <1>3, <1>4, <1>8
  <2>2. n \in 0 .. n /\ EndOf(v, n, <<>>) /\ EndOf(w, n, <<>>)
    BY <1>1 DEF EndOf
  <2>3. <<>> \in Seq(S) /\ <<>> \in Seq(T)
    OBVIOUS
  <2> QED  BY <2>1, <2>2, <2>3
<1> QED  BY <1>6, <1>7, <1>8

(* Of what the loop's model knows, a remade history is a compaction.       *)
LEMMA RemadeShape ==
  ASSUME NEW s \in Seq(Ctx), Headed(s), Len(s) >= 6, NEW k \in 2 .. Len(s) - 2,
         NEW o, Headed(o), NEW a, NEW p, NEW x, Remade(s, k, a, p, x, o)
  PROVE  C!Shape(o) \in Compacted(C!Shape(s))
<1> DEFINE q == C!Shape(s)
           u == C!Shape(o)
           n == Front(s)
           c == Heads(p)
           l == Len(s)
           r == Tail(s)
           v == SubSeq(r, Len(r) - k + 1, Len(r))
           w == SubSeq(q, Len(q) - k + 1, Len(q))
           z == AlignKeepAtUser(w)
<1>1. PICK d \in Len(s) - k .. Len(s) : Composed(s, o, c, d, a, p, x)
  BY RemadeIs
<1>2. /\ o \in Seq(Ctx) /\ Len(o) = c + Len(a) /\ c \in {2, 3}
      /\ o[1].kind = "system"
      /\ c = 3 => o[2].kind = "anchor"
      /\ o[c].role = "user" /\ o[c].ids = <<>> /\ o[c].kind # "anchor"
      /\ \A i \in 1 .. Len(a) : Smaller(a[i], o[c + i])
  BY <1>1 DEF Composed, C!Summary, C!Text
<1>3. a = AlignKeepAtUser(v)
  BY DEF Remade
<1>4. l \in Nat /\ n \in {1, 2} /\ l >= 6
  BY DEF Front
<1>5. q \in Seq(Msgs) /\ Outline(s, n, q)
  BY ShapeIs
<1>6. u \in Seq(Msgs) /\ Outline(o, Front(o), u)
  BY <1>2, ShapeIs
<1> HIDE DEF q, u, n, c
<1>7. Len(q) = l - n /\ Len(q) \in Nat /\ Len(q) > 3 /\ k \in 2 .. Len(q)
      /\ \A i \in 1 .. Len(q) : q[i] = Message(s[n + i].role, s[n + i].ids)
  BY <1>4, <1>5 DEF Outline
<1>8. r \in Seq(Ctx) /\ Len(r) = l - 1 /\ \A i \in 1 .. l - 1 : r[i] = s[i + 1]
  BY <1>4
<1> HIDE DEF l, r
<1>9. v \in Seq(Ctx) /\ Len(v) = k /\ \A i \in 1 .. k : v[i] = s[l - k + i]
  <2> DEFINE e == Len(r) - k
  <2>1. e \in 0 .. Len(r) /\ Len(r) - e = k /\ k \in Nat
    BY <1>4, <1>8 DEF l
  <2>2. e + 1 = Len(r) - k + 1
    BY <1>4, <1>8
  <2>3. \A i \in 1 .. k : e + i \in 1 .. l - 1 /\ (e + i) + 1 = l - k + i
    BY <1>4, <1>8 DEF l
  <2> HIDE DEF e
  <2>4. v \in Seq(Ctx) /\ EndOf(r, e, v)
    BY <1>8, <2>1, <2>2, TailOf
  <2>5. Len(v) = k
    BY <2>1, <2>4 DEF EndOf
  <2>6. ASSUME NEW i \in 1 .. k PROVE v[i] = s[l - k + i]
    <3>1. v[i] = r[e + i]
      BY <2>1, <2>4 DEF EndOf
    <3> QED  BY <3>1, <2>3, <1>8
  <2> QED  BY <2>4, <2>5, <2>6
<1>10. w \in Seq(Msgs) /\ Len(w) = k /\ \A i \in 1 .. k : w[i] = Message(s[l - k + i].role, s[l - k + i].ids)
  <2> DEFINE e == Len(q) - k
  <2>1. e \in 0 .. Len(q) /\ Len(q) - e = k /\ k \in Nat
    BY <1>7
  <2>2. e + 1 = Len(q) - k + 1
    BY <1>7
  <2>3. \A i \in 1 .. k : e + i \in 1 .. Len(q) /\ n + (e + i) = l - k + i
    BY <1>4, <1>7
  <2> HIDE DEF e
  <2>4. w \in Seq(Msgs) /\ EndOf(q, e, w)
    BY <1>5, <2>1, <2>2, TailOf
  <2>5. Len(w) = k
    BY <2>1, <2>4 DEF EndOf
  <2>6. ASSUME NEW i \in 1 .. k PROVE w[i] = Message(s[l - k + i].role, s[l - k + i].ids)
    <3>1. w[i] = q[e + i]
      BY <2>1, <2>4 DEF EndOf
    <3> QED  BY <3>1, <2>3, <1>7
  <2> QED  BY <2>4, <2>5, <2>6
<1>11. \A i \in 1 .. k : w[i] = Message(v[i].role, v[i].ids)
  BY <1>9, <1>10
<1>12. z \in {AlignKeepAtUser(SubSeq(q, Len(q) - j + 1, Len(q))) : j \in 2 .. Len(q)}
  BY <1>7
<1> HIDE DEF v, w
<1>13. PICK e \in 0 .. k : a \in Seq(Ctx) /\ EndOf(v, e, a) /\ z \in Seq(Msgs) /\ EndOf(w, e, z)
  <2>1. \A i \in 1 .. Len(v) : w[i].role = v[i].role
    <3>1. \A y, ids : Message(y, ids).role = y
      BY DEF Message
    <3> QED  BY <1>9, <1>11, <3>1
  <2>2. \E e \in 0 .. Len(v) :
           /\ AlignKeepAtUser(v) \in Seq(Ctx) /\ EndOf(v, e, AlignKeepAtUser(v))
           /\ AlignKeepAtUser(w) \in Seq(Msgs) /\ EndOf(w, e, AlignKeepAtUser(w))
    BY <1>9, <1>10, <2>1, AlignSame
  <2> QED  BY <1>3, <1>9, <2>2
<1> HIDE DEF z
<1>14. Len(z) = Len(a) /\ \A i \in 1 .. Len(a) : z[i] = Message(a[i].role, a[i].ids)
  <2>1. Len(a) = k - e /\ \A i \in 1 .. k - e : a[i] = v[e + i]
    BY <1>9, <1>13 DEF EndOf
  <2>2. Len(z) = k - e /\ \A i \in 1 .. k - e : z[i] = w[e + i]
    BY <1>10, <1>13 DEF EndOf
  <2>3. \A i \in 1 .. k - e : e + i \in 1 .. k
    OBVIOUS
  <2> QED  BY <2>1, <2>2, <2>3, <1>11
<1>15. Front(o) = c - 1
  <2>1. Len(o) \in Nat /\ Len(o) >= 2
    BY <1>2, <1>13
  <2> QED  BY <1>2, <2>1 DEF Front
<1>16. Len(u) = Len(a) + 1 /\ u[1] = User /\ \A i \in 1 .. Len(a) : u[1 + i] = z[i]
  <2>1. Len(a) \in Nat /\ Len(o) - (c - 1) = Len(a) + 1 /\ c - 1 \in Nat
    BY <1>2, <1>13
  <2>2. Len(u) = Len(a) + 1 /\ \A i \in 1 .. Len(a) + 1 : u[i] = Message(o[(c - 1) + i].role, o[(c - 1) + i].ids)
    BY <1>6, <1>15, <2>1 DEF Outline
  <2>3. u[1] = User
    <3>1. (c - 1) + 1 = c /\ 1 \in 1 .. Len(a) + 1
      BY <1>2, <2>1
    <3> QED  BY <3>1, <2>2, <1>2 DEF User
  <2>4. ASSUME NEW i \in 1 .. Len(a) PROVE u[1 + i] = z[i]
    <3>1. 1 + i \in 1 .. Len(a) + 1 /\ (c - 1) + (1 + i) = c + i
      BY <1>2, <2>1
    <3>2. u[1 + i] = Message(o[c + i].role, o[c + i].ids)
      BY <2>2, <3>1
    <3> QED  BY <3>2, <1>2, <1>14 DEF Smaller
  <2> QED  BY <2>2, <2>3, <2>4
<1>17. u = <<User>> \o z
  <2>1. User \in Msgs /\ z \in Seq(Msgs) /\ u \in Seq(Msgs)
    BY MsgsCall, <1>6, <1>13
  <2> HIDE DEF User
  <2>2. <<User>> \o z \in Seq(Msgs) /\ Len(<<User>> \o z) = Len(z) + 1 /\ (<<User>> \o z)[1] = User
        /\ \A i \in 1 .. Len(z) : (<<User>> \o z)[1 + i] = z[i]
    BY <2>1
  <2> DEFINE y == <<User>> \o z
  <2> HIDE DEF y
  <2>3. Len(u) = Len(y) /\ \A i \in 1 .. Len(u) : u[i] = y[i]
    <3>1. Len(u) = Len(y) /\ Len(a) \in Nat
      BY <2>2, <1>13, <1>14, <1>16 DEF y
    <3>2. ASSUME NEW i \in 1 .. Len(u) PROVE u[i] = y[i]
      <4>1. CASE i = 1
        BY <4>1, <1>16, <2>2 DEF y
      <4>2. CASE i # 1
        <5>1. i - 1 \in 1 .. Len(a) /\ 1 + (i - 1) = i
          BY <4>2, <3>1, <1>16
        <5> DEFINE j == i - 1
        <5> HIDE DEF j
        <5>2. j \in 1 .. Len(a) /\ 1 + j = i
          BY <5>1 DEF j
        <5> QED  BY <5>2, <1>14, <1>16, <2>2 DEF y
      <4> QED  BY <4>1, <4>2
    <3> QED  BY <3>1, <3>2
  <2>4. u = y
    BY <2>1, <2>2, <2>3 DEF y
  <2> QED  BY <2>4 DEF y
<1>18. u \in Compacted(q)
  <2> DEFINE A(j) == AlignKeepAtUser(SubSeq(q, Len(q) - j + 1, Len(q)))
  <2>1. PICK j \in 2 .. Len(q) : z = A(j)
    BY <1>12
  <2>2. {<<User>> \o A(i) : i \in 2 .. Len(q)} \subseteq Compacted(q)
    <3>1. ~(Len(q) <= 3)
      BY <1>7
    <3> QED  BY <3>1 DEF Compacted
  <2> HIDE DEF A, z
  <2>3. u \in {<<User>> \o A(i) : i \in 2 .. Len(q)}
    BY <1>17, <2>1
  <2> QED  BY <2>2, <2>3
<1> QED  BY <1>18 DEF u, q

(* What it sees of a compaction is one of its own compactions.             *)
LEMMA CompactedShape ==
  ASSUME NEW m \in Seq(Ctx), Headed(m), NEW o, Compacting(m, o)
  PROVE  C!Shape(o) \in C!Compacted(C!Shape(m))
<1>1. ASSUME NEW s, Snipped(m, s) PROVE s \in Seq(Ctx) /\ Headed(s) /\ C!Shape(s) = C!Shape(m)
  BY <1>1, HeadedSame, ShapeSame DEF Snipped
<1>2. CASE Snipped(m, o)
  BY <1>1, <1>2, SameConversation DEF Compacted
<1>3. CASE \E s : Snipped(m, s) /\ Dropping(s, o)
  <2>1. PICK s : Snipped(m, s) /\ Dropping(s, o)
    BY <1>3
  <2>2. s \in Seq(Ctx) /\ Headed(s) /\ C!Shape(s) = C!Shape(m)
    BY <1>1, <2>1
  <2>0. PICK k \in 2 .. Len(s) - 2 : \E a, p, x : Remade(s, k, a, p, x, o)
    BY <2>1 DEF Dropping
  <2>3. PICK a, p, x : Remade(s, k, a, p, x, o)
    BY <2>0
  <2>4. Headed(o)
    BY <2>2, <2>3, RemadeHeaded
  <2>5. C!Shape(o) \in Compacted(C!Shape(s))
    BY <2>1, <2>2, <2>3, <2>4, RemadeShape DEF Dropping
  <2> QED  BY <2>2, <2>5, SameConversation
<1> QED  BY <1>2, <1>3 DEF Compacting

(* A wish a message tells.                                                 *)
Tells(m, i, w) == \E j \in 1 .. Len(m[i].says) : m[i].says[j] = w

LEMMA SaidIs ==
  ASSUME NEW m \in Seq(Ctx), NEW S, S \subseteq 1 .. Len(m), NEW w
  PROVE  w \in C!Said(m, S) <=> \E i \in S : Tells(m, i, w)
<1>1. ASSUME NEW i \in S PROVE w \in C!ToSet(m[i].says) <=> Tells(m, i, w)
  <2>1. m[i] \in Ctx
    OBVIOUS
  <2>2. m[i].says \in Seq(Words)
    BY <2>1 DEF Ctx, Fields
  <2>3. DOMAIN m[i].says = 1 .. Len(m[i].says)
    BY <2>2
  <2> QED  BY <2>3 DEF C!ToSet, Tells
<1>2. w \in C!Said(m, S) <=> \E i \in S : w \in C!ToSet(m[i].says)
  BY DEF C!Said
<1> QED  BY <1>1, <1>2

(* What the user said and nothing cuts is one word.                        *)
LEMMA TextIs ==
  ASSUME NEW x \in Ctx, x.kind \in Texts
  PROVE  /\ x.says \in Seq(Words) /\ Len(x.says) = 1 /\ x.says[1] \in Words
         /\ x.says = <<x.says[1]>>
<1>1. x.says \in Seq(Words) /\ Len(x.says) = 1
  BY DEF Ctx, Fields, Formed
<1> QED  BY <1>1

(* The wishes of a history.                                                *)
LEMMA WantsAre ==
  ASSUME NEW m \in Seq(Ctx)
  PROVE  /\ C!Wants(m) = {i \in 1 .. Len(m) : Want(m[i])}
         /\ \A w : w \in C!Said(m, C!Wants(m)) <=> \E i \in 1 .. Len(m) : Want(m[i]) /\ m[i].says[1] = w
<1>1. C!Wants(m) = {i \in 1 .. Len(m) : Want(m[i])}
  BY DEF C!Wants, Want
<1>2. ASSUME NEW w
      PROVE  w \in C!Said(m, C!Wants(m)) <=> \E i \in 1 .. Len(m) : Want(m[i]) /\ m[i].says[1] = w
  <2>1. w \in C!Said(m, C!Wants(m)) <=> \E i \in C!Wants(m) : Tells(m, i, w)
    BY <1>1, SaidIs
  <2>2. ASSUME NEW i \in 1 .. Len(m), Want(m[i]) PROVE Tells(m, i, w) <=> m[i].says[1] = w
    <3>1. m[i] \in Ctx
      OBVIOUS
    <3>2. Len(m[i].says) = 1
      BY <2>2, <3>1, TextIs DEF Want, Texts
    <3> QED  BY <3>2 DEF Tells
  <2> QED  BY <1>1, <2>1, <2>2
<1> QED  BY <1>1, <1>2

(* Snipping leaves them all.                                               *)
LEMMA SnippedSaid ==
  ASSUME NEW m \in Seq(Ctx), NEW s, Snipped(m, s)
  PROVE  /\ s \in Seq(Ctx) /\ C!Wants(s) = C!Wants(m) /\ Len(s) = Len(m)
         /\ \A i \in 1 .. Len(m) : s[i].says = m[i].says
         /\ \A S : C!Said(s, S) = C!Said(m, S) \/ ~(S \subseteq 1 .. Len(m))
<1>1. s \in Seq(Ctx) /\ Len(s) = Len(m) /\ \A i \in 1 .. Len(m) : s[i].says = m[i].says /\ s[i].kind = m[i].kind
  BY DEF Snipped, Resized, Saying, Smaller
<1>2. C!Wants(s) = C!Wants(m)
  <2>1. DOMAIN s = 1 .. Len(m) /\ DOMAIN m = 1 .. Len(m)
    BY <1>1
  <2> QED  BY <1>1, <2>1 DEF C!Wants
<1>3. ASSUME NEW S, S \subseteq 1 .. Len(m) PROVE C!Said(s, S) = C!Said(m, S)
  BY <1>1, <1>3 DEF C!Said
<1> QED  BY <1>1, <1>2, <1>3

(* What a user asked for is still a message, or open to be pinned.         *)
LEMMA KeptOrOpen ==
  ASSUME NEW s \in Seq(Ctx), Headed(s), NEW o, NEW c, NEW d, NEW a \in Seq(Ctx), NEW p, NEW x,
         Composed(s, o, c, d, a, p, x), NEW i \in 1 .. Len(s), Want(s[i])
  PROVE  /\ i - 1 \in 1 .. Len(Tail(s)) /\ Tail(s)[i - 1] = s[i]
         /\ s[i].says[1] \in C!Said(o, DOMAIN o) \/ Open(Tail(s), a, i - 1)
<1> DEFINE w == s[i].says[1]
           r == Tail(s)
<1>1. Len(s) \in Nat /\ i # 1
  BY DEF Headed, Want
<1>2. r \in Seq(Ctx) /\ Len(r) = Len(s) - 1 /\ \A j \in 1 .. Len(s) - 1 : r[j] = s[j + 1]
  BY <1>1
<1>3. i - 1 \in 1 .. Len(r) /\ r[i - 1] = s[i]
  <2>1. i - 1 \in 1 .. Len(s) - 1 /\ (i - 1) + 1 = i
    BY <1>1
  <2> QED  BY <2>1, <1>2
<1> HIDE DEF r
<1>4. ASSUME s[i].says \in C!Says(a) PROVE w \in C!Said(o, DOMAIN o)
  <2>1. PICK j \in 1 .. Len(a) : C!IsText(a[j]) /\ a[j].says = s[i].says
    BY <1>4 DEF C!Says
  <2>2. o \in Seq(Ctx) /\ Len(o) = c + Len(a) /\ c \in {2, 3} /\ Smaller(a[j], o[c + j])
    BY DEF Composed
  <2>3. c + j \in 1 .. Len(o) /\ DOMAIN o = 1 .. Len(o)
    BY <2>2
  <2>4. o[c + j].says = s[i].says
    BY <2>1, <2>2 DEF Smaller, C!IsText
  <2>5. s[i] \in Ctx
    OBVIOUS
  <2>6. Len(s[i].says) = 1
    BY <2>5, TextIs DEF Want, Texts
  <2>7. Tells(o, c + j, w)
    BY <2>4, <2>6 DEF Tells
  <2> HIDE DEF w
  <2> QED  BY <2>2, <2>3, <2>7, SaidIs
<1> QED  BY <1>3, <1>4 DEF Open, r

(* The anchor tells what it pins.                                          *)
LEMMA AnchorTells ==
  ASSUME NEW s, NEW o, NEW d, NEW a, NEW p, NEW x, Composed(s, o, 3, d, a, p, x), NEW i \in 1 .. o[2].size
  PROVE  p[i] \in C!Said(o, DOMAIN o)
<1>1. o \in Seq(Ctx) /\ Len(o) = 3 + Len(a) /\ AnchorOf(o[2], p) /\ 2 \in 1 .. Len(o)
  BY DEF Composed
<1>2. Tells(o, 2, p[i])
  BY <1>1 DEF AnchorOf, Tells
<1>3. DOMAIN o = 1 .. Len(o)
  BY <1>1
<1> QED  BY <1>1, <1>2, <1>3, SaidIs

(* What a compaction of m keeps in o: the two promises of RequestsWhole.   *)
FirstKept(m, o) ==
  C!Wants(m) # {} => m[C!First(C!Wants(m))].says[1] \in C!Said(o, DOMAIN o)

AllKept(m, o) ==
  C!Cardinality(C!Said(m, C!Wants(m))) <= MaxPins /\ ~C!AnchorCut(m, o)
    => C!Said(m, C!Wants(m)) \subseteq C!Said(o, DOMAIN o)

(* The pins of a history in which something is open.                       *)
LEMMA SomeOpen ==
  ASSUME NEW r, NEW a, NEW p, Pinning(r, a, p), NEW i \in 1 .. Len(r), Open(r, a, i)
  PROVE  PinsOf(r, a, Len(r), p)
BY DEF Pinning

(* The first wish is in the window, or the first pin, and no anchor is cut *)
(* below one.                                                              *)
LEMMA FirstWanted ==
  ASSUME NEW s \in Seq(Ctx), Headed(s), Len(s) >= 6, NEW k \in 2 .. Len(s) - 2, NEW a, NEW p, NEW x, NEW o,
         Remade(s, k, a, p, x, o)
  PROVE  FirstKept(s, o)
<1> DEFINE r == Tail(s)
           W == C!Wants(s)
           f == C!First(W)
           w == s[f].says[1]
<1>1. PICK d \in Len(s) - k .. Len(s) : Composed(s, o, Heads(p), d, a, p, x)
  BY RemadeIs
<1>2. a \in Seq(Ctx) /\ p \in Seq(Words) /\ Pinning(r, a, p)
  BY DEF Remade
<1> SUFFICES ASSUME W # {} PROVE w \in C!Said(o, DOMAIN o)
  BY DEF FirstKept
<1>3. W = {i \in 1 .. Len(s) : Want(s[i])}
  BY WantsAre
<1>4. f \in 1 .. Len(s) /\ Want(s[f]) /\ \A j \in 1 .. Len(s) : Want(s[j]) => f <= j
  <2>1. W \subseteq 1 .. Len(s)
    BY <1>3
  <2> HIDE DEF W
  <2>2. C!First(W) \in W /\ \A j \in W : C!First(W) <= j
    BY <2>1, FirstIs, SameConversation
  <2> QED  BY <1>3, <2>2
<1> HIDE DEF W, f, r
<1>5. /\ f - 1 \in 1 .. Len(r) /\ r[f - 1] = s[f]
      /\ w \in C!Said(o, DOMAIN o) \/ Open(r, a, f - 1)
  BY <1>1, <1>2, <1>4, KeptOrOpen DEF r
<1>6. CASE Open(r, a, f - 1)
  <2>1. PinsOf(r, a, Len(r), p)
    BY <1>2, <1>5, <1>6, SomeOpen
  <2>2. ASSUME NEW j \in 1 .. (f - 1) - 1 PROVE ~Want(r[j])
    <3>1. Len(s) \in Nat /\ j + 1 \in 1 .. Len(s) /\ j \in 1 .. Len(s) - 1 /\ j + 1 < f
      BY <1>4
    <3>2. r[j] = s[j + 1]
      BY <3>1 DEF r
    <3> QED  BY <1>4, <3>1, <3>2
  <2>3. Len(p) > 0 /\ p[1] = r[f - 1].says[1]
    BY <1>5, <1>6, <2>1, <2>2 DEF PinsOf
  <2>4. Heads(p) = 3
    BY <1>2, <2>3 DEF Heads
  <2>5. Composed(s, o, 3, d, a, p, x)
    BY <1>1, <2>4
  <2>6. 1 \in 1 .. o[2].size
    BY <2>5 DEF Composed, AnchorOf
  <2>7. p[1] \in C!Said(o, DOMAIN o)
    BY <2>5, <2>6, AnchorTells
  <2> QED  BY <1>5, <2>3, <2>7
<1> QED  BY <1>5, <1>6

(* As many different values of a finite set as it has are all of them.     *)
Different(p, n) == \A i, j \in 1 .. n : p[i] = p[j] => i = j
(* n different values of D, and all of them.                               *)
Within(p, n, D) == \A i \in 1 .. n : p[i] \in D
Covers(p, n, D) == \A v \in D : \E i \in 1 .. n : p[i] = v

(* As many different values as there are are all of them.                  *)
LEMMA AllTaken ==
  ASSUME NEW D, IsFiniteSet(D), NEW n \in Nat, NEW p, Within(p, n, D), Different(p, n)
  PROVE  n <= Cardinality(D) /\ (n = Cardinality(D) => Covers(p, n, D))
<1> DEFINE f == [i \in 1 .. n |-> p[i]]
<1>1. f \in Injection(1 .. n, D)
  BY DEF Injection, IsInjective, Within, Different
<1>2. IsFiniteSet(1 .. n) /\ Cardinality(1 .. n) = n
  BY FS_Interval
<1>3. n <= Cardinality(D) /\ (n = Cardinality(D) <=> f \in Surjection(1 .. n, D))
  <2> HIDE DEF f
  <2> QED  BY <1>1, <1>2, FS_Injection
<1>4. ASSUME f \in Surjection(1 .. n, D), NEW v \in D PROVE \E i \in 1 .. n : p[i] = v
  <2>1. \E i \in 1 .. n : f[i] = v
    BY <1>4 DEF Surjection
  <2> QED  BY <2>1
<1> QED  BY <1>3, <1>4 DEF Covers

(* What no kept text says, no message that is kept wants.                  *)
LEMMA NotStill ==
  ASSUME NEW s, NEW o, NEW c, NEW d, NEW a \in Seq(Ctx), NEW p, NEW x, Composed(s, o, c, d, a, p, x),
         NEW y \in Ctx, y.kind \in Texts, y.says \notin C!Says(a)
  PROVE  y.says[1] \notin C!Said(o, {i \in C!Wants(o) : o[i] # C!Summary})
<1> DEFINE still == {i \in C!Wants(o) : o[i] # C!Summary}
           w == y.says[1]
<1>1. /\ o \in Seq(Ctx) /\ Len(o) = c + Len(a) /\ c \in {2, 3} /\ Len(a) \in Nat
      /\ o[1].kind = "system"
      /\ c = 3 => o[2].kind = "anchor"
      /\ o[c].kind = x.kind
      /\ x.kind = "stub" \/ o[c] = C!Summary
      /\ \A i \in 1 .. Len(a) : Smaller(a[i], o[c + i])
  BY DEF Composed
<1>2. still \subseteq 1 .. Len(o) /\ \A h \in still : Want(o[h]) /\ o[h] # C!Summary
  BY <1>1, WantsAre
<1> HIDE DEF still
<1>3. ASSUME w \in C!Said(o, still) PROVE FALSE
  <2>1. PICK h \in still : Tells(o, h, w)
    BY <1>1, <1>2, <1>3, SaidIs
  <2>2. h \in 1 .. Len(o) /\ Want(o[h]) /\ o[h] # C!Summary
    BY <1>2
  <2>3. h # 1 /\ h # c /\ (c = 3 => h # 2)
    BY <1>1, <2>2 DEF Want
  <2>4. PICK g \in 1 .. Len(a) : h = c + g
    <3> DEFINE g == h - c
    <3>1. g \in 1 .. Len(a) /\ h = c + g
      BY <1>1, <2>2, <2>3
    <3> HIDE DEF g
    <3> QED  BY <3>1
  <2>5. Smaller(a[g], o[h])
    BY <1>1, <2>4
  <2>6. C!IsText(a[g]) /\ a[g].says = o[h].says
    BY <2>2, <2>5 DEF Smaller, Want, C!IsText
  <2>7. o[h] \in Ctx /\ o[h].kind \in Texts
    <3>1. o[h] \in Ctx
      BY <1>1, <2>2
    <3> QED  BY <2>2, <3>1 DEF Want, Texts
  <2>8. Len(o[h].says) = 1 /\ o[h].says = <<o[h].says[1]>>
    BY <2>7, TextIs
  <2>9. o[h].says[1] = w
    BY <2>1, <2>8 DEF Tells
  <2>10. y.says = <<w>>
    BY TextIs
  <2>11. a[g].says = y.says
    BY <2>6, <2>8, <2>9, <2>10
  <2>12. DOMAIN a = 1 .. Len(a)
    OBVIOUS
  <2>13. a[g].says \in C!Says(a)
    BY <2>6, <2>12 DEF C!Says
  <2> QED  BY <2>11, <2>13
<1> QED  BY <1>3 DEF still

LEMMA SaidFinite ==
  ASSUME NEW m \in Seq(Ctx)
  PROVE  IsFiniteSet(C!Said(m, C!Wants(m)))
<1> DEFINE W == C!Wants(m)
           D == C!Said(m, W)
           f == [i \in W |-> m[i].says[1]]
<1>1. W = {i \in 1 .. Len(m) : Want(m[i])} /\ Len(m) \in Nat
  BY WantsAre
<1>2. \A w : w \in D <=> \E i \in 1 .. Len(m) : Want(m[i]) /\ m[i].says[1] = w
  BY WantsAre
<1> HIDE DEF W, D
<1>3. IsFiniteSet(W)
  <2>1. IsFiniteSet(1 .. Len(m)) /\ W \subseteq 1 .. Len(m)
    BY <1>1, FS_Interval
  <2> QED  BY <2>1, FS_Subset
<1>4. f \in Surjection(W, D)
  <2>1. \A i \in W : m[i].says[1] \in D
    BY <1>1, <1>2
  <2>2. \A w \in D : \E i \in W : m[i].says[1] = w
    BY <1>1, <1>2
  <2> QED  BY <2>1, <2>2 DEF Surjection
<1> HIDE DEF f
<1>5. IsFiniteSet(D)
  BY <1>3, <1>4, FS_Surjection
<1> QED  BY <1>5 DEF D, W

(* With no more wishes than pins each is pinned or kept.                   *)
LEMMA AllWanted ==
  ASSUME MaxPins \in Nat,
         NEW s \in Seq(Ctx), Headed(s), Len(s) >= 6, NEW k \in 2 .. Len(s) - 2, NEW a, NEW p, NEW x, NEW o,
         Remade(s, k, a, p, x, o)
  PROVE  AllKept(s, o)
<1> DEFINE r == Tail(s)
           D == C!Said(s, C!Wants(s))
           E == C!Said(o, DOMAIN o)
           still == {i \in C!Wants(o) : o[i] # C!Summary}
           M == C!Missing(s, o)
<1>1. PICK d \in Len(s) - k .. Len(s) : Composed(s, o, Heads(p), d, a, p, x)
  BY RemadeIs
<1>2. a \in Seq(Ctx) /\ p \in Seq(Words) /\ Pinning(r, a, p) /\ Len(p) \in Nat
  BY DEF Remade
<1>3. /\ o \in Seq(Ctx) /\ Len(o) = Heads(p) + Len(a) /\ Heads(p) \in {2, 3}
      /\ o[1].kind = "system"
      /\ Heads(p) = 3 => o[2].kind = "anchor" /\ AnchorOf(o[2], p)
      /\ o[Heads(p)].kind = x.kind
      /\ x.kind = "stub" \/ o[Heads(p)] = C!Summary
      /\ \A i \in 1 .. Len(a) : Smaller(a[i], o[Heads(p) + i])
  BY <1>1 DEF Composed
<1>4. M = D \ C!Said(o, still)
  BY DEF C!Missing
<1>5. IsFiniteSet(D) /\ C!Cardinality(D) = Cardinality(D) /\ C!Cardinality(M) = Cardinality(M)
  BY SaidFinite, SameCardinality
<1>6. \A v : v \in D <=> \E i \in 1 .. Len(s) : Want(s[i]) /\ s[i].says[1] = v
  BY WantsAre
<1> SUFFICES ASSUME Cardinality(D) <= MaxPins, ~C!AnchorCut(s, o), NEW v \in D
             PROVE  v \in E
  BY <1>5 DEF AllKept
<1> HIDE DEF D, E, M, r
<1>7. PICK i \in 1 .. Len(s) : Want(s[i]) /\ s[i].says[1] = v
  BY <1>6
<1>8. /\ i - 1 \in 1 .. Len(r) /\ r[i - 1] = s[i]
      /\ v \in E \/ Open(r, a, i - 1)
  BY <1>1, <1>2, <1>7, KeptOrOpen DEF r, E
<1>9. CASE Open(r, a, i - 1)
  <2>1. PinsOf(r, a, Len(r), p)
    BY <1>2, <1>8, <1>9, SomeOpen
  <2>2. /\ Len(p) <= MaxPins
        /\ \A j, l \in 1 .. Len(p) : p[j] = p[l] => j = l
        /\ \A j \in 1 .. Len(p) : \E l \in 1 .. Len(r) : Open(r, a, l) /\ r[l].says[1] = p[j]
        /\ Len(p) = MaxPins \/ \E j \in 1 .. Len(p) : p[j] = v
    <3>1. /\ Len(p) <= MaxPins
          /\ \A j, l \in 1 .. Len(p) : p[j] = p[l] => j = l
          /\ \A j \in 1 .. Len(p) : \E l \in 1 .. Len(r) : Open(r, a, l) /\ r[l].says[1] = p[j]
      BY <2>1 DEF PinsOf
    <3>2. Len(p) = MaxPins \/ \E j \in 1 .. Len(p) : p[j] = r[i - 1].says[1]
      BY <1>8, <1>9, <2>1 DEF PinsOf
    <3>3. r[i - 1].says[1] = v
      BY <1>7, <1>8
    <3> QED  BY <3>1, <3>2, <3>3
  <2>3. ASSUME NEW j \in 1 .. Len(p) PROVE p[j] \in D /\ p[j] \in M
    <3>1. PICK l \in 1 .. Len(r) : Open(r, a, l) /\ r[l].says[1] = p[j]
      BY <2>2
    <3>2. Len(s) \in Nat /\ l + 1 \in 1 .. Len(s) /\ r[l] = s[l + 1]
      BY <3>1 DEF r
    <3>3. p[j] \in D
      BY <1>6, <3>1, <3>2 DEF Open
    <3>4. s[l + 1] \in Ctx /\ s[l + 1].kind \in Texts /\ s[l + 1].says \notin C!Says(a)
          /\ s[l + 1].says[1] = p[j]
      <4>1. s[l + 1] \in Ctx
        <5> HIDE DEF Ctx
        <5> QED  BY <3>2
      <4> QED  BY <3>1, <3>2, <4>1 DEF Open, Want, Texts
    <3>5. p[j] \notin C!Said(o, still)
      BY <1>1, <1>2, <3>4, NotStill
    <3> QED  BY <1>4, <3>3, <3>5
  <2>4. IsFiniteSet(M)
    BY <1>4, <1>5, FS_Subset
  <2>5. Len(p) <= Cardinality(D) /\ (Len(p) = Cardinality(D) => Covers(p, Len(p), D))
    <3>1. Within(p, Len(p), D) /\ Different(p, Len(p))
      BY <2>2, <2>3 DEF Within, Different
    <3> QED  BY <1>2, <1>5, <3>1, AllTaken
  <2>6. Len(p) <= Cardinality(M)
    <3>1. Within(p, Len(p), M) /\ Different(p, Len(p))
      BY <2>2, <2>3 DEF Within, Different
    <3> QED  BY <1>2, <2>4, <3>1, AllTaken
  <2>7. Cardinality(D) \in Nat /\ Cardinality(M) \in Nat
    BY <1>5, <2>4, FS_CardinalityType
  <2>8. PICK j \in 1 .. Len(p) : p[j] = v
    <3>1. CASE Len(p) = MaxPins
      <4>1. Len(p) = Cardinality(D)
        BY <1>2, <2>5, <2>7, <3>1
      <4> QED  BY <2>5, <4>1 DEF Covers
    <3> QED  BY <2>2, <3>1
  <2>9. Heads(p) = 3
    BY <1>2, <2>8 DEF Heads
  <2>10. Composed(s, o, 3, d, a, p, x) /\ AnchorOf(o[2], p) /\ o[2].kind = "anchor" /\ 2 \in DOMAIN o
    BY <1>1, <1>2, <1>3, <2>9
  <2>11. o[2].size \in Nat /\ ~(o[2].size < Cardinality(M))
    <3>1. o[2].size \in Nat
      BY <2>10 DEF AnchorOf
    <3>2. ~(o[2].size < C!Cardinality(C!Missing(s, o)))
      BY <2>10 DEF C!AnchorCut
    <3>3. C!Cardinality(C!Missing(s, o)) = Cardinality(M)
      BY <1>5 DEF M
    <3> QED  BY <3>1, <3>2, <3>3
  <2>12. j \in 1 .. o[2].size
    <3>1. Len(p) \in Nat /\ Cardinality(M) \in Nat /\ o[2].size \in Nat
      BY <1>2, <2>7, <2>11
    <3>2. Len(p) <= o[2].size
      BY <2>6, <2>11, <3>1
    <3> QED  BY <3>1, <3>2
  <2>13. v \in E
    BY <2>8, <2>10, <2>12, AnchorTells DEF E
  <2> QED  BY <2>13
<1> QED  BY <1>8, <1>9

(* A compaction leaves what the user asked for.                            *)
LEMMA CompactedKeeps ==
  ASSUME C!ContextAssumption, NEW m \in Seq(Ctx), Headed(m), NEW o, Compacting(m, o)
  PROVE  FirstKept(m, o) /\ AllKept(m, o)
<1> DEFINE W == C!Wants(m)
           D == C!Said(m, W)
<1>1. W = {i \in 1 .. Len(m) : Want(m[i])}
  BY WantsAre
<1>2. ASSUME NEW s, Snipped(m, s)
      PROVE  /\ s \in Seq(Ctx) /\ Headed(s) /\ C!Wants(s) = W /\ Len(s) = Len(m)
             /\ \A i \in 1 .. Len(m) : s[i].says = m[i].says
             /\ \A S \in SUBSET (1 .. Len(m)) : C!Said(s, S) = C!Said(m, S)
  <2>1. Headed(s)
    BY <1>2, HeadedSame DEF Snipped
  <2> HIDE DEF W
  <2> QED  BY <1>2, <2>1, SnippedSaid DEF W
<1>3. W # {} => C!First(W) \in W
  <2>1. W \subseteq 1 .. Len(m)
    BY <1>1
  <2> HIDE DEF W
  <2> QED  BY <2>1, FirstIs, SameConversation
<1>4. CASE Snipped(m, o)
  <2>1. DOMAIN o = 1 .. Len(m) /\ DOMAIN m = 1 .. Len(m)
    BY <1>2, <1>4
  <2>2. C!Said(o, DOMAIN o) = C!Said(m, 1 .. Len(m))
    BY <1>2, <1>4, <2>1
  <2>3. D \subseteq C!Said(m, 1 .. Len(m))
    BY <1>1 DEF C!Said
  <2>4. ASSUME W # {} PROVE m[C!First(W)].says[1] \in D
    BY <1>1, <1>3, <2>4, WantsAre
  <2> QED  BY <2>2, <2>3, <2>4 DEF FirstKept, AllKept
<1>5. CASE \E s : Snipped(m, s) /\ Dropping(s, o)
  <2>1. PICK s : Snipped(m, s) /\ Dropping(s, o)
    BY <1>5
  <2>0. PICK k \in 2 .. Len(s) - 2 : \E a, p, x : Remade(s, k, a, p, x, o)
    BY <2>1 DEF Dropping
  <2>2. PICK a, p, x : Remade(s, k, a, p, x, o)
    BY <2>0
  <2>3. FirstKept(s, o) /\ AllKept(s, o)
    <3>1. s \in Seq(Ctx) /\ Headed(s) /\ Len(s) >= 6 /\ MaxPins \in Nat
      BY <1>2, <2>1 DEF Dropping, C!ContextAssumption
    <3> QED  BY <2>2, <3>1, FirstWanted, AllWanted
  <2>4. C!Wants(s) = W /\ C!Said(s, W) = D
    BY <1>1, <1>2, <2>1
  <2>5. FirstKept(m, o)
    <3>1. W # {} => s[C!First(W)].says = m[C!First(W)].says
      BY <1>1, <1>2, <1>3, <2>1
    <3> QED  BY <2>3, <2>4, <3>1 DEF FirstKept
  <2>6. AllKept(m, o)
    <3>1. C!Missing(s, o) = C!Missing(m, o)
      BY <2>4 DEF C!Missing
    <3>2. C!AnchorCut(s, o) <=> C!AnchorCut(m, o)
      BY <3>1 DEF C!AnchorCut
    <3> HIDE DEF W, D
    <3> QED  BY <2>3, <2>4, <3>2 DEF AllKept, W, D
  <2> QED  BY <2>5, <2>6
<1> QED  BY <1>4, <1>5 DEF Compacting

(***************************************************************************)
(* Sessions                                                                *)
(***************************************************************************)

(* What a step adds to a history.                                          *)
Added(t) ==
  /\ t \in Seq(Ctx) /\ Accepted(t)
  /\ \A i \in 1 .. Len(t) : t[i].kind \notin {"system", "anchor"}

(* A history: headed, and one a provider takes.                            *)
Session(m) == m \in Seq(Ctx) /\ Headed(m) /\ Accepted(m)

LEMMA AddedTo ==
  ASSUME NEW m, Session(m), NEW t, Added(t)
  PROVE  Session(m \o t)
<1>1. m \o t \in Seq(Ctx) /\ Accepted(m \o t)
  BY CtxCall, AcceptedConcat DEF Session, Added
<1>2. Headed(m \o t)
  <2> DEFINE n == Len(m)
             o == m \o t
  <2> HIDE DEF Ctx
  <2>1. n \in Nat /\ Len(t) \in Nat /\ Len(o) = n + Len(t)
    BY DEF Session, Added
  <2>2. (\A i \in 1 .. n : o[i] = m[i]) /\ \A i \in n + 1 .. n + Len(t) : i - n \in 1 .. Len(t) /\ o[i] = t[i - n]
    BY DEF Session, Added
  <2>3. /\ n >= 1 /\ m[1].kind = "system"
        /\ \A i \in 2 .. n : m[i].kind # "system"
        /\ \A i \in 3 .. n : m[i].kind # "anchor"
    BY DEF Session, Headed
  <2>4. \A i \in 1 .. Len(t) : t[i].kind # "system" /\ t[i].kind # "anchor"
    BY DEF Added
  <2> HIDE DEF n, o
  <2>5. o[1].kind = "system" /\ Len(o) >= 1
    BY <2>1, <2>2, <2>3
  <2>6. ASSUME NEW i \in 2 .. Len(o) PROVE o[i].kind # "system" /\ (i >= 3 => o[i].kind # "anchor")
    <3>1. CASE i <= n
      BY <3>1, <2>1, <2>2, <2>3
    <3>2. CASE i > n
      <4>1. i \in n + 1 .. n + Len(t)
        BY <3>2, <2>1
      <4> QED  BY <4>1, <2>2, <2>4
    <3> QED  BY <3>1, <3>2, <2>1
  <2>7. Headed(o)
    BY <2>5, <2>6 DEF Headed
  <2> QED  BY <2>7 DEF o
<1> QED  BY <1>1, <1>2 DEF Session

LEMMA AddedTwice ==
  ASSUME NEW t, Added(t), NEW u, Added(u)
  PROVE  Added(t \o u)
<1>1. t \o u \in Seq(Ctx) /\ Accepted(t \o u)
  BY CtxCall, AcceptedConcat DEF Added
<1>2. ASSUME NEW i \in 1 .. Len(t \o u) PROVE (t \o u)[i].kind \notin {"system", "anchor"}
  <2>1. t \in Seq(Ctx) /\ u \in Seq(Ctx)
    BY DEF Added
  <2> HIDE DEF Ctx
  <2>2. CASE i <= Len(t)
    <3>1. (t \o u)[i] = t[i] /\ i \in 1 .. Len(t)
      BY <2>1, <2>2
    <3> QED  BY <3>1 DEF Added
  <2>3. CASE i > Len(t)
    <3>1. (t \o u)[i] = u[i - Len(t)] /\ i - Len(t) \in 1 .. Len(u)
      BY <2>1, <2>3
    <3> QED  BY <3>1 DEF Added
  <2> QED  BY <2>1, <2>2, <2>3
<1> QED  BY <1>1, <1>2 DEF Added

LEMMA NoneAdded == Added(<<>>)
BY DEF Added, Accepted

LEMMA TextAdded ==
  ASSUME NEW kind \in Texts, NEW w \in Words, NEW size \in Nat
  PROVE  /\ C!Text(kind, <<w>>, size) \in Ctx
         /\ Added(<<C!Text(kind, <<w>>, size)>>)
<1> DEFINE x == C!Text(kind, <<w>>, size)
<1>1. <<w>> \in Seq(Words) /\ Len(<<w>>) = 1
  OBVIOUS
<1>2. x \in Ctx /\ x.kind = kind /\ x.role = "user"
  BY <1>1, TextFormed DEF C!Text
<1> HIDE DEF x
<1>3. <<x>> \in Seq(Ctx) /\ Len(<<x>>) = 1 /\ <<x>>[1] = x
  BY <1>2
<1>4. Accepted(<<x>>)
  <2>1. \A i \in 1 .. Len(<<x>>) : <<x>>[i].role \notin {"assistant", "tool"}
    BY <1>2, <1>3
  <2> HIDE DEF Ctx
  <2> QED  BY <1>3, <2>1, TextsAccepted
<1>5. Added(<<x>>)
  BY <1>2, <1>3, <1>4 DEF Added, Texts
<1> QED  BY <1>2, <1>5 DEF x

LEMMA PartFormed ==
  ASSUME NEW role \in {"system", "assistant", "tool"}, NEW ids \in CallIds, NEW size \in Nat
  PROVE  C!Part(role, ids, size) \in Ctx
<1> DEFINE x == C!Part(role, ids, size)
<1>1. x = [role |-> role, ids |-> ids, kind |-> role, says |-> <<>>, size |-> size]
  BY DEF C!Part
<1>2. <<>> \in Seq(Words) /\ role \in Roles /\ role \in Kinds
  BY DEF Roles, Kinds
<1> HIDE DEF x
<1>3. x \in Fields
  BY <1>1, <1>2 DEF Fields
<1>4. RoleOf(role) = role /\ role \notin Texts
  BY DEF RoleOf, Texts
<1> QED  BY <1>1, <1>3, <1>4 DEF Ctx, Formed, x

(* An answer with its results is accepted by itself.                       *)
LEMMA TurnAdded ==
  ASSUME NEW n \in Int, NEW b \in Seq(Nat)
  PROVE  Added(C!Turn(n, b))
<1> DEFINE ids == [i \in DOMAIN b |-> <<n, i>>]
           x == C!Part("assistant", ids, 1)
           t == [i \in DOMAIN b |-> C!Part("tool", <<ids[i]>>, b[i])]
<1>1. C!Turn(n, b) = <<x>> \o t
  BY DEF C!Turn
<1>2. Len(b) \in Nat /\ DOMAIN b = 1 .. Len(b)
  OBVIOUS
<1>3. ids \in CallIds /\ Len(ids) = Len(b) /\ \A i \in 1 .. Len(b) : ids[i] = <<n, i>>
  BY <1>2 DEF CallIds
<1> HIDE DEF ids
<1>4. x \in Ctx /\ x.role = "assistant" /\ x.ids = ids /\ x.kind = "assistant"
  BY <1>3, PartFormed DEF C!Part
<1> HIDE DEF x
<1>5. ASSUME NEW i \in 1 .. Len(b)
      PROVE  t[i] \in Ctx /\ t[i].role = "tool" /\ t[i].ids[1] = ids[i] /\ t[i].kind = "tool"
  <2>1. <<ids[i]>> \in CallIds /\ b[i] \in Nat
    BY <1>3 DEF CallIds
  <2>2. t[i] = C!Part("tool", <<ids[i]>>, b[i])
    BY <1>2
  <2> HIDE DEF t
  <2> QED  BY <2>1, <2>2, PartFormed DEF C!Part
<1>6. t = [i \in 1 .. Len(b) |-> t[i]]
  BY <1>2
<1> HIDE DEF t
<1>7. t \in Seq(Ctx) /\ Len(t) = Len(b)
  <2>1. t \in [1 .. Len(b) -> Ctx]
    BY <1>5, <1>6
  <2> HIDE DEF Ctx
  <2> QED  BY <2>1, <1>2
<1>8. <<x>> \o t \in Seq(Ctx) /\ Accepted(<<x>> \o t)
  <2>1. \A k \in 1 .. Len(t) : t[k].role = "tool"
    BY <1>5, <1>7
  <2>2. \A k \in 1 .. Len(t) : \E l \in 1 .. Len(t) : t[k].ids[1] = x.ids[l]
    BY <1>4, <1>5, <1>7
  <2>3. \A l \in 1 .. Len(t) : \E k \in 1 .. Len(t) : t[k].ids[1] = x.ids[l]
    BY <1>4, <1>5, <1>7
  <2>4. Len(t) = Len(x.ids)
    BY <1>3, <1>4, <1>7
  <2> QED  BY <1>4, <1>7, <2>1, <2>2, <2>3, <2>4, CtxCall, BlockAccepted
<1>9. ASSUME NEW i \in 1 .. Len(<<x>> \o t) PROVE (<<x>> \o t)[i].kind \notin {"system", "anchor"}
  <2>1. i = 1 \/ (i - 1 \in 1 .. Len(t) /\ (<<x>> \o t)[i] = t[i - 1])
    <3> HIDE DEF Ctx
    <3> QED  BY <1>4, <1>7
  <2>2. (<<x>> \o t)[1] = x
    <3> HIDE DEF Ctx
    <3> QED  BY <1>4, <1>7
  <2> QED  BY <2>1, <2>2, <1>4, <1>5, <1>7
<1> QED  BY <1>1, <1>8, <1>9 DEF Added

(* A session that starts, or is resumed.                                   *)
LEMMA NewSession == C!System \in Ctx /\ Session(<<C!System>>)
<1> DEFINE x == C!System
<1>1. <<>> \in CallIds
  BY DEF CallIds
<1>2. x \in Ctx /\ x.kind = "system" /\ x.role = "system"
  BY <1>1, PartFormed DEF C!System, C!Part, C!SystemSize
<1> HIDE DEF x
<1>3. <<x>> \in Seq(Ctx) /\ Len(<<x>>) = 1 /\ <<x>>[1] = x
  BY <1>2
<1>4. Accepted(<<x>>)
  <2>1. \A i \in 1 .. Len(<<x>>) : <<x>>[i].role \notin {"assistant", "tool"}
    BY <1>2, <1>3
  <2> HIDE DEF Ctx
  <2> QED  BY <1>3, <2>1, TextsAccepted
<1> QED  BY <1>2, <1>3, <1>4 DEF Session, Headed, x

(* A session that has done some work before is one as well.                *)
LEMMA ResumedIs ==
  ASSUME NEW q \in Sessions, q.turns \in Seq(Seq(Nat))
  PROVE  Session(C!Resumed(q))
<1> DEFINE n == Len(q.turns)
           V == {m \in Seq(Ctx) : Session(m)}
           b == <<C!System, C!Ask(q.task)>>
           E(i, v) == v \o C!Turn(i - n, q.turns[i])
           G == [i \in 1 .. n |-> [v \in V |-> E(i, v)]]
           Is(f) == f = [i \in 0 .. n |-> IF i = 0 THEN b ELSE E(i, f[i - 1])]
           u == CHOOSE f : Is(f)
<1>1. C!Resumed(q) = u[n]
  BY DEF C!Resumed
<1>2. n \in Nat
  OBVIOUS
<1>3. b \in V
  <2>1. q.task \in Words
    BY DEF Words
  <2> DEFINE x == C!Ask(q.task)
             y == C!System
  <2>2. x \in Ctx /\ Added(<<x>>)
    BY <2>1, TextAdded DEF C!Ask, Texts
  <2>3. y \in Ctx /\ Session(<<y>>)
    BY NewSession
  <2> HIDE DEF x, y
  <2>4. Session(<<y>> \o <<x>>)
    BY <2>2, <2>3, AddedTo
  <2>5. <<y>> \o <<x>> = <<y, x>>
    <3>1. x \in Ctx /\ y \in Ctx
      BY <2>2, <2>3
    <3> HIDE DEF Ctx
    <3>2. <<x>> \in Seq(Ctx) /\ <<y>> \in Seq(Ctx) /\ <<y, x>> \in Seq(Ctx)
      BY <3>1
    <3> DEFINE z == <<y>> \o <<x>>
               v == <<y, x>>
    <3>3. z \in Seq(Ctx) /\ Len(z) = 2 /\ z[1] = y /\ z[2] = x
      BY <3>1, <3>2
    <3>4. v \in Seq(Ctx) /\ Len(v) = 2 /\ v[1] = y /\ v[2] = x
      BY <3>2
    <3> HIDE DEF z, v
    <3>5. \A i \in 1 .. Len(z) : z[i] = v[i]
      BY <3>3, <3>4
    <3>6. z = v
      BY <3>3, <3>4, <3>5
    <3> QED  BY <3>6 DEF z, v
  <2> QED  BY <2>4, <2>5 DEF x, y, Session
<1>4. ASSUME NEW i \in 1 .. n, NEW v \in V PROVE E(i, v) \in V
  <2>1. q.turns[i] \in Seq(Nat) /\ i - n \in Int
    BY <1>2
  <2>2. Added(C!Turn(i - n, q.turns[i]))
    BY <2>1, TurnAdded
  <2>3. Session(E(i, v))
    BY <2>2, AddedTo
  <2> QED  BY <2>3 DEF Session
<1> HIDE DEF V, E, n, b
<1>5. /\ G \in [1 .. n -> [V -> V]]
      /\ \A i \in 1 .. n, v \in V : G[i][v] = E(i, v)
  BY <1>4
<1> HIDE DEF G
<1>6. PICK f \in [0 .. n -> V] : Steps(f, G, b, n)
  BY <1>2, <1>3, <1>5, Recursion
<1>7. ASSUME NEW i \in 1 .. n PROVE f[i] = E(i, f[i - 1])
  <2>1. f[i - 1] \in V
    BY <1>2, <1>6
  <2>2. f[i] = G[i][f[i - 1]]
    BY <1>6 DEF Steps
  <2> QED  BY <2>1, <2>2, <1>5
<1>8. Is(u)
  <2>1. Is(f)
    BY <1>2, <1>6, <1>7 DEF Steps
  <2> QED  BY <2>1
<1> HIDE DEF u
<1>9. u[0] = b /\ \A i \in 1 .. n : u[i] = E(i, u[i - 1])
  BY <1>2, <1>8
<1> DEFINE T == {k \in 0 .. n : u[k] \in V}
<1>10. Climbs(T, n)
  BY <1>2, <1>3, <1>4, <1>9 DEF Climbs
<1>11. n \in T
  BY <1>2, <1>10, Climbing
<1> QED  BY <1>1, <1>11 DEF V

(* What begins a request is a prefix of it.                                *)
Begins(s, t) == Len(s) <= Len(t) /\ \A i \in 1 .. Len(s) : s[i] = t[i]

LEMMA PrefixIs ==
  ASSUME NEW s \in Seq(Ctx), NEW t \in Seq(Ctx)
  PROVE  C!IsPrefix(s, t) <=> Begins(s, t)
<1> HIDE DEF Ctx
<1>1. SubSeq(s, 1, Len(s)) = s
  OBVIOUS
<1>2. ASSUME Len(s) <= Len(t)
      PROVE  SubSeq(t, 1, Len(s)) \in Seq(Ctx) /\ Len(SubSeq(t, 1, Len(s))) = Len(s)
             /\ \A i \in 1 .. Len(s) : SubSeq(t, 1, Len(s))[i] = t[i]
  BY <1>2
<1> DEFINE u == SubSeq(t, 1, Len(s))
<1>3. C!IsPrefix(s, t) <=> Len(s) <= Len(t) /\ s = u
  BY <1>1 DEF C!IsPrefix
<1>4. ASSUME Len(s) <= Len(t) PROVE u \in Seq(Ctx) /\ Len(u) = Len(s) /\ \A i \in 1 .. Len(s) : u[i] = t[i]
  BY <1>2, <1>4
<1> HIDE DEF u
<1>5. ASSUME Begins(s, t) PROVE s = u
  <2>1. u \in Seq(Ctx) /\ Len(u) = Len(s) /\ \A i \in 1 .. Len(s) : u[i] = s[i]
    BY <1>4, <1>5 DEF Begins
  <2> QED  BY <2>1
<1>6. ASSUME Len(s) <= Len(t), s = u PROVE Begins(s, t)
  <2>1. \A i \in 1 .. Len(s) : u[i] = t[i]
    BY <1>4, <1>6
  <2> QED  BY <1>6, <2>1 DEF Begins
<1> QED  BY <1>3, <1>5, <1>6 DEF Begins

(* What has been sent stays the beginning when something is added.         *)
LEMMA BeginsStill ==
  ASSUME ToolLimit \in Nat, NEW m \in Seq(Ctx), NEW t \in Seq(Ctx), NEW s \in Seq(Ctx),
         C!IsPrefix(s, C!Cap(m))
  PROVE  C!IsPrefix(s, C!Cap(m \o t))
<1> DEFINE o == m \o t
           a == C!Cap(m)
           b == C!Cap(o)
<1> HIDE DEF Ctx
<1>1. o \in Seq(Ctx) /\ Len(m) \in Nat /\ Len(t) \in Nat /\ Len(o) = Len(m) + Len(t)
      /\ \A i \in 1 .. Len(m) : o[i] = m[i]
  OBVIOUS
<1> HIDE DEF o
<1>2. a \in Seq(Ctx) /\ b \in Seq(Ctx) /\ Len(a) = Len(m) /\ Len(b) = Len(o)
      /\ (\A i \in 1 .. Len(m) : a[i] = Limited(m[i])) /\ \A i \in 1 .. Len(o) : b[i] = Limited(o[i])
  BY <1>1, CapIs DEF Resized
<1> HIDE DEF a, b
<1>3. Begins(s, a)
  BY <1>2, PrefixIs DEF a
<1>4. Begins(s, b)
  <2>1. Len(s) \in Nat /\ Len(s) <= Len(m)
    BY <1>2, <1>3 DEF Begins
  <2>2. ASSUME NEW i \in 1 .. Len(s) PROVE s[i] = b[i]
    <3>1. i \in 1 .. Len(m) /\ i \in 1 .. Len(o)
      BY <1>1, <2>1
    <3> QED  BY <1>1, <1>2, <1>3, <3>1 DEF Begins
  <2> QED  BY <1>1, <1>2, <2>1, <2>2 DEF Begins
<1>5. C!IsPrefix(s, b)
  BY <1>2, <1>4, PrefixIs
<1> QED  BY <1>5 DEF b, o

LEMMA NoneBegins ==
  ASSUME NEW t \in Seq(Ctx)
  PROVE  <<>> \in Seq(Ctx) /\ C!IsPrefix(<<>>, t)
<1>1. <<>> \in Seq(Ctx) /\ Begins(<<>>, t)
  <2> HIDE DEF Ctx
  <2> QED  BY DEF Begins
<1> QED  BY <1>1, PrefixIs

-----------------------------------------------------------------------------
(* The context: a session and, unless it was compacted since, the request  *)
(* that it began with.                                                     *)
CtxInv ==
  /\ Session(history)
  /\ sent \in Seq(Ctx) /\ Accepted(sent)
  /\ C!IsPrefix(sent, C!Cap(history))
  /\ answers \in Nat

(* What is so when a session starts.                                       *)
LEMMA CtxInit ==
  ASSUME C!ContextAssumption, C!Init
  PROVE  CtxInv
<1>1. Session(history)
  <2>1. history = <<C!System>> \/ \E q \in Sessions : history = C!Resumed(q)
    BY DEF C!Init
  <2>2. \A q \in Sessions : q.turns \in Seq(Seq(Nat))
    BY DEF C!ContextAssumption
  <2> QED  BY <2>1, <2>2, NewSession, ResumedIs
<1>2. sent = <<>> /\ answers = 0
  BY DEF C!Init
<1>3. C!Cap(history) \in Seq(Ctx)
  BY <1>1, CapIs DEF Session, C!ContextAssumption
<1>4. sent \in Seq(Ctx) /\ C!IsPrefix(sent, C!Cap(history))
  BY <1>2, <1>3, NoneBegins
<1>5. Accepted(sent)
  BY <1>2 DEF Accepted
<1> QED  BY <1>1, <1>2, <1>4, <1>5 DEF CtxInv

LEMMA ResumeIs == ASSUME NEW n \in Nat PROVE C!Resume(n) \in Int
BY DEF C!Resume, C!Least, C!Most

(* A compaction with its hooks is one of Compact's.                        *)
LEMMA HookedIs ==
  ASSUME C!ContextAssumption, NEW m, Session(m), NEW target \in Int, NEW o \in C!Hooked(m, target)
  PROVE  Compacting(m, o.messages) /\ o.last.layer # "none"
<1> DEFINE R(summary) == C!Compact(m, target, summary)
           End(how, r, host, own) ==
             [how |-> how, messages |-> r.messages, last |-> C!Done(r.layer, host, own)]
<1>1. ASSUME NEW summary PROVE Compacting(m, R(summary).messages) /\ R(summary).layer # "none"
  <2>1. Compacting(m, R(summary).messages)
    BY CompactIs DEF Session
  <2>2. R(summary).layer # "none"
    BY DEF C!Compact
  <2> QED  BY <2>1, <2>2
<1> DEFINE a == R(FALSE)
           b == R(TRUE)
           P(y) == \E r \in {a, b} : y.messages = r.messages /\ y.last.layer = r.layer
<1>2. \/ o = End("done", a, FALSE, FALSE)
      \/ \E how \in {"failed", "skipped"} : o = End(how, a, FALSE, FALSE)
      \/ \E host, own \in BOOLEAN : o = End("done", R(host \/ own), host, own)
  <2> DEFINE S == {End("done", a, FALSE, FALSE)}
             T == {End(how, a, FALSE, FALSE) : how \in {"failed", "skipped"}}
             U == {End("done", R(host \/ own), host, own) : host, own \in BOOLEAN}
  <2>1. C!Hooked(m, target) = IF ~C!Saved(m, a) THEN S ELSE T \cup U
    BY DEF C!Hooked
  <2> HIDE DEF S, T, U
  <2>2. o \in S \/ o \in T \/ o \in U
    BY <2>1
  <2>3. ASSUME o \in S PROVE o = End("done", a, FALSE, FALSE)
    BY <2>3 DEF S
  <2>4. ASSUME o \in T PROVE \E how \in {"failed", "skipped"} : o = End(how, a, FALSE, FALSE)
    BY <2>4 DEF T
  <2>5. ASSUME o \in U PROVE \E host, own \in BOOLEAN : o = End("done", R(host \/ own), host, own)
    <3> HIDE DEF End, R
    <3> QED  BY <2>5 DEF U
  <2> HIDE DEF R, End
  <2> QED  BY <2>2, <2>3, <2>4, <2>5
<1>3. ASSUME NEW host \in BOOLEAN, NEW own \in BOOLEAN PROVE R(host \/ own) = a \/ R(host \/ own) = b
  <2>1. CASE host \/ own
    BY <2>1
  <2>2. CASE ~(host \/ own)
    BY <2>2
  <2> QED  BY <2>1, <2>2
<1> HIDE DEF R, a, b
<1>4. P(o)
  <2>1. CASE o = End("done", a, FALSE, FALSE)
    BY <2>1 DEF C!Done
  <2>2. CASE \E how \in {"failed", "skipped"} : o = End(how, a, FALSE, FALSE)
    BY <2>2 DEF C!Done
  <2>3. CASE \E host, own \in BOOLEAN : o = End("done", R(host \/ own), host, own)
    <3>1. PICK host \in BOOLEAN, own \in BOOLEAN : o = End("done", R(host \/ own), host, own)
      BY <2>3
    <3> DEFINE r == R(host \/ own)
    <3>2. r \in {a, b}
      BY <1>3
    <3>3. o = End("done", r, host, own)
      BY <3>1
    <3> HIDE DEF r
    <3>4. o.messages = r.messages /\ o.last.layer = r.layer
      BY <3>3 DEF C!Done
    <3> QED  BY <3>2, <3>4
  <2> QED  BY <1>2, <2>1, <2>2, <2>3
<1>5. Compacting(m, a.messages) /\ a.layer # "none" /\ Compacting(m, b.messages) /\ b.layer # "none"
  BY <1>1 DEF a, b
<1> QED  BY <1>4, <1>5

(* What a step is to the history: nothing, more messages, or a compaction. *)
Grown    == \E t : Added(t) /\ history' = history \o t
(* What is sent, and what a compaction rewrites.                           *)
SentOn   == sent' = sent \/ sent' = C!Cap(history)
Rewrites == Compacting(history, history') /\ (sent' = <<>> \/ sent' = history')
Moved ==
  /\ Rewrites \/ (Grown /\ sent' = sent) \/ (history' = history /\ SentOn)
  /\ C!Compacts => Rewrites
  /\ at' = "call" /\ ~C!Compacts => sent' = C!Cap(history) /\ history' = history
  /\ answers' \in Nat

(* The steps one by one.                                                   *)
LEMMA PromptStep ==
  ASSUME CtxInv, NEW m, Added(<<m>>), C!Prompt(m)
  PROVE  Moved
<1>1. history' = Append(history, m) /\ sent' = sent /\ at' = "turn" /\ last' = C!None /\ answers' = answers
  BY DEF C!Prompt
<1>2. Append(history, m) = history \o <<m>>
  BY DEF CtxInv, Session
<1>3. Grown
  BY <1>1, <1>2 DEF Grown
<1>4. ~C!Compacts
  BY <1>1 DEF C!Compacts, C!None, C!Done
<1> QED  BY <1>1, <1>3, <1>4 DEF Moved, CtxInv

LEMMA SendStep ==
  ASSUME C!ContextAssumption, CtxInv, C!Send
  PROVE  Moved
<1>1. answers' = answers
  BY DEF C!Send
<1>2. CASE sent' = C!Cap(history) /\ last' = C!None /\ history' = history
  <2>1. ~C!Compacts
    BY <1>2 DEF C!Compacts, C!None, C!Done
  <2> QED  BY <1>1, <1>2, <2>1 DEF Moved, SentOn, CtxInv
<1>3. CASE at' = "idle" /\ last' = C!None /\ UNCHANGED <<history, sent>>
  <2>1. ~C!Compacts
    BY <1>3 DEF C!Compacts, C!None, C!Done
  <2> QED  BY <1>1, <1>3, <2>1 DEF Moved, SentOn, CtxInv
<1>4. CASE \E o \in C!Hooked(history, C!Resume(Budget)) :
              history' = o.messages /\ sent' = o.messages /\ last' = o.last
  <2>1. PICK o \in C!Hooked(history, C!Resume(Budget)) :
              history' = o.messages /\ sent' = o.messages /\ last' = o.last
    BY <1>4
  <2>2. C!Resume(Budget) \in Int
    BY ResumeIs DEF C!ContextAssumption
  <2>3. Rewrites /\ C!Compacts
    BY <2>1, <2>2, HookedIs DEF Rewrites, C!Compacts, CtxInv
  <2> QED  BY <1>1, <2>3 DEF Moved, CtxInv
<1> QED  BY <1>2, <1>3, <1>4 DEF C!Send

LEMMA AnswerStep ==
  ASSUME CtxInv, NEW b \in Seq(Nat), NEW notes, Added(notes), C!Answer(b, notes)
  PROVE  Moved
<1>1. /\ history' = history \o C!Turn(answers + 1, b) \o notes
      /\ sent' = sent /\ last' = C!None /\ answers' = answers + 1
      /\ at' # "call"
  BY DEF C!Answer
<1> DEFINE t == C!Turn(answers + 1, b)
<1>2. answers \in Nat /\ answers + 1 \in Int /\ answers + 1 \in Nat /\ history \in Seq(Ctx)
  BY DEF CtxInv, Session
<1>3. Added(t)
  BY <1>2, TurnAdded
<1>4. history' = (history \o t) \o notes
  BY <1>1
<1> HIDE DEF t
<1>5. t \in Seq(Ctx) /\ notes \in Seq(Ctx)
  BY <1>3 DEF Added
<1>6. history' = history \o (t \o notes)
  <2>1. Joined(history, t, notes)
    BY <1>2, <1>5, ThreeParts
  <2>2. (history \o t) \o notes = history \o (t \o notes)
    BY Zenon, <2>1 DEF Joined
  <2> QED  BY Zenon, <1>4, <2>2
<1>7. Grown
  BY <1>3, <1>6, AddedTwice DEF Grown
<1>8. ~C!Compacts
  BY <1>1 DEF C!Compacts, C!None, C!Done
<1> QED  BY <1>1, <1>2, <1>7, <1>8 DEF Moved

LEMMA ReplyStep ==
  ASSUME C!ContextAssumption, CtxInv, C!Reply
  PROVE  Moved
<1>1. CASE C!Answer(<<>>, <<>>)
  <2>1. <<>> \in Seq(Nat)
    OBVIOUS
  <2> QED  BY <1>1, <2>1, NoneAdded, AnswerStep
<1>2. CASE \E r \in Replies : C!Answer(r.sizes, IF r.nudged THEN <<C!Nudge>> ELSE <<>>)
  <2>1. PICK r \in Replies : C!Answer(r.sizes, IF r.nudged THEN <<C!Nudge>> ELSE <<>>)
    BY <1>2
  <2>2. r.sizes \in Seq(Nat)
    BY DEF C!ContextAssumption
  <2>3. Added(<<C!Nudge>>)
    BY TextAdded DEF C!Nudge, Texts, Words
  <2> QED  BY <2>1, <2>2, <2>3, NoneAdded, AnswerStep
<1> QED  BY <1>1, <1>2 DEF C!Reply

LEMMA OverflowStep ==
  ASSUME C!ContextAssumption, CtxInv, C!Overflow
  PROVE  Moved
<1> DEFINE g == C!Resume(C!Most(C!EstChars(sent) \div 2, 1))
<1>0. g \in Int
  <2>1. C!EstChars(sent) \in Nat
    BY SizesCount DEF CtxInv
  <2>2. C!EstChars(sent) \div 2 \in Nat
    BY <2>1
  <2>3. C!Most(C!EstChars(sent) \div 2, 1) \in Nat
    BY <2>2 DEF C!Most
  <2> QED  BY <2>3, ResumeIs
<1>1. answers' = answers
  BY DEF C!Overflow
<1>2. PICK o \in C!Hooked(history, g) :
        \/ history' = o.messages /\ sent' = <<>> /\ last' = o.last
        \/ at' = "idle" /\ last' = C!None /\ UNCHANGED <<history, sent>>
  BY DEF C!Overflow
<1> HIDE DEF g
<1>3. CASE history' = o.messages /\ sent' = <<>> /\ last' = o.last
  <2>1. Rewrites /\ C!Compacts
    BY <1>0, <1>2, <1>3, HookedIs DEF Rewrites, C!Compacts, CtxInv
  <2> QED  BY <1>1, <2>1 DEF Moved, CtxInv
<1>4. CASE at' = "idle" /\ last' = C!None /\ UNCHANGED <<history, sent>>
  <2>1. ~C!Compacts
    BY <1>4 DEF C!Compacts, C!None, C!Done
  <2> QED  BY <1>1, <1>4, <2>1 DEF Moved, SentOn, CtxInv
<1> QED  BY <1>2, <1>3, <1>4

LEMMA HostStep ==
  ASSUME C!ContextAssumption, CtxInv, NEW target \in HostTargets \cup {0}, C!HostCompact(target)
  PROVE  Moved
<1> DEFINE g == IF target = 0 THEN C!Least(C!Resume(Budget), C!Most(C!Kept(history), 1))
                ELSE C!Resume(target)
           r == C!Compact(history, g, FALSE)
<1>1. history' = r.messages /\ sent' = <<>> /\ answers' = answers /\ last' = C!Done(r.layer, FALSE, FALSE)
  BY DEF C!HostCompact
<1>2. g \in Int
  <2>1. Budget \in Nat /\ target \in Nat
    <3>1. Budget \in Nat /\ HostTargets \subseteq Nat
      BY DEF C!ContextAssumption
    <3> QED  BY <3>1
  <2>2. C!EstChars(history) \in Nat
    BY SizesCount DEF CtxInv, Session
  <2>3. history[1].size \in Nat
    <3>1. history[1] \in Ctx
      BY DEF CtxInv, Session, Headed
    <3> QED  BY <3>1 DEF Ctx, Fields
  <2>4. C!Kept(history) \in Int
    BY <2>2, <2>3 DEF C!Kept, C!MinBody
  <2>5. C!Resume(Budget) \in Int /\ C!Resume(target) \in Int
    BY <2>1, ResumeIs
  <2> QED  BY <2>4, <2>5 DEF C!Least, C!Most
<1>3. r.layer # "none"
  BY DEF C!Compact
<1> HIDE DEF g
<1>4. Compacting(history, r.messages)
  BY <1>2, CompactIs DEF CtxInv, Session
<1> HIDE DEF r
<1>5. Rewrites /\ C!Compacts
  BY <1>1, <1>3, <1>4 DEF Rewrites, C!Compacts, C!Done
<1> QED  BY <1>1, <1>5 DEF Moved, CtxInv

(* Every step is such a move.                                              *)
LEMMA CtxSteps ==
  ASSUME C!ContextAssumption, CtxInv, C!Next
  PROVE  Moved
<1>1. ASSUME NEW t \in Tasks, C!Prompt(C!Ask(t)) PROVE Moved
  <2>1. Added(<<C!Ask(t)>>)
    BY TextAdded DEF C!Ask, Texts, Words
  <2> QED  BY <1>1, <2>1, PromptStep
<1>2. ASSUME C!Prompt(C!Ping) PROVE Moved
  <2>1. Added(<<C!Ping>>)
    BY TextAdded DEF C!Ping, Texts, Words
  <2> QED  BY <1>2, <2>1, PromptStep
<1>3. ASSUME C!CallFails PROVE Moved
  <2>1. at' = "idle" /\ last' = C!None /\ UNCHANGED <<history, sent, answers>>
    BY <1>3 DEF C!CallFails
  <2>2. ~C!Compacts
    BY <2>1 DEF C!Compacts, C!None, C!Done
  <2> QED  BY <2>1, <2>2 DEF Moved, SentOn, CtxInv
<1> QED  BY <1>1, <1>2, <1>3, SendStep, ReplyStep, OverflowStep, HostStep DEF C!Next

(* Every step leaves a session and a request that can be sent.             *)
LEMMA CtxStep ==
  ASSUME C!ContextAssumption, CtxInv, Moved
  PROVE  CtxInv'
<1>1. ToolLimit \in Nat /\ answers' \in Nat
  BY DEF C!ContextAssumption, Moved
<1>2. Session(history) /\ sent \in Seq(Ctx) /\ Accepted(sent) /\ C!IsPrefix(sent, C!Cap(history))
  BY DEF CtxInv
<1>3. CASE Rewrites
  <2>1. history' \in Seq(Ctx) /\ Headed(history') /\ Accepted(history') /\ Capped(history')
    BY <1>1, <1>2, <1>3, CompactedGood DEF Rewrites, Session
  <2>2. C!Cap(history') = history'
    BY <1>1, <2>1, CapIs
  <2>3. <<>> \in Seq(Ctx) /\ C!IsPrefix(<<>>, history') /\ Accepted(<<>>)
    BY <2>1, NoneBegins DEF Accepted
  <2>4. C!IsPrefix(history', history')
    <3>1. Begins(history', history')
      BY <2>1 DEF Begins
    <3> QED  BY <2>1, <3>1, PrefixIs
  <2>5. sent' \in Seq(Ctx) /\ Accepted(sent') /\ C!IsPrefix(sent', C!Cap(history'))
    BY <1>3, <2>1, <2>2, <2>3, <2>4 DEF Rewrites
  <2> QED  BY <1>1, <2>1, <2>5 DEF CtxInv, Session
<1>4. CASE Grown /\ sent' = sent
  <2>1. PICK t : Added(t) /\ history' = history \o t
    BY <1>4 DEF Grown
  <2>2. Session(history')
    BY <1>2, <2>1, AddedTo
  <2>3. C!IsPrefix(sent, C!Cap(history'))
    BY <1>1, <1>2, <2>1, BeginsStill DEF Session, Added
  <2> QED  BY <1>1, <1>2, <1>4, <2>2, <2>3 DEF CtxInv
<1>5. CASE history' = history /\ SentOn
  <2>1. C!Cap(history) \in Seq(Ctx) /\ Resized(history, C!Cap(history))
    BY <1>1, <1>2, CapIs DEF Session
  <2>2. Accepted(C!Cap(history))
    BY <1>2, <2>1, ResizedAccepted DEF Session
  <2>3. C!IsPrefix(C!Cap(history), C!Cap(history))
    <3>1. Begins(C!Cap(history), C!Cap(history))
      BY <2>1 DEF Begins
    <3> QED  BY <2>1, <3>1, PrefixIs
  <2>4. sent' \in Seq(Ctx) /\ Accepted(sent') /\ C!IsPrefix(sent', C!Cap(history))
    BY <1>2, <1>5, <2>1, <2>2, <2>3 DEF SentOn
  <2> QED  BY <1>1, <1>2, <1>5, <2>4 DEF CtxInv
<1> QED  BY <1>3, <1>4, <1>5 DEF Moved

LEMMA CtxSendable == ASSUME CtxInv PROVE C!Sendable
BY SameConversation DEF CtxInv, Session, C!Sendable

(* What RequestsWhole says of a step.                                      *)
StepWhole ==
  /\ C!Compacts => C!Shape(history') \in C!Compacted(C!Shape(history))
  /\ at' = "call" /\ ~C!Compacts => C!IsPrefix(sent, sent')
  /\ C!Compacts => FirstKept(history, history') /\ AllKept(history, history')

LEMMA StepIsWhole ==
  ASSUME C!ContextAssumption, CtxInv, Moved
  PROVE  StepWhole
<1>1. ASSUME C!Compacts PROVE Compacting(history, history')
  BY <1>1 DEF Moved, Rewrites
<1>2. C!Compacts => C!Shape(history') \in C!Compacted(C!Shape(history))
  BY <1>1, CompactedShape DEF CtxInv, Session
<1>3. at' = "call" /\ ~C!Compacts => C!IsPrefix(sent, sent')
  BY DEF Moved, CtxInv
<1>4. C!Compacts => FirstKept(history, history') /\ AllKept(history, history')
  BY <1>1, CompactedKeeps DEF CtxInv, Session
<1> QED  BY <1>2, <1>3, <1>4 DEF StepWhole

(***************************************************************************)
(* The run                                                                 *)
(***************************************************************************)

(* A step of the run, as its parts see it.                                 *)
LEMMA PartsMove ==
  ASSUME [MCNext]_all
  PROVE  [Next]_vars /\ (C!Next \/ UNCHANGED contextVars)
BY DEF MCNext, all

(* A session stands still while another part goes on.                      *)
LEMMA CtxStays == ASSUME CtxInv, UNCHANGED contextVars PROVE CtxInv'
BY DEF CtxInv, contextVars, Session

LEMMA CtxKept == ASSUME CtxInv, [MCNext]_all PROVE CtxInv'
<1>1. CASE C!Next
  BY <1>1, ContextAssumption, CtxSteps, CtxStep
<1>2. CASE UNCHANGED contextVars
  BY <1>2, CtxStays
<1> QED  BY <1>1, <1>2, PartsMove

LEMMA CtxAlways == MCSpec => []CtxInv
<1>1. MCInit => CtxInv
  BY CtxInit, ContextAssumption DEF MCInit
<1>2. CtxInv /\ [MCNext]_all => CtxInv'
  BY CtxKept
<1> QED  BY <1>1, <1>2, PTL DEF MCSpec

(* As long as no hook halts a refused call: no batch that reports no       *)
(* failure is without a result, and every request, and every history that  *)
(* is kept, is one a provider takes, for any tools, batches, answers,      *)
(* sessions, budgets, limits and targets, and any number of turns.         *)
THEOREM ResultsStayWhole ==
  ASSUME HaltRefused = FALSE
  PROVE  MCSpec => []ResultsWhole
<1> DEFINE Inv == IInv /\ MsgsInv
<1>1. MCInit => Inv
  BY InitIInv, MsgsInit DEF MCInit
<1>2. Inv /\ [MCNext]_all => Inv'
  <2> SUFFICES ASSUME Inv, [MCNext]_all PROVE Inv'
    OBVIOUS
  <2>1. [Next]_vars
    BY PartsMove
  <2>2. IInv'
    BY <2>1, LoopKept
  <2>3. MsgsInv'
    BY <2>1, DroppedNothing, MsgsStep
  <2> QED  BY <2>2, <2>3
<1>3. Inv /\ CtxInv => ResultsWhole
  BY DroppedNothing, MsgsReplayable, CtxSendable DEF ResultsWhole
<1> HIDE DEF Inv
<1> QED  BY <1>1, <1>2, <1>3, CtxAlways, PTL DEF MCSpec

(* Every compaction of a session, at any budget and target, is one the     *)
(* loop's model allows for and keeps what the user wants, and without one  *)
(* the next request begins with the one before.                            *)
THEOREM RequestsStayWhole == MCSpec => RequestsWhole
<1>1. CtxInv /\ [MCNext]_all => StepWhole \/ UNCHANGED C!vars
  <2> SUFFICES ASSUME CtxInv, [MCNext]_all, C!Next PROVE StepWhole
    BY PartsMove DEF contextVars, C!vars
  <2> QED  BY ContextAssumption, CtxSteps, StepIsWhole
<1>2. CtxInv /\ [MCNext]_all
        => [C!Compacts => C!Shape(history') \in C!Compacted(C!Shape(history))]_(C!vars)
  BY <1>1 DEF StepWhole
<1>3. CtxInv /\ [MCNext]_all => [at' = "call" /\ ~C!Compacts => C!IsPrefix(sent, sent')]_(C!vars)
  BY <1>1 DEF StepWhole
<1>4. CtxInv /\ [MCNext]_all
        => [C!Compacts /\ C!Wants(history) # {} =>
             history[C!First(C!Wants(history))].says[1] \in C!Said(history', DOMAIN history')]_(C!vars)
  BY <1>1 DEF StepWhole, FirstKept
<1>5. CtxInv /\ [MCNext]_all
        => [/\ C!Compacts /\ C!Cardinality(C!Said(history, C!Wants(history))) <= MaxPins
            /\ ~C!AnchorCut(history, history')
            => C!Said(history, C!Wants(history)) \subseteq C!Said(history', DOMAIN history')]_(C!vars)
  BY <1>1 DEF StepWhole, AllKept
<1>6. MCSpec => C!AsTheLoopAssumes
  BY <1>2, CtxAlways, PTL DEF MCSpec, C!AsTheLoopAssumes
<1>7. MCSpec => C!PrefixKept
  BY <1>3, CtxAlways, PTL DEF MCSpec, C!PrefixKept
<1>8. MCSpec => C!FirstWantKept
  BY <1>4, CtxAlways, PTL DEF MCSpec, C!FirstWantKept
<1>9. MCSpec => C!AllWantsKept
  BY <1>5, CtxAlways, PTL DEF MCSpec, C!AllWantsKept
<1> QED  BY <1>6, <1>7, <1>8, <1>9 DEF RequestsWhole

=============================================================================

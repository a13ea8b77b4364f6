---------------------------- MODULE EngineRunProofs ----------------------------
(***************************************************************************)
(* Proofs about EngineRun, for any sets of callers and any bounds: the     *)
(* type invariant, the registration of the live run, steers, the call      *)
(* budget, Close and the cleanups.                                         *)
(*                                                                         *)
(* Each lemma named ...Step shows that a step of Next preserves one part   *)
(* of the inductive invariant IInv, one action at a time; the theorems at  *)
(* the end put them together.  No step needs the fairness of FairSpec.     *)
(***************************************************************************)
EXTENDS EngineRun, SequenceTheorems, TLAPS

\* Facts on sequences over any set.
LEMMA Seqs ==
  ASSUME NEW S
  PROVE  /\ <<>> \in Seq(S)
         /\ \A s, t \in Seq(S) : s \o t \in Seq(S)
         /\ \A s \in Seq(S), e \in S : Append(s, e) \in Seq(S) /\ Append(s, e) # <<>>
         /\ \A s \in Seq(S), m, n \in Int : 1 <= m /\ n <= Len(s) => SubSeq(s, m, n) \in Seq(S)
<1>1. \A s, t \in Seq(S) : s \o t \in Seq(S)
  BY ConcatProperties
<1>2. ASSUME NEW s \in Seq(S), NEW m \in Int, NEW n \in Int, 1 <= m, n <= Len(s)
      PROVE  SubSeq(s, m, n) \in Seq(S)
  <2>1. \A i \in m..n : s[i] \in S
    BY <1>2, LenProperties, ElementOfSeq
  <2>. QED
    BY <2>1, SubSeqProperties
<1>3. ASSUME NEW s \in Seq(S), NEW e \in S
      PROVE  Append(s, e) \in Seq(S) /\ Append(s, e) # <<>>
  <2>1. Append(s, e) \in Seq(S) /\ Len(Append(s, e)) = Len(s) + 1 /\ Len(s) \in Nat
    BY LenProperties
  <2>. QED
    BY <2>1, EmptySeq
<1>. QED
  BY <1>1, <1>2, <1>3, EmptySeq

\* The counters of a run are numbers, and go on being so.
LEMMA Counts ==
  ASSUME TypeOK, NEW p \in Prompts
  PROVE  /\ turns[p] + 1 \in Nat /\ overflow[p] + 1 \in Nat
         /\ calls[p] \in Nat /\ calls[p] + 1 \in Nat
  BY DEF TypeOK, RunTypeOK

\* A context that is cancelled is only cancelled once more, and keeps its cause.
LEMMA CtxCancelled ==
  ASSUME TypeOK, NEW p \in Prompts, NEW who \in {"parent", "cancel", "close"},
         CancelCtx(p, who)
  PROVE  /\ ctxDone' \in [Prompts -> BOOLEAN]
         /\ cause' \in [Prompts -> {"none", "parent", "cancel", "close"}]
         /\ \A q \in Prompts : ctxDone[q] => ctxDone'[q]
  BY DEF TypeOK, RunTypeOK, CancelCtx

\* The engine's own variables keep their types.
LEMMA EngineTypeStep ==
  ASSUME TypeOK, [Next]_vars
  PROVE  EngineTypeOK'
<1> USE DEF TypeOK, EngineTypeOK, CallIds
<1>1. ASSUME NEW p \in Prompts, PromptCall(p) PROVE EngineTypeOK'
  BY <1>1 DEF PromptCall, Goto, engine, loop, host, history
<1>2. ASSUME NEW p \in Prompts, PromptLock(p) PROVE EngineTypeOK'
  BY <1>2 DEF PromptLock, Goto, loop, host, history
<1>3. ASSUME NEW p \in Prompts, PromptBegin(p) PROVE EngineTypeOK'
  BY <1>3, Seqs DEF PromptBegin, Goto, Stop, loop, host, history
<1>4. ASSUME NEW p \in Prompts, PromptEnsure(p) PROVE EngineTypeOK'
  BY <1>4 DEF PromptEnsure, Goto, Stop, engine, loop, host, history
<1>5. ASSUME NEW p \in Prompts, PromptSetup(p) PROVE EngineTypeOK'
  BY <1>5 DEF PromptSetup, Goto, Stop, engine, loop, host, history
<1>6. ASSUME NEW p \in Prompts, LoopStop(p) PROVE EngineTypeOK'
  BY <1>6 DEF LoopStop, Goto, Stop, engine, loop, host, history
<1>7. ASSUME NEW p \in Prompts, LoopCall(p) PROVE EngineTypeOK'
  <2>1. calls[p] + 1 \in Nat
    BY Counts
  <2>2. <<p, calls[p] + 1>> \in CallIds
    BY <2>1
  <2>. QED
    BY <1>7, <2>2 DEF LoopCall
<1>8. ASSUME NEW p \in Prompts, CallRelease(p) PROVE EngineTypeOK'
  BY <1>8 DEF CallRelease, Goto, loop, host, history
<1>9. ASSUME NEW p \in Prompts, SteerReissue(p) PROVE EngineTypeOK'
  BY <1>9, Seqs DEF SteerReissue, Goto, Drain, loop, host, history
<1>10. ASSUME NEW p \in Prompts, OverflowRetry(p) PROVE EngineTypeOK'
  BY <1>10 DEF OverflowRetry, Goto, engine, host, history
<1>11. ASSUME NEW p \in Prompts, CallFailed(p) PROVE EngineTypeOK'
  BY <1>11 DEF CallFailed, Goto, Stop, engine, loop, host, history
<1>12. ASSUME NEW p \in Prompts, LoopFinish(p) PROVE EngineTypeOK'
  BY <1>12 DEF LoopFinish, Goto, Stop, engine, loop, host, history
<1>13. ASSUME NEW p \in Prompts, LoopContinue(p) PROVE EngineTypeOK'
  BY <1>13 DEF LoopContinue, Goto, engine, host, history
<1>14. ASSUME NEW p \in Prompts, ToolBoundary(p) PROVE EngineTypeOK'
  BY <1>14, Seqs DEF ToolBoundary, Goto, Drain, host, history
<1>15. ASSUME NEW p \in Prompts, ToolStop(p) PROVE EngineTypeOK'
  BY <1>15 DEF ToolStop, Goto, Stop, engine, loop, host, history
<1>16. ASSUME NEW p \in Prompts, PromptCommit(p) PROVE EngineTypeOK'
  BY <1>16 DEF PromptCommit, Goto, host, history
<1>17. ASSUME NEW p \in Prompts, PromptEnd(p) PROVE EngineTypeOK'
  BY <1>17 DEF PromptEnd, Goto, loop, host, history
<1>18. ASSUME NEW p \in Prompts, PromptUnlock(p) PROVE EngineTypeOK'
  BY <1>18 DEF PromptUnlock, Goto, loop, host, history
<1>19. ASSUME NEW p \in Prompts, ParentCancel(p) PROVE EngineTypeOK'
  BY <1>19 DEF ParentCancel, CancelCtx, engine, loop, host
<1>20. ASSUME NEW p \in Prompts, NEW r \in Results, CallReturn(p, r) PROVE EngineTypeOK'
  BY <1>20 DEF CallReturn, Goto, engine, host, history
<1>21. ASSUME NEW s \in Steers, SteerAppend(s) PROVE EngineTypeOK'
  BY <1>21, Seqs DEF SteerAppend, run, loop
<1>22. ASSUME NEW s \in Steers, SteerFire(s) PROVE EngineTypeOK'
  BY <1>22 DEF SteerFire, engine, history
<1>23. ASSUME NEW c \in Cancels, CancelRead(c) PROVE EngineTypeOK'
  BY <1>23 DEF CancelRead, engine, run, history, loop
<1>24. ASSUME NEW c \in Cancels, CancelFire(c) PROVE EngineTypeOK'
  BY <1>24 DEF CancelFire, CancelCtx, engine, loop
<1>25. ASSUME NEW k \in Closes, CloseMark(k) PROVE EngineTypeOK'
  BY <1>25, Seqs DEF CloseMark, run, history, loop
<1>26. ASSUME NEW k \in Closes, CloseRead(k) PROVE EngineTypeOK'
  BY <1>26 DEF CloseRead, engine, run, history, loop
<1>27. ASSUME NEW k \in Closes, CloseFire(k) PROVE EngineTypeOK'
  BY <1>27 DEF CloseFire, CancelCtx, engine, loop
<1>28. ASSUME NEW k \in Closes, CloseCleanup(k) PROVE EngineTypeOK'
  BY <1>28 DEF CloseCleanup, engine, run, history, loop
<1>29. ASSUME NEW f \in Cleanups, RegisterCleanup(f) PROVE EngineTypeOK'
  BY <1>29, Seqs DEF RegisterCleanup, run, history, loop
<1>30. CASE UNCHANGED vars
  BY <1>30 DEF vars, engine, run, loop, host, history
<1>. QED
  BY <1>1, <1>2, <1>3, <1>4, <1>5, <1>6, <1>7, <1>8, <1>9, <1>10, <1>11, <1>12, <1>13, <1>14, <1>15, <1>16, <1>17, <1>18, <1>19, <1>20, <1>21, <1>22, <1>23, <1>24, <1>25, <1>26, <1>27, <1>28, <1>29, <1>30 DEF Next, PromptStep, CancelStep, CloseStep

\* The variables of the runs keep their types.
LEMMA RunTypeStep ==
  ASSUME TypeOK, [Next]_vars
  PROVE  RunTypeOK'
<1> USE DEF TypeOK, RunTypeOK, EngineTypeOK, HostTypeOK, Labels, Held, Live, Outcomes, Results
<1>1. ASSUME NEW p \in Prompts, PromptCall(p) PROVE RunTypeOK'
  BY <1>1 DEF PromptCall, Goto, engine, loop, host, history
<1>2. ASSUME NEW p \in Prompts, PromptLock(p) PROVE RunTypeOK'
  BY <1>2 DEF PromptLock, Goto, loop, host, history
<1>3. ASSUME NEW p \in Prompts, PromptBegin(p) PROVE RunTypeOK'
  BY ZenonT(60), <1>3 DEF PromptBegin, Goto, Stop, loop, host, history
<1>4. ASSUME NEW p \in Prompts, PromptEnsure(p) PROVE RunTypeOK'
  BY ZenonT(60), <1>4 DEF PromptEnsure, Goto, Stop, engine, loop, host, history
<1>5. ASSUME NEW p \in Prompts, PromptSetup(p) PROVE RunTypeOK'
  BY ZenonT(60), <1>5 DEF PromptSetup, Goto, Stop, engine, loop, host, history
<1>6. ASSUME NEW p \in Prompts, LoopStop(p) PROVE RunTypeOK'
  BY ZenonT(60), <1>6 DEF LoopStop, Goto, Stop, engine, loop, host, history
<1>7. ASSUME NEW p \in Prompts, LoopCall(p) PROVE RunTypeOK'
  <2>1. calls[p] + 1 \in Nat
    BY Counts
  <2>. QED
    BY <1>7, <2>1 DEF LoopCall, engine, Goto, host, history
<1>8. ASSUME NEW p \in Prompts, CallRelease(p) PROVE RunTypeOK'
  BY <1>8 DEF CallRelease, Goto, loop, host, history
<1>9. ASSUME NEW p \in Prompts, SteerReissue(p) PROVE RunTypeOK'
  BY <1>9, Seqs DEF SteerReissue, Goto, Drain, loop, host, history
<1>10. ASSUME NEW p \in Prompts, OverflowRetry(p) PROVE RunTypeOK'
  <2>1. overflow[p] + 1 \in Nat
    BY Counts
  <2>. QED
    BY <1>10, <2>1 DEF OverflowRetry, engine, Goto, host, history
<1>11. ASSUME NEW p \in Prompts, CallFailed(p) PROVE RunTypeOK'
  BY <1>11 DEF CallFailed, Goto, Stop, engine, loop, host, history
<1>12. ASSUME NEW p \in Prompts, LoopFinish(p) PROVE RunTypeOK'
  BY <1>12 DEF LoopFinish, Goto, Stop, engine, loop, host, history
<1>13. ASSUME NEW p \in Prompts, LoopContinue(p) PROVE RunTypeOK'
  <2>1. turns[p] + 1 \in Nat
    BY Counts
  <2>. QED
    BY <1>13, <2>1 DEF LoopContinue, engine, Goto, host, history
<1>14. ASSUME NEW p \in Prompts, ToolBoundary(p) PROVE RunTypeOK'
  <2>1. turns[p] + 1 \in Nat
    BY Counts
  <2>. QED
    BY <1>14, <2>1, Seqs DEF ToolBoundary, Drain, Goto, host, history
<1>15. ASSUME NEW p \in Prompts, ToolStop(p) PROVE RunTypeOK'
  BY ZenonT(60), <1>15 DEF ToolStop, Goto, Stop, engine, loop, host, history
<1>16. ASSUME NEW p \in Prompts, PromptCommit(p) PROVE RunTypeOK'
  BY <1>16 DEF PromptCommit, Goto, host, history
<1>17. ASSUME NEW p \in Prompts, PromptEnd(p) PROVE RunTypeOK'
  BY <1>17 DEF PromptEnd, Goto, loop, host, history
<1>18. ASSUME NEW p \in Prompts, PromptUnlock(p) PROVE RunTypeOK'
  BY <1>18 DEF PromptUnlock, Goto, loop, host, history
<1>19. ASSUME NEW p \in Prompts, ParentCancel(p) PROVE RunTypeOK'
  BY <1>19 DEF ParentCancel, CancelCtx, engine, loop, host
<1>20. ASSUME NEW p \in Prompts, NEW r \in Results, CallReturn(p, r) PROVE RunTypeOK'
  BY <1>20 DEF CallReturn, Goto, engine, host, history
<1>21. ASSUME NEW s \in Steers, SteerAppend(s) PROVE RunTypeOK'
  BY <1>21, Seqs DEF SteerAppend, run, loop
<1>22. ASSUME NEW s \in Steers, SteerFire(s) PROVE RunTypeOK'
  BY <1>22 DEF SteerFire, engine, history
<1>23. ASSUME NEW c \in Cancels, CancelRead(c) PROVE RunTypeOK'
  BY <1>23 DEF CancelRead, engine, run, history, loop
<1>24. ASSUME NEW c \in Cancels, CancelFire(c) PROVE RunTypeOK'
  <2>1. CASE ctarget[c] = None
    BY <1>24, <2>1 DEF CancelFire, CancelCtx, engine, loop
  <2>2. CASE ctarget[c] # None
    <3>1. ctarget[c] \in Prompts
      BY <2>2
    <3>2. CancelCtx(ctarget[c], "cancel") /\ UNCHANGED <<engine, pc, out, loop, heard, sent>>
      BY <1>24, <2>2 DEF CancelFire
    <3>. QED
      BY <3>1, <3>2, CtxCancelled DEF engine, loop
  <2>. QED
    BY <2>1, <2>2
<1>25. ASSUME NEW k \in Closes, CloseMark(k) PROVE RunTypeOK'
  BY <1>25 DEF CloseMark, run, history, loop
<1>26. ASSUME NEW k \in Closes, CloseRead(k) PROVE RunTypeOK'
  BY <1>26 DEF CloseRead, engine, run, history, loop
<1>27. ASSUME NEW k \in Closes, CloseFire(k) PROVE RunTypeOK'
  <2>1. CASE ktarget[k] = None
    BY <1>27, <2>1 DEF CloseFire, CancelCtx, engine, loop
  <2>2. CASE ktarget[k] # None
    <3>1. ktarget[k] \in Prompts
      BY <2>2
    <3>2. CancelCtx(ktarget[k], "close") /\ UNCHANGED <<engine, pc, out, loop, heard, sent>>
      BY <1>27, <2>2 DEF CloseFire
    <3>. QED
      BY <3>1, <3>2, CtxCancelled DEF engine, loop
  <2>. QED
    BY <2>1, <2>2
<1>28. ASSUME NEW k \in Closes, CloseCleanup(k) PROVE RunTypeOK'
  BY <1>28 DEF CloseCleanup, engine, run, history, loop
<1>29. ASSUME NEW f \in Cleanups, RegisterCleanup(f) PROVE RunTypeOK'
  BY <1>29 DEF RegisterCleanup, run, history, loop
<1>30. CASE UNCHANGED vars
  BY <1>30 DEF vars, engine, run, loop, host, history
<1>. QED
  BY <1>1, <1>2, <1>3, <1>4, <1>5, <1>6, <1>7, <1>8, <1>9, <1>10, <1>11, <1>12, <1>13, <1>14, <1>15, <1>16, <1>17, <1>18, <1>19, <1>20, <1>21, <1>22, <1>23, <1>24, <1>25, <1>26, <1>27, <1>28, <1>29, <1>30 DEF Next, PromptStep, CancelStep, CloseStep

\* The variables of the host's other calls keep their types.
LEMMA HostTypeStep ==
  ASSUME TypeOK, [Next]_vars
  PROVE  HostTypeOK'
<1> USE DEF TypeOK, HostTypeOK, EngineTypeOK, CallIds
<1>1. ASSUME NEW p \in Prompts, PromptCall(p) PROVE HostTypeOK'
  BY <1>1 DEF PromptCall, Goto, engine, loop, host, history
<1>2. ASSUME NEW p \in Prompts, PromptLock(p) PROVE HostTypeOK'
  BY <1>2 DEF PromptLock, Goto, loop, host, history
<1>3. ASSUME NEW p \in Prompts, PromptBegin(p) PROVE HostTypeOK'
  BY <1>3 DEF PromptBegin, Goto, Stop, loop, host, history
<1>4. ASSUME NEW p \in Prompts, PromptEnsure(p) PROVE HostTypeOK'
  BY <1>4 DEF PromptEnsure, Goto, Stop, engine, loop, host, history
<1>5. ASSUME NEW p \in Prompts, PromptSetup(p) PROVE HostTypeOK'
  BY <1>5 DEF PromptSetup, Goto, Stop, engine, loop, host, history
<1>6. ASSUME NEW p \in Prompts, LoopStop(p) PROVE HostTypeOK'
  BY <1>6 DEF LoopStop, Goto, Stop, engine, loop, host, history
<1>7. ASSUME NEW p \in Prompts, LoopCall(p) PROVE HostTypeOK'
  BY <1>7 DEF LoopCall, Goto, host, history
<1>8. ASSUME NEW p \in Prompts, CallRelease(p) PROVE HostTypeOK'
  BY <1>8 DEF CallRelease, Goto, loop, host, history
<1>9. ASSUME NEW p \in Prompts, SteerReissue(p) PROVE HostTypeOK'
  BY <1>9 DEF SteerReissue, Goto, Drain, loop, host, history
<1>10. ASSUME NEW p \in Prompts, OverflowRetry(p) PROVE HostTypeOK'
  BY <1>10 DEF OverflowRetry, Goto, engine, host, history
<1>11. ASSUME NEW p \in Prompts, CallFailed(p) PROVE HostTypeOK'
  BY <1>11 DEF CallFailed, Goto, Stop, engine, loop, host, history
<1>12. ASSUME NEW p \in Prompts, LoopFinish(p) PROVE HostTypeOK'
  BY <1>12 DEF LoopFinish, Goto, Stop, engine, loop, host, history
<1>13. ASSUME NEW p \in Prompts, LoopContinue(p) PROVE HostTypeOK'
  BY <1>13 DEF LoopContinue, Goto, engine, host, history
<1>14. ASSUME NEW p \in Prompts, ToolBoundary(p) PROVE HostTypeOK'
  BY <1>14 DEF ToolBoundary, Goto, Drain, host, history
<1>15. ASSUME NEW p \in Prompts, ToolStop(p) PROVE HostTypeOK'
  BY <1>15 DEF ToolStop, Goto, Stop, engine, loop, host, history
<1>16. ASSUME NEW p \in Prompts, PromptCommit(p) PROVE HostTypeOK'
  BY <1>16 DEF PromptCommit, Goto, host, history
<1>17. ASSUME NEW p \in Prompts, PromptEnd(p) PROVE HostTypeOK'
  BY <1>17 DEF PromptEnd, Goto, loop, host, history
<1>18. ASSUME NEW p \in Prompts, PromptUnlock(p) PROVE HostTypeOK'
  BY <1>18 DEF PromptUnlock, Goto, loop, host, history
<1>19. ASSUME NEW p \in Prompts, ParentCancel(p) PROVE HostTypeOK'
  BY <1>19 DEF ParentCancel, CancelCtx, engine, loop, host
<1>20. ASSUME NEW p \in Prompts, NEW r \in Results, CallReturn(p, r) PROVE HostTypeOK'
  BY <1>20 DEF CallReturn, Goto, engine, host, history
<1>21. ASSUME NEW s \in Steers, SteerAppend(s) PROVE HostTypeOK'
  BY <1>21 DEF SteerAppend, run, loop
<1>22. ASSUME NEW s \in Steers, SteerFire(s) PROVE HostTypeOK'
  BY <1>22 DEF SteerFire, engine, history
<1>23. ASSUME NEW c \in Cancels, CancelRead(c) PROVE HostTypeOK'
  BY <1>23 DEF CancelRead, engine, run, history, loop
<1>24. ASSUME NEW c \in Cancels, CancelFire(c) PROVE HostTypeOK'
  BY <1>24 DEF CancelFire, CancelCtx, engine, loop
<1>25. ASSUME NEW k \in Closes, CloseMark(k) PROVE HostTypeOK'
  BY <1>25 DEF CloseMark, run, history, loop
<1>26. ASSUME NEW k \in Closes, CloseRead(k) PROVE HostTypeOK'
  BY <1>26 DEF CloseRead, engine, run, history, loop
<1>27. ASSUME NEW k \in Closes, CloseFire(k) PROVE HostTypeOK'
  BY <1>27 DEF CloseFire, CancelCtx, engine, loop
<1>28. ASSUME NEW k \in Closes, CloseCleanup(k) PROVE HostTypeOK'
  <2>1. CASE kfns[k] = <<>>
    BY <1>28, <2>1 DEF CloseCleanup, engine, run
  <2>2. CASE kfns[k] # <<>>
    <3> DEFINE n == Len(kfns[k])
    <3>1. n \in Nat \ {0} /\ kfns[k][n] \in Cleanups
      BY <2>2, EmptySeq, LenProperties, ElementOfSeq
    <3>2. SubSeq(kfns[k], 1, n - 1) \in Seq(Cleanups)
      BY <3>1, Seqs
    <3>3. ran[kfns[k][n]] + 1 \in Nat
      BY <3>1
    <3>. QED
      BY <1>28, <2>2, <3>2, <3>3 DEF CloseCleanup, engine, run
  <2>. QED
    BY <2>1, <2>2
<1>29. ASSUME NEW f \in Cleanups, RegisterCleanup(f) PROVE HostTypeOK'
  <2>1. ran[f] + 1 \in Nat
    OBVIOUS
  <2>. QED
    BY <1>29, <2>1 DEF RegisterCleanup, run
<1>30. CASE UNCHANGED vars
  BY <1>30 DEF vars, engine, run, loop, host, history
<1>. QED
  BY <1>1, <1>2, <1>3, <1>4, <1>5, <1>6, <1>7, <1>8, <1>9, <1>10, <1>11, <1>12, <1>13, <1>14, <1>15, <1>16, <1>17, <1>18, <1>19, <1>20, <1>21, <1>22, <1>23, <1>24, <1>25, <1>26, <1>27, <1>28, <1>29, <1>30 DEF Next, PromptStep, CancelStep, CloseStep
-----------------------------------------------------------------------------
\* The cancels a steer can hold belong to calls already issued.
SteerCancelIssued ==
  \A p \in Prompts :
    /\ steerCancel \in {p} \X Nat => steerCancel \in {p} \X (0..calls[p])
    /\ \A s \in Steers : scap[s] \in {p} \X Nat => scap[s] \in {p} \X (0..calls[p])

\* A call that a steer cancelled, or is about to, leaves its text pending until
\* the loop drains; a call that came back cancelled did so for that reason or
\* because the run's context is.
SteerPending ==
  /\ \A s \in Steers, p \in Prompts :
       spc[s] = "fire" /\ pc[p] = "call" /\ scap[s] = <<p, calls[p]>> => steer # <<>>
  /\ \A p \in Prompts : pc[p] = "call" /\ callDone[p] => steer # <<>>
  /\ \A p \in Prompts :
       pc[p] \in {"ret", "after"} /\ res[p] = "canceled" => ctxDone[p] \/ steer # <<>>

\* Only the host, Cancel, Close and endRun cancel a run's context.
CauseInv ==
  \A p \in Prompts :
    /\ ctxDone[p] => cause[p] # "none" \/ pc[p] \in {"unlock", "done"}
    /\ out[p] = "canceled" => cause[p] # "none"

\* What the first Close knows at each of its steps.
CloseInv ==
  \A k \in Closes :
    /\ kpc[k] \in {"read", "fire", "cleanup", "done"} => closed
    /\ kpc[k] = "fire" =>
         \A p \in Prompts : pc[p] \in Live => ktarget[k] = p \/ ctxDone[p]
    /\ kpc[k] \in {"cleanup", "done"} =>
         \A p \in Prompts : pc[p] \in Live => ctxDone[p]

\* The call budget, turn by turn.
Budget(p) ==
    /\ turns[p] <= MaxTurns /\ overflow[p] <= MaxOverflow
    /\ pc[p] \in {"call", "ret", "after"} =>
         /\ turns[p] < MaxTurns
         /\ calls[p] <= turns[p] + overflow[p] + Len(heard[p]) + 1
    /\ pc[p] \in {"idle", "wait", "begin", "ensure", "setup", "turn"} =>
         calls[p] <= turns[p] + overflow[p] + Len(heard[p])
    /\ calls[p] <= MaxTurns + MaxOverflow + Len(heard[p])

BudgetInv == \A p \in Prompts : Budget(p)

\* The arithmetic of the budget, on numbers.
LEMMA CallsWithin ==
  \A c, t, v, l \in Nat :
    c <= t + v + l + 1 /\ t < MaxTurns /\ v <= MaxOverflow => c <= MaxTurns + MaxOverflow + l
BY BoundsAssumption

\* A step of the loop outside its calls disturbs nothing SteerPending speaks of.
LEMMA QuietSteer ==
  ASSUME TypeOK, SteerPending, NEW p \in Prompts,
         NEW x \in Labels \ {"call", "ret", "after"},
         pc' = [pc EXCEPT ![p] = x],
         UNCHANGED <<steer, spc, scap, calls, callDone, res, ctxDone>>
  PROVE  SteerPending'
BY DEF SteerPending, TypeOK, RunTypeOK

\* A step keeps the registration of the live run.
LEMMA RegistrationStep ==
  ASSUME TypeOK, LiveRunIsRegistered, [Next]_vars
  PROVE  LiveRunIsRegistered'
<1> USE DEF TypeOK, EngineTypeOK, RunTypeOK, LiveRunIsRegistered, Live, Held
<1>1. ASSUME NEW p \in Prompts, PromptCall(p) PROVE LiveRunIsRegistered'
  BY <1>1 DEF PromptCall, Goto, engine, loop, host, history
<1>2. ASSUME NEW p \in Prompts, PromptLock(p) PROVE LiveRunIsRegistered'
  BY <1>2, NoneAssumption DEF PromptLock, Goto, loop, host, history
<1>3. ASSUME NEW p \in Prompts, PromptBegin(p) PROVE LiveRunIsRegistered'
  BY SMTT(30), <1>3, NoneAssumption DEF PromptBegin, Goto, Stop, loop, host, history
<1>4. ASSUME NEW p \in Prompts, PromptEnsure(p) PROVE LiveRunIsRegistered'
  BY <1>4 DEF PromptEnsure, Goto, Stop, engine, loop, host, history
<1>5. ASSUME NEW p \in Prompts, PromptSetup(p) PROVE LiveRunIsRegistered'
  BY <1>5 DEF PromptSetup, Goto, Stop, engine, loop, host, history
<1>6. ASSUME NEW p \in Prompts, LoopStop(p) PROVE LiveRunIsRegistered'
  BY <1>6 DEF LoopStop, Goto, Stop, engine, loop, host, history
<1>7. ASSUME NEW p \in Prompts, LoopCall(p) PROVE LiveRunIsRegistered'
  BY <1>7 DEF LoopCall, Goto, host, history
<1>8. ASSUME NEW p \in Prompts, CallRelease(p) PROVE LiveRunIsRegistered'
  BY <1>8 DEF CallRelease, Goto, loop, host, history
<1>9. ASSUME NEW p \in Prompts, SteerReissue(p) PROVE LiveRunIsRegistered'
  BY <1>9 DEF SteerReissue, Goto, Drain, loop, host, history
<1>10. ASSUME NEW p \in Prompts, OverflowRetry(p) PROVE LiveRunIsRegistered'
  BY <1>10 DEF OverflowRetry, Goto, engine, host, history
<1>11. ASSUME NEW p \in Prompts, CallFailed(p) PROVE LiveRunIsRegistered'
  BY <1>11 DEF CallFailed, Goto, Stop, engine, loop, host, history
<1>12. ASSUME NEW p \in Prompts, LoopFinish(p) PROVE LiveRunIsRegistered'
  BY <1>12 DEF LoopFinish, Goto, Stop, engine, loop, host, history
<1>13. ASSUME NEW p \in Prompts, LoopContinue(p) PROVE LiveRunIsRegistered'
  BY <1>13 DEF LoopContinue, Goto, engine, host, history
<1>14. ASSUME NEW p \in Prompts, ToolBoundary(p) PROVE LiveRunIsRegistered'
  BY <1>14 DEF ToolBoundary, Goto, Drain, host, history
<1>15. ASSUME NEW p \in Prompts, ToolStop(p) PROVE LiveRunIsRegistered'
  BY <1>15 DEF ToolStop, Goto, Stop, engine, loop, host, history
<1>16. ASSUME NEW p \in Prompts, PromptCommit(p) PROVE LiveRunIsRegistered'
  BY <1>16 DEF PromptCommit, Goto, host, history
<1>17. ASSUME NEW p \in Prompts, PromptEnd(p) PROVE LiveRunIsRegistered'
  BY <1>17, NoneAssumption DEF PromptEnd, Goto, loop, host, history
<1>18. ASSUME NEW p \in Prompts, PromptUnlock(p) PROVE LiveRunIsRegistered'
  BY <1>18, NoneAssumption DEF PromptUnlock, Goto, loop, host, history
<1>19. ASSUME NEW p \in Prompts, ParentCancel(p) PROVE LiveRunIsRegistered'
  BY <1>19 DEF ParentCancel, CancelCtx, engine, loop, host
<1>20. ASSUME NEW p \in Prompts, NEW r \in Results, CallReturn(p, r) PROVE LiveRunIsRegistered'
  BY <1>20 DEF CallReturn, Goto, engine, host, history
<1>21. ASSUME NEW s \in Steers, SteerAppend(s) PROVE LiveRunIsRegistered'
  BY <1>21 DEF SteerAppend, run, loop
<1>22. ASSUME NEW s \in Steers, SteerFire(s) PROVE LiveRunIsRegistered'
  BY <1>22 DEF SteerFire, engine, history
<1>23. ASSUME NEW c \in Cancels, CancelRead(c) PROVE LiveRunIsRegistered'
  BY <1>23 DEF CancelRead, engine, run, history, loop
<1>24. ASSUME NEW c \in Cancels, CancelFire(c) PROVE LiveRunIsRegistered'
  BY <1>24 DEF CancelFire, CancelCtx, engine, loop
<1>25. ASSUME NEW k \in Closes, CloseMark(k) PROVE LiveRunIsRegistered'
  BY <1>25 DEF CloseMark, run, history, loop
<1>26. ASSUME NEW k \in Closes, CloseRead(k) PROVE LiveRunIsRegistered'
  BY <1>26 DEF CloseRead, engine, run, history, loop
<1>27. ASSUME NEW k \in Closes, CloseFire(k) PROVE LiveRunIsRegistered'
  BY <1>27 DEF CloseFire, CancelCtx, engine, loop
<1>28. ASSUME NEW k \in Closes, CloseCleanup(k) PROVE LiveRunIsRegistered'
  BY <1>28 DEF CloseCleanup, engine, run, history, loop
<1>29. ASSUME NEW f \in Cleanups, RegisterCleanup(f) PROVE LiveRunIsRegistered'
  BY <1>29 DEF RegisterCleanup, run, history, loop
<1>30. CASE UNCHANGED vars
  BY <1>30 DEF vars, engine, run, loop, host, history
<1>. QED
  BY <1>1, <1>2, <1>3, <1>4, <1>5, <1>6, <1>7, <1>8, <1>9, <1>10, <1>11, <1>12, <1>13, <1>14, <1>15, <1>16, <1>17, <1>18, <1>19, <1>20, <1>21, <1>22, <1>23, <1>24, <1>25, <1>26, <1>27, <1>28, <1>29, <1>30 DEF Next, PromptStep, CancelStep, CloseStep

\* No step lets a steer hold the cancel of a call not yet issued.
LEMMA SteerCancelIssuedStep ==
  ASSUME TypeOK, SteerCancelIssued, [Next]_vars
  PROVE  SteerCancelIssued'
<1> USE DEF TypeOK, EngineTypeOK, RunTypeOK, HostTypeOK, SteerCancelIssued, CallIds
<1>1. ASSUME NEW p \in Prompts, PromptCall(p) PROVE SteerCancelIssued'
  BY <1>1, NoneAssumption DEF PromptCall, Goto, engine, loop, host, history
<1>2. ASSUME NEW p \in Prompts, PromptLock(p) PROVE SteerCancelIssued'
  BY <1>2, NoneAssumption DEF PromptLock, Goto, loop, host, history
<1>3. ASSUME NEW p \in Prompts, PromptBegin(p) PROVE SteerCancelIssued'
  BY <1>3, NoneAssumption DEF PromptBegin, Goto, Stop, loop, host, history
<1>4. ASSUME NEW p \in Prompts, PromptEnsure(p) PROVE SteerCancelIssued'
  BY <1>4, NoneAssumption DEF PromptEnsure, Goto, Stop, engine, loop, host, history
<1>5. ASSUME NEW p \in Prompts, PromptSetup(p) PROVE SteerCancelIssued'
  BY <1>5, NoneAssumption DEF PromptSetup, Goto, Stop, engine, loop, host, history
<1>6. ASSUME NEW p \in Prompts, LoopStop(p) PROVE SteerCancelIssued'
  BY <1>6, NoneAssumption DEF LoopStop, Goto, Stop, engine, loop, host, history
<1>7. ASSUME NEW p \in Prompts, LoopCall(p) PROVE SteerCancelIssued'
  <2>1. calls[p] \in Nat /\ calls'[p] = calls[p] + 1 /\ steerCancel' = <<p, calls[p] + 1>>
        /\ UNCHANGED scap
    BY <1>7 DEF LoopCall, Goto, host, history
  <2>2. \A q \in Prompts : q # p => calls'[q] = calls[q]
    BY <1>7 DEF LoopCall, Goto, host, history
  <2>3. ASSUME NEW q \in Prompts, steerCancel' \in {q} \X Nat
        PROVE  steerCancel' \in {q} \X (0..calls'[q])
    <3>1. q = p /\ calls[p] + 1 \in 0..calls'[p]
      BY <2>1, <2>3
    <3>. QED
      BY <2>1, <3>1
  <2>4. ASSUME NEW q \in Prompts, NEW s \in Steers, scap[s] \in {q} \X Nat
        PROVE  scap[s] \in {q} \X (0..calls'[q])
    <3>1. scap[s] \in {q} \X (0..calls[q])
      BY <2>4
    <3>2. calls[q] \in Nat /\ calls'[q] \in Nat /\ calls[q] <= calls'[q]
      <4>1. calls[q] \in Nat
        BY DEF TypeOK, RunTypeOK
      <4>2. calls'[q] = calls[q] \/ calls'[q] = calls[q] + 1
        BY <2>1, <2>2
      <4> HIDE DEF TypeOK, EngineTypeOK, RunTypeOK, HostTypeOK, SteerCancelIssued
      <4>. QED
        BY <4>1, <4>2
    <3>3. 0..calls[q] \subseteq 0..calls'[q]
      BY <3>2
    <3>. QED
      BY <3>1, <3>3
  <2>. QED
    BY <2>1, <2>3, <2>4
<1>8. ASSUME NEW p \in Prompts, CallRelease(p) PROVE SteerCancelIssued'
  BY <1>8, NoneAssumption DEF CallRelease, Goto, loop, host, history
<1>9. ASSUME NEW p \in Prompts, SteerReissue(p) PROVE SteerCancelIssued'
  BY <1>9, NoneAssumption DEF SteerReissue, Goto, Drain, loop, host, history
<1>10. ASSUME NEW p \in Prompts, OverflowRetry(p) PROVE SteerCancelIssued'
  BY <1>10, NoneAssumption DEF OverflowRetry, Goto, engine, host, history
<1>11. ASSUME NEW p \in Prompts, CallFailed(p) PROVE SteerCancelIssued'
  BY <1>11, NoneAssumption DEF CallFailed, Goto, Stop, engine, loop, host, history
<1>12. ASSUME NEW p \in Prompts, LoopFinish(p) PROVE SteerCancelIssued'
  BY <1>12, NoneAssumption DEF LoopFinish, Goto, Stop, engine, loop, host, history
<1>13. ASSUME NEW p \in Prompts, LoopContinue(p) PROVE SteerCancelIssued'
  BY <1>13, NoneAssumption DEF LoopContinue, Goto, engine, host, history
<1>14. ASSUME NEW p \in Prompts, ToolBoundary(p) PROVE SteerCancelIssued'
  BY <1>14, NoneAssumption DEF ToolBoundary, Goto, Drain, host, history
<1>15. ASSUME NEW p \in Prompts, ToolStop(p) PROVE SteerCancelIssued'
  BY <1>15, NoneAssumption DEF ToolStop, Goto, Stop, engine, loop, host, history
<1>16. ASSUME NEW p \in Prompts, PromptCommit(p) PROVE SteerCancelIssued'
  BY <1>16, NoneAssumption DEF PromptCommit, Goto, host, history
<1>17. ASSUME NEW p \in Prompts, PromptEnd(p) PROVE SteerCancelIssued'
  BY <1>17, NoneAssumption DEF PromptEnd, Goto, loop, host, history
<1>18. ASSUME NEW p \in Prompts, PromptUnlock(p) PROVE SteerCancelIssued'
  BY <1>18, NoneAssumption DEF PromptUnlock, Goto, loop, host, history
<1>19. ASSUME NEW p \in Prompts, ParentCancel(p) PROVE SteerCancelIssued'
  BY <1>19, NoneAssumption DEF ParentCancel, CancelCtx, engine, loop, host
<1>20. ASSUME NEW p \in Prompts, NEW r \in Results, CallReturn(p, r) PROVE SteerCancelIssued'
  BY <1>20, NoneAssumption DEF CallReturn, Goto, engine, host, history
<1>21. ASSUME NEW s \in Steers, SteerAppend(s) PROVE SteerCancelIssued'
  BY <1>21, NoneAssumption DEF SteerAppend, run, loop
<1>22. ASSUME NEW s \in Steers, SteerFire(s) PROVE SteerCancelIssued'
  BY <1>22, NoneAssumption DEF SteerFire, engine, history
<1>23. ASSUME NEW c \in Cancels, CancelRead(c) PROVE SteerCancelIssued'
  BY <1>23, NoneAssumption DEF CancelRead, engine, run, history, loop
<1>24. ASSUME NEW c \in Cancels, CancelFire(c) PROVE SteerCancelIssued'
  BY <1>24, NoneAssumption DEF CancelFire, CancelCtx, engine, loop
<1>25. ASSUME NEW k \in Closes, CloseMark(k) PROVE SteerCancelIssued'
  BY <1>25, NoneAssumption DEF CloseMark, run, history, loop
<1>26. ASSUME NEW k \in Closes, CloseRead(k) PROVE SteerCancelIssued'
  BY <1>26, NoneAssumption DEF CloseRead, engine, run, history, loop
<1>27. ASSUME NEW k \in Closes, CloseFire(k) PROVE SteerCancelIssued'
  BY <1>27, NoneAssumption DEF CloseFire, CancelCtx, engine, loop
<1>28. ASSUME NEW k \in Closes, CloseCleanup(k) PROVE SteerCancelIssued'
  BY <1>28, NoneAssumption DEF CloseCleanup, engine, run, history, loop
<1>29. ASSUME NEW f \in Cleanups, RegisterCleanup(f) PROVE SteerCancelIssued'
  BY <1>29, NoneAssumption DEF RegisterCleanup, run, history, loop
<1>30. CASE UNCHANGED vars
  BY <1>30 DEF vars, engine, run, loop, host, history
<1>. QED
  BY <1>1, <1>2, <1>3, <1>4, <1>5, <1>6, <1>7, <1>8, <1>9, <1>10, <1>11, <1>12, <1>13, <1>14, <1>15, <1>16, <1>17, <1>18, <1>19, <1>20, <1>21, <1>22, <1>23, <1>24, <1>25, <1>26, <1>27, <1>28, <1>29, <1>30 DEF Next, PromptStep, CancelStep, CloseStep

\* No step drains the text of a steer whose cancel can still strike a call.
LEMMA SteerPendingStep ==
  ASSUME TypeOK, LiveRunIsRegistered, SteerCancelIssued, SteerPending, [Next]_vars
  PROVE  SteerPending'
<1> USE DEF TypeOK, EngineTypeOK, RunTypeOK, HostTypeOK, SteerPending
<1>1. ASSUME NEW p \in Prompts, PromptCall(p) PROVE SteerPending'
  BY SMTT(30), <1>1, NoneAssumption DEF PromptCall, Goto, engine, loop, host, history
<1>2. ASSUME NEW p \in Prompts, PromptLock(p) PROVE SteerPending'
  BY <1>2, NoneAssumption DEF PromptLock, Goto, loop, host, history
<1>3. ASSUME NEW p \in Prompts, PromptBegin(p) PROVE SteerPending'
  <2>1. \A q \in Prompts : pc[q] \notin {"call", "ret", "after"}
    BY <1>3 DEF PromptBegin, LiveRunIsRegistered, Held, Live
  <2>2. \A q \in Prompts : pc'[q] \notin {"call", "ret", "after"}
    BY SMTT(30), <1>3, <2>1 DEF PromptBegin, Goto, Stop
  <2>. QED
    BY <2>2
<1>4. ASSUME NEW p \in Prompts, PromptEnsure(p) PROVE SteerPending'
  <2>1. \E x \in Labels \ {"call", "ret", "after"} : pc' = [pc EXCEPT ![p] = x]
    BY <1>4 DEF PromptEnsure, Goto, Stop, engine, loop, host, history, Labels, Held, Live
  <2>. QED
    BY <1>4, <2>1, QuietSteer DEF PromptEnsure, Goto, Stop, engine, loop, host, history
<1>5. ASSUME NEW p \in Prompts, PromptSetup(p) PROVE SteerPending'
  <2>1. \E x \in Labels \ {"call", "ret", "after"} : pc' = [pc EXCEPT ![p] = x]
    BY <1>5 DEF PromptSetup, Goto, Stop, engine, loop, host, history, Labels, Held, Live
  <2>. QED
    BY <1>5, <2>1, QuietSteer DEF PromptSetup, Goto, Stop, engine, loop, host, history
<1>6. ASSUME NEW p \in Prompts, LoopStop(p) PROVE SteerPending'
  <2>1. \E x \in Labels \ {"call", "ret", "after"} : pc' = [pc EXCEPT ![p] = x]
    BY <1>6 DEF LoopStop, Goto, Stop, engine, loop, host, history, Labels, Held, Live
  <2>. QED
    BY <1>6, <2>1, QuietSteer DEF LoopStop, Goto, Stop, engine, loop, host, history
<1>7. ASSUME NEW p \in Prompts, LoopCall(p) PROVE SteerPending'
  <2>1. \A s \in Steers : scap[s] # <<p, calls[p] + 1>>
    <3>1. ASSUME NEW s \in Steers, scap[s] = <<p, calls[p] + 1>> PROVE FALSE
      <4>1. calls[p] \in Nat /\ calls[p] + 1 \in Nat
        BY Counts
      <4>3. <<p, calls[p] + 1>> \in {p} \X Nat
        BY <4>1
      <4>4. scap[s] \in {p} \X Nat
        BY <3>1, <4>3
      <4>2. <<p, calls[p] + 1>> \in {p} \X (0..calls[p])
        BY <3>1, <4>4 DEF SteerCancelIssued
      <4>. QED
        BY <4>1, <4>2
    <3>. QED
      BY <3>1
  <2>2. \A q \in Prompts : q # p => pc'[q] = pc[q] /\ res'[q] = res[q] /\ calls'[q] = calls[q] /\ callDone'[q] = callDone[q]
    BY <1>7 DEF LoopCall, Goto, host, history
  <2>3. pc'[p] = "call" /\ calls'[p] = calls[p] + 1 /\ ~callDone'[p]
    BY <1>7 DEF LoopCall, Goto, host, history
  <2>4. UNCHANGED <<steer, spc, scap, ctxDone>>
    BY <1>7 DEF LoopCall, Goto, host, history
  <2>5. \A s \in Steers, q \in Prompts :
         spc[s] = "fire" /\ pc'[q] = "call" /\ scap[s] = <<q, calls'[q]>> => steer # <<>>
    <3>1. ASSUME NEW s \in Steers, NEW q \in Prompts, q # p,
                 spc[s] = "fire", pc'[q] = "call", scap[s] = <<q, calls'[q]>>
          PROVE  steer # <<>>
      BY <3>1, <2>2
    <3>2. ASSUME NEW s \in Steers, scap[s] = <<p, calls'[p]>> PROVE FALSE
      BY <3>2, <2>1, <2>3
    <3>. QED
      BY <3>1, <3>2
  <2>6. \A q \in Prompts : pc'[q] = "call" /\ callDone'[q] => steer # <<>>
    BY <2>2, <2>3
  <2>7. \A q \in Prompts :
         pc'[q] \in {"ret", "after"} /\ res'[q] = "canceled" => ctxDone[q] \/ steer # <<>>
    BY <2>2, <2>3
  <2>. QED
    BY <2>4, <2>5, <2>6, <2>7
<1>8. ASSUME NEW p \in Prompts, CallRelease(p) PROVE SteerPending'
  BY SMTT(30), <1>8, NoneAssumption DEF CallRelease, Goto, loop, host, history
<1>9. ASSUME NEW p \in Prompts, SteerReissue(p) PROVE SteerPending'
  <2>1. \A q \in Prompts : q # p => pc[q] \notin {"call", "ret", "after"}
    BY <1>9 DEF SteerReissue, LiveRunIsRegistered, Held, Live
  <2>2. \A q \in Prompts : pc'[q] \notin {"call", "ret", "after"}
    BY <1>9, <2>1 DEF SteerReissue, Goto
  <2>. QED
    BY <2>2
<1>10. ASSUME NEW p \in Prompts, OverflowRetry(p) PROVE SteerPending'
  BY SMTT(30), <1>10, NoneAssumption DEF OverflowRetry, Goto, engine, host, history
<1>11. ASSUME NEW p \in Prompts, CallFailed(p) PROVE SteerPending'
  <2>1. \E x \in Labels \ {"call", "ret", "after"} : pc' = [pc EXCEPT ![p] = x]
    BY <1>11 DEF CallFailed, Goto, Stop, engine, loop, host, history, Labels, Held, Live
  <2>. QED
    BY <1>11, <2>1, QuietSteer DEF CallFailed, Goto, Stop, engine, loop, host, history
<1>12. ASSUME NEW p \in Prompts, LoopFinish(p) PROVE SteerPending'
  <2>1. \E x \in Labels \ {"call", "ret", "after"} : pc' = [pc EXCEPT ![p] = x]
    BY <1>12 DEF LoopFinish, Goto, Stop, engine, loop, host, history, Labels, Held, Live
  <2>. QED
    BY <1>12, <2>1, QuietSteer DEF LoopFinish, Goto, Stop, engine, loop, host, history
<1>13. ASSUME NEW p \in Prompts, LoopContinue(p) PROVE SteerPending'
  BY SMTT(30), <1>13, NoneAssumption DEF LoopContinue, Goto, engine, host, history
<1>14. ASSUME NEW p \in Prompts, ToolBoundary(p) PROVE SteerPending'
  <2>1. \A q \in Prompts : q # p => pc[q] \notin {"call", "ret", "after"}
    BY <1>14 DEF ToolBoundary, LiveRunIsRegistered, Held, Live
  <2>2. \A q \in Prompts : pc'[q] \notin {"call", "ret", "after"}
    BY <1>14, <2>1 DEF ToolBoundary, Goto
  <2>. QED
    BY <2>2
<1>15. ASSUME NEW p \in Prompts, ToolStop(p) PROVE SteerPending'
  <2>1. \E x \in Labels \ {"call", "ret", "after"} : pc' = [pc EXCEPT ![p] = x]
    BY <1>15 DEF ToolStop, Goto, Stop, engine, loop, host, history, Labels, Held, Live
  <2>. QED
    BY <1>15, <2>1, QuietSteer DEF ToolStop, Goto, Stop, engine, loop, host, history
<1>16. ASSUME NEW p \in Prompts, PromptCommit(p) PROVE SteerPending'
  <2>1. \E x \in Labels \ {"call", "ret", "after"} : pc' = [pc EXCEPT ![p] = x]
    BY <1>16 DEF PromptCommit, Goto, host, history, Labels, Held, Live
  <2>. QED
    BY <1>16, <2>1, QuietSteer DEF PromptCommit, Goto, host, history
<1>17. ASSUME NEW p \in Prompts, PromptEnd(p) PROVE SteerPending'
  <2>1. \E x \in Labels \ {"call", "ret", "after"} : pc' = [pc EXCEPT ![p] = x]
    BY <1>17 DEF PromptEnd, Goto, loop, host, history, Labels, Held, Live
  <2>. QED
    BY <1>17, <2>1, QuietSteer DEF PromptEnd, Goto, loop, host, history
<1>18. ASSUME NEW p \in Prompts, PromptUnlock(p) PROVE SteerPending'
  <2>1. \E x \in Labels \ {"call", "ret", "after"} : pc' = [pc EXCEPT ![p] = x]
    BY <1>18 DEF PromptUnlock, Goto, loop, host, history, Labels, Held, Live
  <2>. QED
    BY <1>18, <2>1, QuietSteer DEF PromptUnlock, Goto, loop, host, history
<1>19. ASSUME NEW p \in Prompts, ParentCancel(p) PROVE SteerPending'
  BY <1>19, NoneAssumption DEF ParentCancel, CancelCtx, engine, loop, host
<1>20. ASSUME NEW p \in Prompts, NEW r \in Results, CallReturn(p, r) PROVE SteerPending'
  BY SMTT(30), <1>20, NoneAssumption DEF CallReturn, Goto, engine, host, history
<1>21. ASSUME NEW s \in Steers, SteerAppend(s) PROVE SteerPending'
  <2>1. steer' # <<>>
    BY <1>21, Seqs DEF SteerAppend
  <2>. QED
    BY <2>1
<1>22. ASSUME NEW s \in Steers, SteerFire(s) PROVE SteerPending'
  BY <1>22, NoneAssumption DEF SteerFire, engine, history
<1>23. ASSUME NEW c \in Cancels, CancelRead(c) PROVE SteerPending'
  BY <1>23, NoneAssumption DEF CancelRead, engine, run, history, loop
<1>24. ASSUME NEW c \in Cancels, CancelFire(c) PROVE SteerPending'
  <2>1. CASE ctarget[c] = None
    BY <1>24, <2>1 DEF CancelFire, CancelCtx, engine, loop
  <2>2. CASE ctarget[c] # None
    <3>1. ctarget[c] \in Prompts
      BY <2>2
    <3>. QED
      BY ZenonT(60), <1>24, <2>2, <3>1 DEF CancelFire, CancelCtx, engine, loop
  <2>. QED
    BY <2>1, <2>2
<1>25. ASSUME NEW k \in Closes, CloseMark(k) PROVE SteerPending'
  BY <1>25, NoneAssumption DEF CloseMark, run, history, loop
<1>26. ASSUME NEW k \in Closes, CloseRead(k) PROVE SteerPending'
  BY <1>26, NoneAssumption DEF CloseRead, engine, run, history, loop
<1>27. ASSUME NEW k \in Closes, CloseFire(k) PROVE SteerPending'
  <2>1. CASE ktarget[k] = None
    BY <1>27, <2>1, NoneAssumption DEF CloseFire, CancelCtx, engine, loop
  <2>2. CASE ktarget[k] # None
    <3>1. ktarget[k] \in Prompts
      BY <2>2
    <3>. QED
      BY <1>27, <2>2, <3>1, NoneAssumption DEF CloseFire, CancelCtx, engine, loop
  <2>. QED
    BY <2>1, <2>2
<1>28. ASSUME NEW k \in Closes, CloseCleanup(k) PROVE SteerPending'
  BY <1>28, NoneAssumption DEF CloseCleanup, engine, run, history, loop
<1>29. ASSUME NEW f \in Cleanups, RegisterCleanup(f) PROVE SteerPending'
  BY <1>29, NoneAssumption DEF RegisterCleanup, run, history, loop
<1>30. CASE UNCHANGED vars
  BY <1>30 DEF vars, engine, run, loop, host, history
<1>. QED
  BY <1>1, <1>2, <1>3, <1>4, <1>5, <1>6, <1>7, <1>8, <1>9, <1>10, <1>11, <1>12, <1>13, <1>14, <1>15, <1>16, <1>17, <1>18, <1>19, <1>20, <1>21, <1>22, <1>23, <1>24, <1>25, <1>26, <1>27, <1>28, <1>29, <1>30 DEF Next, PromptStep, CancelStep, CloseStep

\* Every step that cancels a run's context, or stops it as cancelled, has a cause.
LEMMA CauseStep ==
  ASSUME TypeOK, SteerPending, CauseInv, [Next]_vars
  PROVE  CauseInv'
<1> USE DEF TypeOK, RunTypeOK, HostTypeOK, SteerPending, CauseInv
<1>1. ASSUME NEW p \in Prompts, PromptCall(p) PROVE CauseInv'
  BY <1>1 DEF PromptCall, Goto, engine, loop, host, history
<1>2. ASSUME NEW p \in Prompts, PromptLock(p) PROVE CauseInv'
  BY <1>2 DEF PromptLock, Goto, loop, host, history
<1>3. ASSUME NEW p \in Prompts, PromptBegin(p) PROVE CauseInv'
  BY ZenonT(60), <1>3 DEF PromptBegin, Goto, Stop, loop, host, history
<1>4. ASSUME NEW p \in Prompts, PromptEnsure(p) PROVE CauseInv'
  <2>1. \A q \in Prompts : q # p => pc'[q] = pc[q] /\ out'[q] = out[q]
    BY <1>4 DEF PromptEnsure, Goto, Stop, engine, loop, host, history
  <2>2. out'[p] = "canceled" => ctxDone[p] \/ out[p] = "canceled"
    BY <1>4 DEF PromptEnsure, Goto, Stop, engine, loop, host, history
  <2>3. pc[p] \notin {"unlock", "done"}
    BY <1>4 DEF PromptEnsure, Goto, Stop, engine, loop, host, history
  <2>4. UNCHANGED <<ctxDone, cause>>
    BY <1>4 DEF PromptEnsure, Goto, Stop, engine, loop, host, history
  <2>. QED
    BY <2>1, <2>2, <2>3, <2>4
<1>5. ASSUME NEW p \in Prompts, PromptSetup(p) PROVE CauseInv'
  BY ZenonT(60), <1>5 DEF PromptSetup, Goto, Stop, engine, loop, host, history
<1>6. ASSUME NEW p \in Prompts, LoopStop(p) PROVE CauseInv'
  BY ZenonT(60), <1>6 DEF LoopStop, Goto, Stop, engine, loop, host, history
<1>7. ASSUME NEW p \in Prompts, LoopCall(p) PROVE CauseInv'
  BY <1>7 DEF LoopCall, Goto, host, history
<1>8. ASSUME NEW p \in Prompts, CallRelease(p) PROVE CauseInv'
  BY <1>8 DEF CallRelease, Goto, loop, host, history
<1>9. ASSUME NEW p \in Prompts, SteerReissue(p) PROVE CauseInv'
  BY <1>9 DEF SteerReissue, Goto, Drain, loop, host, history
<1>10. ASSUME NEW p \in Prompts, OverflowRetry(p) PROVE CauseInv'
  BY <1>10 DEF OverflowRetry, Goto, engine, host, history
<1>11. ASSUME NEW p \in Prompts, CallFailed(p) PROVE CauseInv'
  BY <1>11 DEF CallFailed, Goto, Stop, engine, loop, host, history
<1>12. ASSUME NEW p \in Prompts, LoopFinish(p) PROVE CauseInv'
  BY ZenonT(60), <1>12 DEF LoopFinish, Goto, Stop, engine, loop, host, history
<1>13. ASSUME NEW p \in Prompts, LoopContinue(p) PROVE CauseInv'
  BY <1>13 DEF LoopContinue, Goto, engine, host, history
<1>14. ASSUME NEW p \in Prompts, ToolBoundary(p) PROVE CauseInv'
  BY <1>14 DEF ToolBoundary, Goto, Drain, host, history
<1>15. ASSUME NEW p \in Prompts, ToolStop(p) PROVE CauseInv'
  <2>1. \A q \in Prompts : q # p => pc'[q] = pc[q] /\ out'[q] = out[q]
    BY <1>15 DEF ToolStop, Goto, Stop, engine, loop, host, history
  <2>2. out'[p] = "canceled" => ctxDone[p] \/ out[p] = "canceled"
    BY <1>15 DEF ToolStop, Goto, Stop, engine, loop, host, history
  <2>3. pc[p] \notin {"unlock", "done"}
    BY <1>15 DEF ToolStop, Goto, Stop, engine, loop, host, history
  <2>4. UNCHANGED <<ctxDone, cause>>
    BY <1>15 DEF ToolStop, Goto, Stop, engine, loop, host, history
  <2>. QED
    BY <2>1, <2>2, <2>3, <2>4
<1>16. ASSUME NEW p \in Prompts, PromptCommit(p) PROVE CauseInv'
  BY <1>16 DEF PromptCommit, Goto, host, history
<1>17. ASSUME NEW p \in Prompts, PromptEnd(p) PROVE CauseInv'
  BY <1>17 DEF PromptEnd, Goto, loop, host, history
<1>18. ASSUME NEW p \in Prompts, PromptUnlock(p) PROVE CauseInv'
  BY <1>18 DEF PromptUnlock, Goto, loop, host, history
<1>19. ASSUME NEW p \in Prompts, ParentCancel(p) PROVE CauseInv'
  BY <1>19 DEF ParentCancel, CancelCtx, engine, loop, host
<1>20. ASSUME NEW p \in Prompts, NEW r \in Results, CallReturn(p, r) PROVE CauseInv'
  BY <1>20 DEF CallReturn, Goto, engine, host, history
<1>21. ASSUME NEW s \in Steers, SteerAppend(s) PROVE CauseInv'
  BY <1>21 DEF SteerAppend, run, loop
<1>22. ASSUME NEW s \in Steers, SteerFire(s) PROVE CauseInv'
  BY <1>22 DEF SteerFire, engine, history
<1>23. ASSUME NEW c \in Cancels, CancelRead(c) PROVE CauseInv'
  BY <1>23 DEF CancelRead, engine, run, history, loop
<1>24. ASSUME NEW c \in Cancels, CancelFire(c) PROVE CauseInv'
  BY <1>24 DEF CancelFire, CancelCtx, engine, loop
<1>25. ASSUME NEW k \in Closes, CloseMark(k) PROVE CauseInv'
  BY <1>25 DEF CloseMark, run, history, loop
<1>26. ASSUME NEW k \in Closes, CloseRead(k) PROVE CauseInv'
  BY <1>26 DEF CloseRead, engine, run, history, loop
<1>27. ASSUME NEW k \in Closes, CloseFire(k) PROVE CauseInv'
  BY <1>27 DEF CloseFire, CancelCtx, engine, loop
<1>28. ASSUME NEW k \in Closes, CloseCleanup(k) PROVE CauseInv'
  BY <1>28 DEF CloseCleanup, engine, run, history, loop
<1>29. ASSUME NEW f \in Cleanups, RegisterCleanup(f) PROVE CauseInv'
  BY <1>29 DEF RegisterCleanup, run, history, loop
<1>30. CASE UNCHANGED vars
  BY <1>30 DEF vars, engine, run, loop, host, history
<1>. QED
  BY <1>1, <1>2, <1>3, <1>4, <1>5, <1>6, <1>7, <1>8, <1>9, <1>10, <1>11, <1>12, <1>13, <1>14, <1>15, <1>16, <1>17, <1>18, <1>19, <1>20, <1>21, <1>22, <1>23, <1>24, <1>25, <1>26, <1>27, <1>28, <1>29, <1>30 DEF Next, PromptStep, CancelStep, CloseStep

\* A step keeps what the first Close knows of the live run.
LEMMA CloseInvStep ==
  ASSUME TypeOK, LiveRunIsRegistered, CloseInv, [Next]_vars
  PROVE  CloseInv'
<1> USE DEF TypeOK, EngineTypeOK, RunTypeOK, HostTypeOK, LiveRunIsRegistered, CloseInv, Live, Held
<1>1. ASSUME NEW p \in Prompts, PromptCall(p) PROVE CloseInv'
  BY <1>1, NoneAssumption DEF PromptCall, Goto, engine, loop, host, history
<1>2. ASSUME NEW p \in Prompts, PromptLock(p) PROVE CloseInv'
  BY <1>2, NoneAssumption DEF PromptLock, Goto, loop, host, history
<1>3. ASSUME NEW p \in Prompts, PromptBegin(p) PROVE CloseInv'
  BY SMTT(30), <1>3, NoneAssumption DEF PromptBegin, Goto, Stop, loop, host, history
<1>4. ASSUME NEW p \in Prompts, PromptEnsure(p) PROVE CloseInv'
  BY <1>4, NoneAssumption DEF PromptEnsure, Goto, Stop, engine, loop, host, history
<1>5. ASSUME NEW p \in Prompts, PromptSetup(p) PROVE CloseInv'
  BY <1>5, NoneAssumption DEF PromptSetup, Goto, Stop, engine, loop, host, history
<1>6. ASSUME NEW p \in Prompts, LoopStop(p) PROVE CloseInv'
  BY <1>6, NoneAssumption DEF LoopStop, Goto, Stop, engine, loop, host, history
<1>7. ASSUME NEW p \in Prompts, LoopCall(p) PROVE CloseInv'
  BY <1>7, NoneAssumption DEF LoopCall, Goto, host, history
<1>8. ASSUME NEW p \in Prompts, CallRelease(p) PROVE CloseInv'
  BY <1>8, NoneAssumption DEF CallRelease, Goto, loop, host, history
<1>9. ASSUME NEW p \in Prompts, SteerReissue(p) PROVE CloseInv'
  BY <1>9, NoneAssumption DEF SteerReissue, Goto, Drain, loop, host, history
<1>10. ASSUME NEW p \in Prompts, OverflowRetry(p) PROVE CloseInv'
  BY <1>10, NoneAssumption DEF OverflowRetry, Goto, engine, host, history
<1>11. ASSUME NEW p \in Prompts, CallFailed(p) PROVE CloseInv'
  BY <1>11, NoneAssumption DEF CallFailed, Goto, Stop, engine, loop, host, history
<1>12. ASSUME NEW p \in Prompts, LoopFinish(p) PROVE CloseInv'
  BY <1>12, NoneAssumption DEF LoopFinish, Goto, Stop, engine, loop, host, history
<1>13. ASSUME NEW p \in Prompts, LoopContinue(p) PROVE CloseInv'
  BY <1>13, NoneAssumption DEF LoopContinue, Goto, engine, host, history
<1>14. ASSUME NEW p \in Prompts, ToolBoundary(p) PROVE CloseInv'
  BY <1>14, NoneAssumption DEF ToolBoundary, Goto, Drain, host, history
<1>15. ASSUME NEW p \in Prompts, ToolStop(p) PROVE CloseInv'
  BY SMTT(30), <1>15, NoneAssumption DEF ToolStop, Goto, Stop, engine, loop, host, history
<1>16. ASSUME NEW p \in Prompts, PromptCommit(p) PROVE CloseInv'
  BY <1>16, NoneAssumption DEF PromptCommit, Goto, host, history
<1>17. ASSUME NEW p \in Prompts, PromptEnd(p) PROVE CloseInv'
  BY <1>17, NoneAssumption DEF PromptEnd, Goto, loop, host, history
<1>18. ASSUME NEW p \in Prompts, PromptUnlock(p) PROVE CloseInv'
  BY <1>18, NoneAssumption DEF PromptUnlock, Goto, loop, host, history
<1>19. ASSUME NEW p \in Prompts, ParentCancel(p) PROVE CloseInv'
  BY <1>19, NoneAssumption DEF ParentCancel, CancelCtx, engine, loop, host
<1>20. ASSUME NEW p \in Prompts, NEW r \in Results, CallReturn(p, r) PROVE CloseInv'
  BY <1>20, NoneAssumption DEF CallReturn, Goto, engine, host, history
<1>21. ASSUME NEW s \in Steers, SteerAppend(s) PROVE CloseInv'
  BY <1>21, NoneAssumption DEF SteerAppend, run, loop
<1>22. ASSUME NEW s \in Steers, SteerFire(s) PROVE CloseInv'
  BY <1>22, NoneAssumption DEF SteerFire, engine, history
<1>23. ASSUME NEW c \in Cancels, CancelRead(c) PROVE CloseInv'
  BY <1>23, NoneAssumption DEF CancelRead, engine, run, history, loop
<1>24. ASSUME NEW c \in Cancels, CancelFire(c) PROVE CloseInv'
  <2>1. CASE ctarget[c] = None
    BY <1>24, <2>1 DEF CancelFire, CancelCtx, engine, loop
  <2>2. CASE ctarget[c] # None
    <3>1. ctarget[c] \in Prompts
      BY <2>2
    <3>2. /\ CancelCtx(ctarget[c], "cancel")
          /\ UNCHANGED <<closed, pc, kpc, ktarget>>
      BY <1>24, <2>2 DEF CancelFire, engine
    <3>3. \A q \in Prompts : ctxDone[q] => ctxDone'[q]
      BY <3>1, <3>2, CtxCancelled
    <3>. QED
      BY <3>2, <3>3
  <2>. QED
    BY <2>1, <2>2
<1>25. ASSUME NEW k \in Closes, CloseMark(k) PROVE CloseInv'
  <2>1. CASE closed
    <3>1. \A j \in Closes :
           kpc'[j] \in {"read", "fire", "cleanup", "done"} => kpc'[j] = kpc[j]
      BY <1>25, <2>1 DEF CloseMark
    <3>2. UNCHANGED <<closed, ktarget, pc, ctxDone>>
      BY <1>25, <2>1 DEF CloseMark, run
    <3>. QED
      BY <3>1, <3>2
  <2>2. CASE ~closed
    <3>1. \A j \in Closes : kpc'[j] \in {"read", "fire", "cleanup", "done"} => j = k /\ kpc'[j] = "read"
      BY <1>25, <2>2 DEF CloseMark
    <3>2. closed'
      BY <1>25, <2>2 DEF CloseMark
    <3>. QED
      BY <3>1, <3>2
  <2>. QED
    BY <2>1, <2>2
<1>26. ASSUME NEW k \in Closes, CloseRead(k) PROVE CloseInv'
  BY <1>26, NoneAssumption DEF CloseRead, engine, run, history, loop
<1>27. ASSUME NEW k \in Closes, CloseFire(k) PROVE CloseInv'
  <2>1. CASE ktarget[k] = None
    <3>1. \A p \in Prompts : pc[p] \in Live => ctxDone[p]
      BY <1>27, <2>1, NoneAssumption DEF CloseFire
    <3>2. UNCHANGED <<ctxDone, pc, closed, ktarget>>
          /\ kpc' = [kpc EXCEPT ![k] = "cleanup"]
      BY <1>27, <2>1 DEF CloseFire, CancelCtx, engine, loop
    <3>. QED
      BY <1>27, <3>1, <3>2 DEF CloseFire
  <2>2. CASE ktarget[k] # None
    <3>1. ktarget[k] \in Prompts
      BY <2>2
    <3>2. /\ ctxDone' = [ctxDone EXCEPT ![ktarget[k]] = TRUE]
          /\ kpc' = [kpc EXCEPT ![k] = "cleanup"]
          /\ UNCHANGED <<pc, closed, ktarget>>
      BY <1>27, <2>2 DEF CloseFire, CancelCtx, engine, loop
    <3>3. \A p \in Prompts : pc[p] \in Live => ctxDone'[p]
      BY <1>27, <3>1, <3>2 DEF CloseFire
    <3>4. \A p \in Prompts : ctxDone[p] => ctxDone'[p]
      BY <3>1, <3>2
    <3>. QED
      BY <1>27, <3>2, <3>3, <3>4 DEF CloseFire
  <2>. QED
    BY <2>1, <2>2
<1>28. ASSUME NEW k \in Closes, CloseCleanup(k) PROVE CloseInv'
  BY <1>28, NoneAssumption DEF CloseCleanup, engine, run, history, loop
<1>29. ASSUME NEW f \in Cleanups, RegisterCleanup(f) PROVE CloseInv'
  BY <1>29, NoneAssumption DEF RegisterCleanup, run, history, loop
<1>30. CASE UNCHANGED vars
  BY <1>30 DEF vars, engine, run, loop, host, history
<1>. QED
  BY <1>1, <1>2, <1>3, <1>4, <1>5, <1>6, <1>7, <1>8, <1>9, <1>10, <1>11, <1>12, <1>13, <1>14, <1>15, <1>16, <1>17, <1>18, <1>19, <1>20, <1>21, <1>22, <1>23, <1>24, <1>25, <1>26, <1>27, <1>28, <1>29, <1>30 DEF Next, PromptStep, CancelStep, CloseStep

\* A step keeps every run within its budget of calls.
LEMMA BudgetStep ==
  ASSUME TypeOK, BudgetInv, [Next]_vars
  PROVE  BudgetInv'
<1> USE DEF TypeOK, EngineTypeOK, RunTypeOK, BudgetInv, Budget, Live, Held
<1>1. ASSUME NEW p \in Prompts, PromptCall(p) PROVE BudgetInv'
  BY <1>1 DEF PromptCall, Goto, engine, loop, host, history
<1>2. ASSUME NEW p \in Prompts, PromptLock(p) PROVE BudgetInv'
  BY <1>2 DEF PromptLock, Goto, loop, host, history
<1>3. ASSUME NEW p \in Prompts, PromptBegin(p) PROVE BudgetInv'
  BY <1>3 DEF PromptBegin, Goto, Stop, loop, host, history
<1>4. ASSUME NEW p \in Prompts, PromptEnsure(p) PROVE BudgetInv'
  BY <1>4 DEF PromptEnsure, Goto, Stop, engine, loop, host, history
<1>5. ASSUME NEW p \in Prompts, PromptSetup(p) PROVE BudgetInv'
  BY <1>5 DEF PromptSetup, Goto, Stop, engine, loop, host, history
<1>6. ASSUME NEW p \in Prompts, LoopStop(p) PROVE BudgetInv'
  BY <1>6, BoundsAssumption, LenProperties DEF LoopStop, Goto, Stop, engine, loop, host, history
<1>7. ASSUME NEW p \in Prompts, LoopCall(p) PROVE BudgetInv'
  <2>1. /\ \A q \in Prompts : /\ calls[q] \in Nat /\ turns[q] \in Nat
                                 /\ overflow[q] \in Nat /\ Len(heard[q]) \in Nat
        /\ MaxTurns \in Nat /\ MaxOverflow \in Nat
    BY BoundsAssumption, LenProperties
  <2>8. ASSUME NEW q \in Prompts, q # p PROVE Budget(q)'
    BY <1>7, <2>1, <2>8 DEF LoopCall, Goto, host, history
  <2>7. pc'[p] = "call" /\ calls'[p] = calls[p] + 1
        /\ turns'[p] = turns[p] /\ overflow'[p] = overflow[p] /\ heard'[p] = heard[p]
    BY <1>7, <2>1 DEF LoopCall, Goto, host, history
  <2>9. Budget(p)'
    <3>1. calls[p] <= turns[p] + overflow[p] + Len(heard[p]) 
          /\ turns[p] < MaxTurns /\ overflow[p] <= MaxOverflow 
      BY <1>7 DEF LoopCall
    <3>2. Len(heard'[p]) = Len(heard[p])
      BY <2>7
    <3> HIDE DEF TypeOK, EngineTypeOK, RunTypeOK, BudgetInv, Budget
    <3>3. calls'[p] <= turns[p] + overflow[p] + Len(heard'[p]) + 1
      BY <2>1, <2>7, <3>1, <3>2
    <3>7. calls'[p] \in Nat /\ Len(heard'[p]) \in Nat
      BY <2>1, <2>7
    <3>4. calls'[p] <= MaxTurns + MaxOverflow + Len(heard'[p])
      BY <2>1, <3>1, <3>3, <3>7, CallsWithin
    <3>5. turns'[p] <= MaxTurns /\ overflow'[p] <= MaxOverflow
      BY <2>1, <2>7, <3>1
    <3>6. turns'[p] < MaxTurns /\ calls'[p] <= turns'[p] + overflow'[p] + Len(heard'[p]) + 1
      BY <2>1, <2>7, <3>1, <3>2
    <3>. QED
      BY <2>7, <3>4, <3>5, <3>6 DEF Budget
  <2>. QED
    BY <2>8, <2>9
<1>8. ASSUME NEW p \in Prompts, CallRelease(p) PROVE BudgetInv'
  BY <1>8 DEF CallRelease, Goto, loop, host, history
<1>9. ASSUME NEW p \in Prompts, SteerReissue(p) PROVE BudgetInv'
  <2>1. /\ \A q \in Prompts : /\ calls[q] \in Nat /\ turns[q] \in Nat
                                 /\ overflow[q] \in Nat /\ Len(heard[q]) \in Nat
        /\ MaxTurns \in Nat /\ MaxOverflow \in Nat
    BY BoundsAssumption, LenProperties
  <2>2. heard'[p] = heard[p] \o steer
    BY <1>9 DEF SteerReissue, Drain
  <2>3. /\ Len(heard'[p]) \in Nat /\ Len(heard'[p]) >= Len(heard[p])
        /\ steer # <<>> => Len(heard'[p]) > Len(heard[p])
    <3>1. Len(heard'[p]) = Len(heard[p]) + Len(steer)
      BY <2>2, ConcatProperties
    <3>2. Len(steer) \in Nat /\ (steer # <<>> => Len(steer) >= 1)
      BY LenProperties, EmptySeq
    <3>. QED
      BY <2>1, <3>1, <3>2
  <2>4. \A q \in Prompts : q # p => heard'[q] = heard[q]
    BY <1>9 DEF SteerReissue, Drain
  <2>8. ASSUME NEW q \in Prompts, q # p PROVE Budget(q)'
    BY <1>9, <2>1, <2>8, <2>4 DEF SteerReissue, Goto, Drain, loop, host, history
  <2>7. pc'[p] = "turn" /\ calls'[p] = calls[p]
        /\ turns'[p] = turns[p] /\ overflow'[p] = overflow[p]
    BY <1>9, <2>1 DEF SteerReissue, Goto, Drain, loop, host, history
  <2>9. Budget(p)'
    <3>1. calls[p] <= turns[p] + overflow[p] + Len(heard[p]) + 1
          /\ turns[p] < MaxTurns /\ overflow[p] <= MaxOverflow /\ steer # <<>>
      BY <1>9 DEF SteerReissue
    <3> HIDE DEF TypeOK, EngineTypeOK, RunTypeOK, BudgetInv, Budget
    <3>3. calls'[p] <= turns[p] + overflow[p] + Len(heard'[p]) + 1
      BY SMTT(30), <2>1, <2>3, <2>7, <3>1
    <3>4. calls'[p] <= MaxTurns + MaxOverflow + Len(heard'[p])
      BY <2>1, <2>3, <2>7, <3>1, <3>3, CallsWithin
    <3>5. turns'[p] <= MaxTurns /\ overflow'[p] <= MaxOverflow
      BY <2>1, <2>7, <3>1
    <3>6. calls'[p] <= turns'[p] + overflow'[p] + Len(heard'[p])
      BY SMTT(30), <2>1, <2>3, <2>7, <3>1, <3>3
    <3>. QED
      BY <2>7, <3>4, <3>5, <3>6 DEF Budget
  <2>. QED
    BY <2>8, <2>9
<1>10. ASSUME NEW p \in Prompts, OverflowRetry(p) PROVE BudgetInv'
  <2>1. /\ \A q \in Prompts : /\ calls[q] \in Nat /\ turns[q] \in Nat
                                 /\ overflow[q] \in Nat /\ Len(heard[q]) \in Nat
        /\ MaxTurns \in Nat /\ MaxOverflow \in Nat
    BY BoundsAssumption, LenProperties
  <2>8. ASSUME NEW q \in Prompts, q # p PROVE Budget(q)'
    BY <1>10, <2>1, <2>8 DEF OverflowRetry, Goto, engine, host, history
  <2>7. pc'[p] = "turn" /\ calls'[p] = calls[p]
        /\ turns'[p] = turns[p] /\ overflow'[p] = overflow[p] + 1 /\ heard'[p] = heard[p]
    BY <1>10, <2>1 DEF OverflowRetry, Goto, engine, host, history
  <2>9. Budget(p)'
    <3>1. calls[p] <= turns[p] + overflow[p] + Len(heard[p]) + 1
          /\ turns[p] < MaxTurns /\ overflow[p] <= MaxOverflow /\ overflow[p] < MaxOverflow
      BY <1>10 DEF OverflowRetry
    <3>2. Len(heard'[p]) = Len(heard[p])
      BY <2>7
    <3> HIDE DEF TypeOK, EngineTypeOK, RunTypeOK, BudgetInv, Budget
    <3>3. calls'[p] <= turns[p] + overflow[p] + Len(heard'[p]) + 1
      BY <2>1, <2>7, <3>1, <3>2
    <3>7. calls'[p] \in Nat /\ Len(heard'[p]) \in Nat
      BY <2>1, <2>7
    <3>4. calls'[p] <= MaxTurns + MaxOverflow + Len(heard'[p])
      BY <2>1, <3>1, <3>3, <3>7, CallsWithin
    <3>5. turns'[p] <= MaxTurns /\ overflow'[p] <= MaxOverflow
      BY <2>1, <2>7, <3>1
    <3>6. calls'[p] <= turns'[p] + overflow'[p] + Len(heard'[p])
      BY SMTT(30), <2>1, <2>7, <3>1, <3>2
    <3>. QED
      BY <2>7, <3>4, <3>5, <3>6 DEF Budget
  <2>. QED
    BY <2>8, <2>9
<1>11. ASSUME NEW p \in Prompts, CallFailed(p) PROVE BudgetInv'
  BY <1>11 DEF CallFailed, Goto, Stop, engine, loop, host, history
<1>12. ASSUME NEW p \in Prompts, LoopFinish(p) PROVE BudgetInv'
  BY <1>12 DEF LoopFinish, Goto, Stop, engine, loop, host, history
<1>13. ASSUME NEW p \in Prompts, LoopContinue(p) PROVE BudgetInv'
  <2>1. /\ \A q \in Prompts : /\ calls[q] \in Nat /\ turns[q] \in Nat
                                 /\ overflow[q] \in Nat /\ Len(heard[q]) \in Nat
        /\ MaxTurns \in Nat /\ MaxOverflow \in Nat
    BY BoundsAssumption, LenProperties
  <2>8. ASSUME NEW q \in Prompts, q # p PROVE Budget(q)'
    BY <1>13, <2>1, <2>8 DEF LoopContinue, Goto, engine, host, history
  <2>7. pc'[p] = "turn" /\ calls'[p] = calls[p]
        /\ turns'[p] = turns[p] + 1 /\ overflow'[p] = overflow[p] /\ heard'[p] = heard[p]
    BY <1>13, <2>1 DEF LoopContinue, Goto, engine, host, history
  <2>9. Budget(p)'
    <3>1. calls[p] <= turns[p] + overflow[p] + Len(heard[p]) + 1
          /\ turns[p] < MaxTurns /\ overflow[p] <= MaxOverflow 
      BY <1>13 DEF LoopContinue
    <3>2. Len(heard'[p]) = Len(heard[p])
      BY <2>7
    <3> HIDE DEF TypeOK, EngineTypeOK, RunTypeOK, BudgetInv, Budget
    <3>3. calls'[p] <= turns[p] + overflow[p] + Len(heard'[p]) + 1
      BY <2>1, <2>7, <3>1, <3>2
    <3>7. calls'[p] \in Nat /\ Len(heard'[p]) \in Nat
      BY <2>1, <2>7
    <3>4. calls'[p] <= MaxTurns + MaxOverflow + Len(heard'[p])
      BY <2>1, <3>1, <3>3, <3>7, CallsWithin
    <3>5. turns'[p] <= MaxTurns /\ overflow'[p] <= MaxOverflow
      BY <2>1, <2>7, <3>1
    <3>6. calls'[p] <= turns'[p] + overflow'[p] + Len(heard'[p])
      BY <2>1, <2>7, <3>1, <3>2
    <3>. QED
      BY <2>7, <3>4, <3>5, <3>6 DEF Budget
  <2>. QED
    BY <2>8, <2>9
<1>14. ASSUME NEW p \in Prompts, ToolBoundary(p) PROVE BudgetInv'
  <2>1. /\ \A q \in Prompts : /\ calls[q] \in Nat /\ turns[q] \in Nat
                                 /\ overflow[q] \in Nat /\ Len(heard[q]) \in Nat
        /\ MaxTurns \in Nat /\ MaxOverflow \in Nat
    BY BoundsAssumption, LenProperties
  <2>2. heard'[p] = heard[p] \o steer
    BY <1>14 DEF ToolBoundary, Drain
  <2>3. /\ Len(heard'[p]) \in Nat /\ Len(heard'[p]) >= Len(heard[p])
        /\ steer # <<>> => Len(heard'[p]) > Len(heard[p])
    <3>1. Len(heard'[p]) = Len(heard[p]) + Len(steer)
      BY <2>2, ConcatProperties
    <3>2. Len(steer) \in Nat /\ (steer # <<>> => Len(steer) >= 1)
      BY LenProperties, EmptySeq
    <3>. QED
      BY <2>1, <3>1, <3>2
  <2>4. \A q \in Prompts : q # p => heard'[q] = heard[q]
    BY <1>14 DEF ToolBoundary, Drain
  <2>8. ASSUME NEW q \in Prompts, q # p PROVE Budget(q)'
    BY <1>14, <2>1, <2>8, <2>4 DEF ToolBoundary, Goto, Drain, host, history
  <2>7. pc'[p] = "turn" /\ calls'[p] = calls[p]
        /\ turns'[p] = turns[p] + 1 /\ overflow'[p] = overflow[p]
    BY <1>14, <2>1 DEF ToolBoundary, Goto, Drain, host, history
  <2>9. Budget(p)'
    <3>1. calls[p] <= turns[p] + overflow[p] + Len(heard[p]) + 1
          /\ turns[p] < MaxTurns /\ overflow[p] <= MaxOverflow 
      BY <1>14 DEF ToolBoundary
    <3> HIDE DEF TypeOK, EngineTypeOK, RunTypeOK, BudgetInv, Budget
    <3>3. calls'[p] <= turns[p] + overflow[p] + Len(heard'[p]) + 1
      BY SMTT(30), <2>1, <2>3, <2>7, <3>1
    <3>4. calls'[p] <= MaxTurns + MaxOverflow + Len(heard'[p])
      BY <2>1, <2>3, <2>7, <3>1, <3>3, CallsWithin
    <3>5. turns'[p] <= MaxTurns /\ overflow'[p] <= MaxOverflow
      BY <2>1, <2>7, <3>1
    <3>6. calls'[p] <= turns'[p] + overflow'[p] + Len(heard'[p])
      BY <2>1, <2>3, <2>7, <3>1, <3>3
    <3>. QED
      BY <2>7, <3>4, <3>5, <3>6 DEF Budget
  <2>. QED
    BY <2>8, <2>9
<1>15. ASSUME NEW p \in Prompts, ToolStop(p) PROVE BudgetInv'
  BY ZenonT(60), <1>15 DEF ToolStop, Goto, Stop, engine, loop, host, history
<1>16. ASSUME NEW p \in Prompts, PromptCommit(p) PROVE BudgetInv'
  BY <1>16, BoundsAssumption, LenProperties DEF PromptCommit, Goto, host, history
<1>17. ASSUME NEW p \in Prompts, PromptEnd(p) PROVE BudgetInv'
  BY <1>17 DEF PromptEnd, Goto, loop, host, history
<1>18. ASSUME NEW p \in Prompts, PromptUnlock(p) PROVE BudgetInv'
  BY <1>18 DEF PromptUnlock, Goto, loop, host, history
<1>19. ASSUME NEW p \in Prompts, ParentCancel(p) PROVE BudgetInv'
  BY <1>19 DEF ParentCancel, CancelCtx, engine, loop, host
<1>20. ASSUME NEW p \in Prompts, NEW r \in Results, CallReturn(p, r) PROVE BudgetInv'
  BY <1>20 DEF CallReturn, Goto, engine, host, history
<1>21. ASSUME NEW s \in Steers, SteerAppend(s) PROVE BudgetInv'
  BY <1>21 DEF SteerAppend, run, loop
<1>22. ASSUME NEW s \in Steers, SteerFire(s) PROVE BudgetInv'
  BY <1>22 DEF SteerFire, engine, history
<1>23. ASSUME NEW c \in Cancels, CancelRead(c) PROVE BudgetInv'
  BY <1>23 DEF CancelRead, engine, run, history, loop
<1>24. ASSUME NEW c \in Cancels, CancelFire(c) PROVE BudgetInv'
  BY <1>24 DEF CancelFire, CancelCtx, engine, loop
<1>25. ASSUME NEW k \in Closes, CloseMark(k) PROVE BudgetInv'
  BY <1>25 DEF CloseMark, run, history, loop
<1>26. ASSUME NEW k \in Closes, CloseRead(k) PROVE BudgetInv'
  BY <1>26 DEF CloseRead, engine, run, history, loop
<1>27. ASSUME NEW k \in Closes, CloseFire(k) PROVE BudgetInv'
  BY <1>27 DEF CloseFire, CancelCtx, engine, loop
<1>28. ASSUME NEW k \in Closes, CloseCleanup(k) PROVE BudgetInv'
  BY <1>28 DEF CloseCleanup, engine, run, history, loop
<1>29. ASSUME NEW f \in Cleanups, RegisterCleanup(f) PROVE BudgetInv'
  BY <1>29 DEF RegisterCleanup, run, history, loop
<1>30. CASE UNCHANGED vars
  BY <1>30 DEF vars, engine, run, loop, host, history
<1>. QED
  BY <1>1, <1>2, <1>3, <1>4, <1>5, <1>6, <1>7, <1>8, <1>9, <1>10, <1>11, <1>12, <1>13, <1>14, <1>15, <1>16, <1>17, <1>18, <1>19, <1>20, <1>21, <1>22, <1>23, <1>24, <1>25, <1>26, <1>27, <1>28, <1>29, <1>30 DEF Next, PromptStep, CancelStep, CloseStep

-----------------------------------------------------------------------------
\* Where the steers of a run are: none before it begins, all of them in its
\* messages or pending while it is live, a prefix of them in its messages after.
Books(p) ==
  /\ pc[p] \in {"idle", "wait", "begin"} => heard[p] = <<>> /\ sent[p] = <<>>
  /\ pc[p] \in Live => heard[p] \o steer = sent[p]
  /\ \E rest \in Seq(Steers) : sent[p] = heard[p] \o rest

BooksInv == \A p \in Prompts : Books(p)

\* Facts on concatenation, for steers.
LEMMA Joins ==
  /\ \A s \in Seq(Steers) : s \o <<>> = s
  /\ \A s, t \in Seq(Steers), e \in Steers : s \o Append(t, e) = Append(s \o t, e)
<1>1. \A s \in Seq(Steers) : s \o <<>> = s
  BY ConcatEmptySeq
<1>2. ASSUME NEW s \in Seq(Steers), NEW t \in Seq(Steers), NEW e \in Steers
      PROVE  s \o Append(t, e) = Append(s \o t, e)
  <2>1. /\ Append(t, e) = t \o <<e>>
        /\ s \o t \in Seq(Steers) /\ Append(s \o t, e) = (s \o t) \o <<e>>
    BY AppendIsConcat, ConcatProperties
  <2>2. <<e>> \in Seq(Steers)
    OBVIOUS
  <2>3. (s \o t) \o <<e>> = s \o (t \o <<e>>)
    BY <2>2, ConcatAssociative
  <2>. QED
    BY <2>1, <2>3
<1>. QED
  BY <1>1, <1>2

\* The first part of a concatenation is its prefix of that length.
LEMMA Prefix ==
  ASSUME NEW S, NEW s \in Seq(S), NEW t \in Seq(S)
  PROVE  \E n \in 0..Len(s \o t) : s = SubSeq(s \o t, 1, n)
<1>1. Len(s) \in Nat /\ Len(t) \in Nat /\ Len(s \o t) = Len(s) + Len(t)
  BY LenProperties, ConcatProperties
<1>2. CASE s = <<>>
  <2>1. SubSeq(s \o t, 1, 0) = <<>>
    BY SubSeqEmpty
  <2>. QED
    BY <1>1, <1>2, <2>1
<1>3. CASE s # <<>>
  <2>1. Len(s) \in 1..Len(s) /\ 1 \in 1..Len(s)
    BY <1>1, <1>3, EmptySeq
  <2>2. SubSeq(s \o t, 1, Len(s)) = SubSeq(s, 1, Len(s))
    BY <2>1, SubSeqOfConcat1
  <2>3. SubSeq(s, 1, Len(s)) = s
    BY SubSeqFull
  <2>4. s = SubSeq(s \o t, 1, Len(s))
    BY <2>2, <2>3
  <2>5. Len(s) \in 0..Len(s \o t)
    BY <1>1
  <2>. QED
    BY <2>4, <2>5
<1>. QED
  BY <1>2, <1>3

\* What a step does to the steers of the prompts it does not touch, and of one it
\* only moves.
LEMMA QuietBooks ==
  ASSUME BooksInv, NEW p \in Prompts, NEW x \in Labels,
         pc \in [Prompts -> Labels], pc' = [pc EXCEPT ![p] = x],
         x \in {"idle", "wait", "begin"} => pc[p] \in {"idle", "wait", "begin"},
         x \in Live => pc[p] \in Live,
         UNCHANGED <<steer, heard, sent>>
  PROVE  BooksInv'
<1>1. \A q \in Prompts :
        /\ pc'[q] \in {"idle", "wait", "begin"} => pc[q] \in {"idle", "wait", "begin"}
        /\ pc'[q] \in Live => pc[q] \in Live
  OBVIOUS
<1>. QED
  BY <1>1 DEF BooksInv, Books

\* A step neither loses nor doubles a steer of a live run.
LEMMA BooksStep ==
  ASSUME TypeOK, LiveRunIsRegistered, BooksInv, [Next]_vars
  PROVE  BooksInv'
<1> USE DEF TypeOK, EngineTypeOK, RunTypeOK
<1>1. ASSUME NEW p \in Prompts, PromptCall(p) PROVE BooksInv'
  <2>1. pc' = [pc EXCEPT ![p] = "wait"] /\ UNCHANGED <<steer, heard, sent>>
    BY <1>1 DEF PromptCall, Goto, engine, loop, host, history
  <2>2. pc[p] = "idle"
    BY <1>1 DEF PromptCall
  <2>. QED
    BY <2>1, <2>2, QuietBooks DEF Labels, Held, Live
<1>2. ASSUME NEW p \in Prompts, PromptLock(p) PROVE BooksInv'
  <2>1. pc' = [pc EXCEPT ![p] = "begin"] /\ UNCHANGED <<steer, heard, sent>>
    BY <1>2 DEF PromptLock, Goto, loop, host, history
  <2>2. pc[p] = "wait"
    BY <1>2 DEF PromptLock
  <2>. QED
    BY <2>1, <2>2, QuietBooks DEF Labels, Held, Live
<1>3. ASSUME NEW p \in Prompts, PromptBegin(p) PROVE BooksInv'
  <2>1. CASE closed
    <3>1. pc' = [pc EXCEPT ![p] = "unlock"] /\ UNCHANGED <<steer, heard, sent>>
      BY <1>3, <2>1 DEF PromptBegin, Goto, Stop, history
    <3>. QED
      BY <3>1, QuietBooks DEF Labels, Held, Live
  <2>2. CASE ~closed
    <3>1. ASSUME NEW q \in Prompts, q # p PROVE Books(q)'
      <4>1. pc[q] \notin Live /\ pc'[q] = pc[q]
        BY <1>3, <3>1, <2>2 DEF PromptBegin, Goto, LiveRunIsRegistered, Held
      <4>2. UNCHANGED <<heard, sent>>
        BY <1>3 DEF PromptBegin, history
      <4>. QED
        BY <4>1, <4>2 DEF BooksInv, Books
    <3>2. Books(p)'
      <4>1. pc'[p] = "ensure" /\ steer' = <<>> /\ UNCHANGED <<heard, sent>>
        BY <1>3, <2>2 DEF PromptBegin, Goto, history
      <4>2. heard[p] = <<>> /\ sent[p] = <<>>
        BY <1>3 DEF PromptBegin, BooksInv, Books
      <4>3. <<>> \o <<>> = <<>> /\ <<>> \in Seq(Steers)
        BY Joins, Seqs
      <4>. QED
        BY <4>1, <4>2, <4>3 DEF Books
    <3>. QED
      BY <3>1, <3>2 DEF BooksInv
  <2>. QED
    BY <2>1, <2>2
<1>4. ASSUME NEW p \in Prompts, PromptEnsure(p) PROVE BooksInv'
  <2>1. /\ \E x \in Labels \ {"idle"} :
              /\ pc' = [pc EXCEPT ![p] = x]
              /\ x \in {"wait", "begin"} => pc[p] \in {"idle", "wait", "begin"}
              /\ x \in Live => pc[p] \in Live
        /\ UNCHANGED <<steer, heard, sent>>
    BY <1>4 DEF PromptEnsure, Goto, Stop, engine, loop, host, history, Labels, Held, Live
  <2>. QED
    BY <2>1, QuietBooks
<1>5. ASSUME NEW p \in Prompts, PromptSetup(p) PROVE BooksInv'
  <2>1. /\ \E x \in Labels \ {"idle"} :
              /\ pc' = [pc EXCEPT ![p] = x]
              /\ x \in {"wait", "begin"} => pc[p] \in {"idle", "wait", "begin"}
              /\ x \in Live => pc[p] \in Live
        /\ UNCHANGED <<steer, heard, sent>>
    BY <1>5 DEF PromptSetup, Goto, Stop, engine, loop, host, history, Labels, Held, Live
  <2>. QED
    BY <2>1, QuietBooks
<1>6. ASSUME NEW p \in Prompts, LoopStop(p) PROVE BooksInv'
  <2>1. /\ \E x \in Labels \ {"idle"} :
              /\ pc' = [pc EXCEPT ![p] = x]
              /\ x \in {"wait", "begin"} => pc[p] \in {"idle", "wait", "begin"}
              /\ x \in Live => pc[p] \in Live
        /\ UNCHANGED <<steer, heard, sent>>
    BY <1>6 DEF LoopStop, Goto, Stop, engine, loop, host, history, Labels, Held, Live
  <2>. QED
    BY <2>1, QuietBooks
<1>7. ASSUME NEW p \in Prompts, LoopCall(p) PROVE BooksInv'
  <2>1. /\ \E x \in Labels \ {"idle"} :
              /\ pc' = [pc EXCEPT ![p] = x]
              /\ x \in {"wait", "begin"} => pc[p] \in {"idle", "wait", "begin"}
              /\ x \in Live => pc[p] \in Live
        /\ UNCHANGED <<steer, heard, sent>>
    BY <1>7 DEF LoopCall, Goto, host, history, Labels, Held, Live
  <2>. QED
    BY <2>1, QuietBooks
<1>8. ASSUME NEW p \in Prompts, CallRelease(p) PROVE BooksInv'
  <2>1. /\ \E x \in Labels \ {"idle"} :
              /\ pc' = [pc EXCEPT ![p] = x]
              /\ x \in {"wait", "begin"} => pc[p] \in {"idle", "wait", "begin"}
              /\ x \in Live => pc[p] \in Live
        /\ UNCHANGED <<steer, heard, sent>>
    BY <1>8 DEF CallRelease, Goto, loop, host, history, Labels, Held, Live
  <2>. QED
    BY <2>1, QuietBooks
<1>9. ASSUME NEW p \in Prompts, SteerReissue(p) PROVE BooksInv'
  <2>1. ASSUME NEW q \in Prompts, q # p PROVE Books(q)'
    <3>1. pc[q] \notin Live /\ pc'[q] = pc[q] /\ heard'[q] = heard[q] /\ sent' = sent
      BY <1>9, <2>1 DEF SteerReissue, Drain, Goto, LiveRunIsRegistered, Held, Live, history
    <3>. QED
      BY <3>1 DEF BooksInv, Books
  <2>2. Books(p)'
    <3>1. /\ pc'[p] = "turn" /\ heard'[p] = heard[p] \o steer
          /\ steer' = <<>> /\ sent' = sent
      BY <1>9 DEF SteerReissue, Drain, Goto, history
    <3>2. heard[p] \o steer = sent[p]
      BY <1>9 DEF SteerReissue, BooksInv, Books, Live
    <3>3. sent[p] \o <<>> = sent[p] /\ <<>> \in Seq(Steers)
      BY Joins, Seqs
    <3>. QED
      BY <3>1, <3>2, <3>3 DEF Books
  <2>. QED
    BY <2>1, <2>2 DEF BooksInv
<1>10. ASSUME NEW p \in Prompts, OverflowRetry(p) PROVE BooksInv'
  <2>1. /\ \E x \in Labels \ {"idle"} :
              /\ pc' = [pc EXCEPT ![p] = x]
              /\ x \in {"wait", "begin"} => pc[p] \in {"idle", "wait", "begin"}
              /\ x \in Live => pc[p] \in Live
        /\ UNCHANGED <<steer, heard, sent>>
    BY <1>10 DEF OverflowRetry, Goto, engine, host, history, Labels, Held, Live
  <2>. QED
    BY <2>1, QuietBooks
<1>11. ASSUME NEW p \in Prompts, CallFailed(p) PROVE BooksInv'
  <2>1. /\ \E x \in Labels \ {"idle"} :
              /\ pc' = [pc EXCEPT ![p] = x]
              /\ x \in {"wait", "begin"} => pc[p] \in {"idle", "wait", "begin"}
              /\ x \in Live => pc[p] \in Live
        /\ UNCHANGED <<steer, heard, sent>>
    BY <1>11 DEF CallFailed, Goto, Stop, engine, loop, host, history, Labels, Held, Live
  <2>. QED
    BY <2>1, QuietBooks
<1>12. ASSUME NEW p \in Prompts, LoopFinish(p) PROVE BooksInv'
  <2>1. /\ \E x \in Labels \ {"idle"} :
              /\ pc' = [pc EXCEPT ![p] = x]
              /\ x \in {"wait", "begin"} => pc[p] \in {"idle", "wait", "begin"}
              /\ x \in Live => pc[p] \in Live
        /\ UNCHANGED <<steer, heard, sent>>
    BY <1>12 DEF LoopFinish, Goto, Stop, engine, loop, host, history, Labels, Held, Live
  <2>. QED
    BY <2>1, QuietBooks
<1>13. ASSUME NEW p \in Prompts, LoopContinue(p) PROVE BooksInv'
  <2>1. /\ \E x \in Labels \ {"idle"} :
              /\ pc' = [pc EXCEPT ![p] = x]
              /\ x \in {"wait", "begin"} => pc[p] \in {"idle", "wait", "begin"}
              /\ x \in Live => pc[p] \in Live
        /\ UNCHANGED <<steer, heard, sent>>
    BY <1>13 DEF LoopContinue, Goto, engine, host, history, Labels, Held, Live
  <2>. QED
    BY <2>1, QuietBooks
<1>14. ASSUME NEW p \in Prompts, ToolBoundary(p) PROVE BooksInv'
  <2>1. ASSUME NEW q \in Prompts, q # p PROVE Books(q)'
    <3>1. pc[q] \notin Live /\ pc'[q] = pc[q] /\ heard'[q] = heard[q] /\ sent' = sent
      BY <1>14, <2>1 DEF ToolBoundary, Drain, Goto, LiveRunIsRegistered, Held, Live, history
    <3>. QED
      BY <3>1 DEF BooksInv, Books
  <2>2. Books(p)'
    <3>1. /\ pc'[p] = "turn" /\ heard'[p] = heard[p] \o steer
          /\ steer' = <<>> /\ sent' = sent
      BY <1>14 DEF ToolBoundary, Drain, Goto, history
    <3>2. heard[p] \o steer = sent[p]
      BY <1>14 DEF ToolBoundary, BooksInv, Books, Live
    <3>3. sent[p] \o <<>> = sent[p] /\ <<>> \in Seq(Steers)
      BY Joins, Seqs
    <3>. QED
      BY <3>1, <3>2, <3>3 DEF Books
  <2>. QED
    BY <2>1, <2>2 DEF BooksInv
<1>15. ASSUME NEW p \in Prompts, ToolStop(p) PROVE BooksInv'
  <2>1. /\ \E x \in Labels \ {"idle"} :
              /\ pc' = [pc EXCEPT ![p] = x]
              /\ x \in {"wait", "begin"} => pc[p] \in {"idle", "wait", "begin"}
              /\ x \in Live => pc[p] \in Live
        /\ UNCHANGED <<steer, heard, sent>>
    BY <1>15 DEF ToolStop, Goto, Stop, engine, loop, host, history, Labels, Held, Live
  <2>. QED
    BY <2>1, QuietBooks
<1>16. ASSUME NEW p \in Prompts, PromptCommit(p) PROVE BooksInv'
  <2>1. /\ \E x \in Labels \ {"idle"} :
              /\ pc' = [pc EXCEPT ![p] = x]
              /\ x \in {"wait", "begin"} => pc[p] \in {"idle", "wait", "begin"}
              /\ x \in Live => pc[p] \in Live
        /\ UNCHANGED <<steer, heard, sent>>
    BY <1>16 DEF PromptCommit, Goto, host, history, Labels, Held, Live
  <2>. QED
    BY <2>1, QuietBooks
<1>17. ASSUME NEW p \in Prompts, PromptEnd(p) PROVE BooksInv'
  <2>1. /\ \E x \in Labels \ {"idle"} :
              /\ pc' = [pc EXCEPT ![p] = x]
              /\ x \in {"wait", "begin"} => pc[p] \in {"idle", "wait", "begin"}
              /\ x \in Live => pc[p] \in Live
        /\ UNCHANGED <<steer, heard, sent>>
    BY <1>17 DEF PromptEnd, Goto, loop, host, history, Labels, Held, Live
  <2>. QED
    BY <2>1, QuietBooks
<1>18. ASSUME NEW p \in Prompts, PromptUnlock(p) PROVE BooksInv'
  <2>1. pc' = [pc EXCEPT ![p] = "done"] /\ UNCHANGED <<steer, heard, sent>>
    BY <1>18 DEF PromptUnlock, Goto, loop, host, history
  <2>2. pc[p] = "unlock"
    BY <1>18 DEF PromptUnlock
  <2>. QED
    BY <2>1, <2>2, QuietBooks DEF Labels, Held, Live
<1>19. ASSUME NEW p \in Prompts, ParentCancel(p) PROVE BooksInv'
  <2>1. UNCHANGED <<pc, steer, heard, sent>>
    BY <1>19 DEF ParentCancel, engine, loop, host
  <2>. QED
    BY <2>1 DEF BooksInv, Books
<1>20. ASSUME NEW p \in Prompts, NEW r \in Results, CallReturn(p, r) PROVE BooksInv'
  <2>1. /\ \E x \in Labels \ {"idle"} :
              /\ pc' = [pc EXCEPT ![p] = x]
              /\ x \in {"wait", "begin"} => pc[p] \in {"idle", "wait", "begin"}
              /\ x \in Live => pc[p] \in Live
        /\ UNCHANGED <<steer, heard, sent>>
    BY <1>20 DEF CallReturn, Goto, engine, host, history, Labels, Held, Live
  <2>. QED
    BY <2>1, QuietBooks
<1>21. ASSUME NEW s \in Steers, SteerAppend(s) PROVE BooksInv'
  <2>1. steer' = Append(steer, s) /\ UNCHANGED <<pc, heard>>
    BY <1>21 DEF SteerAppend, run
  <2>2. ASSUME NEW q \in Prompts, pc[q] \in Live PROVE Books(q)'
    <3>1. sent'[q] = Append(sent[q], s)
      BY <1>21, <2>2 DEF SteerAppend
    <3>2. heard[q] \o steer = sent[q]
      BY <2>2 DEF BooksInv, Books
    <3>3. heard[q] \o Append(steer, s) = Append(heard[q] \o steer, s) /\ Append(steer, s) \in Seq(Steers)
      BY ZenonT(60), Joins, Seqs
    <3>4. pc[q] \notin {"idle", "wait", "begin"}
      BY <2>2 DEF Live
    <3>. QED
      BY <2>1, <3>1, <3>2, <3>3, <3>4 DEF Books
  <2>3. ASSUME NEW q \in Prompts, pc[q] \notin Live PROVE Books(q)'
    <3>1. sent'[q] = sent[q]
      BY <1>21, <2>3 DEF SteerAppend
    <3>. QED
      BY <2>1, <2>3, <3>1 DEF BooksInv, Books
  <2>. QED
    BY <2>2, <2>3 DEF BooksInv
<1>22. ASSUME NEW s \in Steers, SteerFire(s) PROVE BooksInv'
  <2>1. UNCHANGED <<pc, steer, heard, sent>>
    BY <1>22 DEF SteerFire, engine, history
  <2>. QED
    BY <2>1 DEF BooksInv, Books
<1>23. ASSUME NEW c \in Cancels, CancelRead(c) PROVE BooksInv'
  <2>1. UNCHANGED <<pc, steer, heard, sent>>
    BY <1>23 DEF CancelRead, engine, run, loop, history
  <2>. QED
    BY <2>1 DEF BooksInv, Books
<1>24. ASSUME NEW c \in Cancels, CancelFire(c) PROVE BooksInv'
  <2>1. UNCHANGED <<pc, steer, heard, sent>>
    BY <1>24 DEF CancelFire, engine, loop
  <2>. QED
    BY <2>1 DEF BooksInv, Books
<1>25. ASSUME NEW k \in Closes, CloseMark(k) PROVE BooksInv'
  <2>1. UNCHANGED <<pc, steer, heard, sent>>
    BY <1>25 DEF CloseMark, run, loop, history
  <2>. QED
    BY <2>1 DEF BooksInv, Books
<1>26. ASSUME NEW k \in Closes, CloseRead(k) PROVE BooksInv'
  <2>1. UNCHANGED <<pc, steer, heard, sent>>
    BY <1>26 DEF CloseRead, engine, run, loop, history
  <2>. QED
    BY <2>1 DEF BooksInv, Books
<1>27. ASSUME NEW k \in Closes, CloseFire(k) PROVE BooksInv'
  <2>1. UNCHANGED <<pc, steer, heard, sent>>
    BY <1>27 DEF CloseFire, engine, loop
  <2>. QED
    BY <2>1 DEF BooksInv, Books
<1>28. ASSUME NEW k \in Closes, CloseCleanup(k) PROVE BooksInv'
  <2>1. UNCHANGED <<pc, steer, heard, sent>>
    BY <1>28 DEF CloseCleanup, engine, run, loop, history
  <2>. QED
    BY <2>1 DEF BooksInv, Books
<1>29. ASSUME NEW f \in Cleanups, RegisterCleanup(f) PROVE BooksInv'
  <2>1. UNCHANGED <<pc, steer, heard, sent>>
    BY <1>29 DEF RegisterCleanup, run, loop, history
  <2>. QED
    BY <2>1 DEF BooksInv, Books
<1>30. CASE UNCHANGED vars
  BY <1>30 DEF vars, engine, run, loop, host, history, BooksInv, Books
<1>. QED
  BY <1>1, <1>2, <1>3, <1>4, <1>5, <1>6, <1>7, <1>8, <1>9, <1>10, <1>11, <1>12, <1>13, <1>14, <1>15, <1>16, <1>17, <1>18, <1>19, <1>20, <1>21, <1>22, <1>23, <1>24, <1>25, <1>26, <1>27, <1>28, <1>29, <1>30 DEF Next, PromptStep, CancelStep, CloseStep

-----------------------------------------------------------------------------
(* The cleanups.                                                           *)

Queued(f, fns) == \E i \in 1..Len(fns) : fns[i] = f

\* A cleanup is registered once and has one place: in the engine until the first
\* Close takes the list, which is the only one to get any, and none once it ran.
CleanupInv ==
  /\ IF closed THEN cleanups = <<>>
     ELSE (\A k \in Closes : kfns[k] = <<>>) /\ (\A f \in Cleanups : ran[f] = 0)
  /\ \A i, j \in 1..Len(cleanups) : cleanups[i] = cleanups[j] => i = j
  /\ \A k \in Closes :
       /\ \A i, j \in 1..Len(kfns[k]) : kfns[k][i] = kfns[k][j] => i = j
       /\ \A i \in 1..Len(kfns[k]) : ran[kfns[k][i]] = 0
       /\ \A j \in Closes : j # k => kfns[k] = <<>> \/ kfns[j] = <<>>
  /\ \A f \in Cleanups :
       /\ ran[f] \in {0, 1}
       /\ fpc[f] = "idle" =>
            /\ ran[f] = 0 /\ ~Queued(f, cleanups)
            /\ \A k \in Closes : ~Queued(f, kfns[k])

CleanupSame == UNCHANGED <<closed, cleanups, kfns, ran, fpc>>

\* Only Close and RegisterCleanup touch them.
LEMMA CleanupSteps ==
  ASSUME [Next]_vars
  PROVE  \/ CleanupSame
         \/ \E k \in Closes : CloseMark(k) \/ CloseCleanup(k)
         \/ \E f \in Cleanups : RegisterCleanup(f)
<1> USE DEF CleanupSame, engine, host
<1>1. ASSUME NEW p \in Prompts, PromptCall(p) \/ ParentCancel(p) PROVE CleanupSame
  BY <1>1 DEF PromptCall, ParentCancel
<1>2. ASSUME NEW p \in Prompts, PromptStep(p) PROVE CleanupSame
  BY <1>2 DEF PromptStep, PromptLock, PromptBegin, PromptEnsure, PromptSetup, LoopStop, LoopCall,
              CallRelease, SteerReissue, OverflowRetry, CallFailed, LoopFinish, LoopContinue,
              ToolBoundary, ToolStop, PromptCommit, PromptEnd, PromptUnlock
<1>3. ASSUME NEW p \in Prompts, NEW r \in Results, CallReturn(p, r) PROVE CleanupSame
  BY <1>3 DEF CallReturn
<1>4. ASSUME NEW s \in Steers, SteerAppend(s) \/ SteerFire(s) PROVE CleanupSame
  BY <1>4 DEF SteerAppend, SteerFire
<1>5. ASSUME NEW c \in Cancels, CancelStep(c) PROVE CleanupSame
  BY <1>5 DEF CancelStep, CancelRead, CancelFire
<1>6. ASSUME NEW k \in Closes, CloseRead(k) \/ CloseFire(k) PROVE CleanupSame
  BY <1>6 DEF CloseRead, CloseFire
<1>7. UNCHANGED vars => CleanupSame
  BY DEF vars
<1>. QED
  BY <1>1, <1>2, <1>3, <1>4, <1>5, <1>6, <1>7 DEF Next, CloseStep

\* However Close and RegisterCleanup interleave, a cleanup keeps its one place.
LEMMA CleanupStep ==
  ASSUME TypeOK, CleanupInv, [Next]_vars
  PROVE  CleanupInv'
<1>1. /\ closed \in BOOLEAN /\ cleanups \in Seq(Cleanups)
      /\ kfns \in [Closes -> Seq(Cleanups)] /\ ran \in [Cleanups -> Nat]
      /\ fpc \in [Cleanups -> {"idle", "registered"}]
  BY DEF TypeOK, EngineTypeOK, HostTypeOK
<1>2. Len(<<>>) = 0 /\ \A k \in Closes : Len(kfns[k]) \in Nat
  BY <1>1, LenProperties, EmptySeq
<1>3. CASE CleanupSame
  BY <1>3 DEF CleanupSame, CleanupInv, Queued
<1>4. ASSUME NEW k \in Closes, CloseMark(k) PROVE CleanupInv'
  <2>1. CASE closed
    <3>1. UNCHANGED <<closed, cleanups, kfns, ran, fpc>>
      BY <1>4, <2>1 DEF CloseMark
    <3>. QED
      BY <3>1 DEF CleanupInv, Queued
  <2>2. CASE ~closed
    <3>1. /\ closed' = TRUE /\ cleanups' = <<>> /\ ran' = ran /\ fpc' = fpc
          /\ kfns' = [kfns EXCEPT ![k] = cleanups]
      BY <1>4, <2>2 DEF CloseMark
    <3>2. \A j \in Closes : kfns'[j] = IF j = k THEN cleanups ELSE <<>>
      BY <1>1, <2>2, <3>1 DEF CleanupInv
    <3>3. \A i \in 1..Len(cleanups) : cleanups[i] \in Cleanups /\ ran[cleanups[i]] = 0
      BY <1>1, <2>2, ElementOfSeq DEF CleanupInv
    <3>. QED
      BY <1>2, <2>2, <3>1, <3>2, <3>3 DEF CleanupInv, Queued
  <2>. QED
    BY <2>1, <2>2
<1>5. ASSUME NEW k \in Closes, CloseCleanup(k) PROVE CleanupInv'
  <2>1. CASE kfns[k] = <<>>
    <3>1. UNCHANGED <<closed, cleanups, kfns, ran, fpc>>
      BY <1>5, <2>1 DEF CloseCleanup, engine
    <3>. QED
      BY <3>1 DEF CleanupInv, Queued
  <2>2. CASE kfns[k] # <<>>
    <3> DEFINE n == Len(kfns[k])
               f == kfns[k][n]
               rest == SubSeq(kfns[k], 1, n - 1)
    <3>1. n \in Nat /\ n >= 1 /\ f \in Cleanups
      BY <1>1, <1>2, <2>2, ElementOfSeq, EmptySeq
    <3>2. /\ rest \in Seq(Cleanups) /\ Len(rest) = n - 1
          /\ \A i \in 1..n - 1 : rest[i] = kfns[k][i]
      <4>1. \A i \in 1..n - 1 : kfns[k][i] \in Cleanups
        BY <1>1, <3>1, ElementOfSeq
      <4>. QED
        BY <3>1, <4>1, SubSeqProperties
    <3>3. /\ closed' = closed /\ cleanups' = cleanups /\ fpc' = fpc
          /\ ran' = [ran EXCEPT ![f] = @ + 1] /\ kfns' = [kfns EXCEPT ![k] = rest]
      BY <1>5, <2>2 DEF CloseCleanup, engine
    <3> HIDE DEF n, f, rest
    <3>4. /\ ran[f] = 0 /\ fpc[f] # "idle" /\ closed
          /\ \A i \in 1..n - 1 : kfns[k][i] # f
          /\ \A j \in Closes : j # k => kfns[j] = <<>>
      BY <1>1, <2>2, <3>1 DEF CleanupInv, Queued, n, f
    <3>5. \A j \in Closes : kfns'[j] = IF j = k THEN rest ELSE <<>>
      BY <1>1, <3>3, <3>4
    <3>6. \A g \in Cleanups : ran'[g] = IF g = f THEN 1 ELSE ran[g]
      BY <1>1, <3>1, <3>3, <3>4
    <3>7. /\ \A i \in 1..n - 1 : i \in 1..Len(kfns[k]) /\ i \in 1..n
          /\ 1..Len(<<>>) = {}
      BY <1>2, <3>1 DEF n
    <3>8. /\ \A i, j \in 1..Len(rest) : rest[i] = rest[j] => i = j
          /\ \A i \in 1..Len(rest) : ran'[rest[i]] = 0
      <4>1. \A i \in 1..n - 1 : kfns[k][i] \in Cleanups
        BY <1>1, <3>7, ElementOfSeq DEF n
      <4>. QED
        BY <3>2, <3>4, <3>6, <3>7, <4>1 DEF CleanupInv
    <3>9. \A g \in Cleanups : Queued(g, rest) => Queued(g, kfns[k])
      BY <3>2, <3>7 DEF Queued
    <3>10. \A g \in Cleanups : ~Queued(g, <<>>)
      BY <3>7 DEF Queued
    <3>11. closed' /\ cleanups' = <<>>
      BY <3>3, <3>4 DEF CleanupInv
    <3>12. \A g \in Cleanups :
             /\ ran'[g] \in {0, 1}
             /\ fpc'[g] = "idle" => /\ ran'[g] = 0 /\ ~Queued(g, cleanups')
                                    /\ \A j \in Closes : ~Queued(g, kfns'[j])
      BY <3>3, <3>4, <3>5, <3>6, <3>9, <3>10, <3>11 DEF CleanupInv
    <3>13. \A j \in Closes :
             /\ \A i, m \in 1..Len(kfns'[j]) : kfns'[j][i] = kfns'[j][m] => i = m
             /\ \A i \in 1..Len(kfns'[j]) : ran'[kfns'[j][i]] = 0
             /\ \A m \in Closes : m # j => kfns'[j] = <<>> \/ kfns'[m] = <<>>
      BY <3>5, <3>7, <3>8
    <3>. QED
      BY <3>7, <3>11, <3>12, <3>13 DEF CleanupInv
  <2>. QED
    BY <2>1, <2>2
<1>6. ASSUME NEW f \in Cleanups, RegisterCleanup(f) PROVE CleanupInv'
  <2>1. /\ closed' = closed /\ kfns' = kfns
        /\ fpc[f] = "idle" /\ \A g \in Cleanups : fpc'[g] = "idle" => g # f /\ fpc[g] = "idle"
    BY <1>1, <1>6 DEF RegisterCleanup
  <2>2. /\ ran[f] = 0 /\ ~Queued(f, cleanups) /\ \A k \in Closes : ~Queued(f, kfns[k])
    BY <2>1 DEF CleanupInv
  <2>3. CASE closed
    <3>1. cleanups' = cleanups /\ \A g \in Cleanups : ran'[g] = IF g = f THEN 1 ELSE ran[g]
      BY <1>1, <1>6, <2>2, <2>3 DEF RegisterCleanup
    <3>2. \A k \in Closes : \A i \in 1..Len(kfns[k]) : kfns[k][i] \in Cleanups /\ kfns[k][i] # f
      BY <1>1, <2>2, ElementOfSeq DEF Queued
    <3>. QED
      BY <2>1, <2>3, <3>1, <3>2 DEF CleanupInv, Queued
  <2>4. CASE ~closed
    <3>1. cleanups' = Append(cleanups, f) /\ ran' = ran
      BY <1>6, <2>4 DEF RegisterCleanup
    <3>2. /\ Len(cleanups) \in Nat /\ Len(cleanups') = Len(cleanups) + 1
          /\ \A i \in 1..Len(cleanups) : cleanups'[i] = cleanups[i]
          /\ cleanups'[Len(cleanups) + 1] = f
      BY <1>1, <3>1, LenProperties, AppendProperties
    <3>3. \A i \in 1..Len(cleanups') : i \in 1..Len(cleanups) \/ i = Len(cleanups) + 1
      BY <3>2
    <3>4. \A i, j \in 1..Len(cleanups') : cleanups'[i] = cleanups'[j] => i = j
      BY <2>2, <3>2, <3>3 DEF CleanupInv, Queued
    <3>5. \A g \in Cleanups : g # f /\ Queued(g, cleanups') => Queued(g, cleanups)
      BY <3>2, <3>3 DEF Queued
    <3>. QED
      BY <2>1, <2>4, <3>1, <3>4, <3>5 DEF CleanupInv
  <2>. QED
    BY <1>1, <2>3, <2>4
<1>. QED
  BY <1>3, <1>4, <1>5, <1>6, CleanupSteps

-----------------------------------------------------------------------------
(* The invariant and the theorems.                                         *)

IInv ==
  /\ TypeOK
  /\ LiveRunIsRegistered
  /\ SteerCancelIssued /\ SteerPending /\ CauseInv
  /\ CloseInv
  /\ BudgetInv
  /\ BooksInv
  /\ CleanupInv

\* The initial state is typed.
LEMMA InitTypeOK ==
  ASSUME Init
  PROVE  TypeOK
<1>1. EngineTypeOK
  BY Seqs DEF Init, EngineTypeOK
<1>2. RunTypeOK
  BY Seqs DEF Init, RunTypeOK, Labels, Held, Live
<1>3. HostTypeOK
  BY Seqs DEF Init, HostTypeOK
<1>. QED
  BY <1>1, <1>2, <1>3 DEF TypeOK

\* The initial state satisfies the invariant.
LEMMA InitIInv ==
  ASSUME Init
  PROVE  IInv
<1>1. TypeOK
  BY InitTypeOK
<1>2. LiveRunIsRegistered
  BY NoneAssumption DEF Init, LiveRunIsRegistered, Live, Held
<1>3. SteerCancelIssued
  BY NoneAssumption DEF Init, SteerCancelIssued
<1>4. SteerPending
  BY DEF Init, SteerPending
<1>5. CauseInv
  BY NoneAssumption DEF Init, CauseInv, Outcomes
<1>6. CloseInv
  BY DEF Init, CloseInv
<1>7. BudgetInv
  <2>1. \A p \in Prompts : heard[p] = <<>> /\ turns[p] = 0 /\ overflow[p] = 0 /\ calls[p] = 0 /\ pc[p] = "idle"
    BY DEF Init
  <2>2. Len(<<>>) = 0
    BY EmptySeq
  <2>3. 0 <= MaxTurns /\ 0 <= MaxOverflow /\ 0 <= MaxTurns + MaxOverflow + 0 /\ 0 <= 0 + 0 + 0
    BY BoundsAssumption
  <2>. QED
    BY <2>1, <2>2, <2>3 DEF BudgetInv, Budget
<1>8. BooksInv
  <2>1. \A p \in Prompts : heard[p] = <<>> /\ sent[p] = <<>> /\ pc[p] = "idle"
    BY DEF Init
  <2>2. <<>> \o <<>> = <<>> /\ <<>> \in Seq(Steers)
    BY Joins, Seqs
  <2>. QED
    BY <2>1, <2>2 DEF BooksInv, Books, Live
<1>9. CleanupInv
  <2>1. /\ closed = FALSE /\ cleanups = <<>> /\ \A k \in Closes : kfns[k] = <<>>
        /\ \A f \in Cleanups : ran[f] = 0
    BY DEF Init
  <2>2. 1..Len(<<>>) = {}
    BY EmptySeq
  <2>. QED
    BY <2>1, <2>2 DEF CleanupInv, Queued
<1>. QED
  BY <1>1, <1>2, <1>3, <1>4, <1>5, <1>6, <1>7, <1>8, <1>9 DEF IInv

\* Every step keeps the invariant.
LEMMA StepIInv ==
  ASSUME IInv, [Next]_vars
  PROVE  IInv'
<1> USE DEF IInv
<1>1. TypeOK'
  BY EngineTypeStep, RunTypeStep, HostTypeStep DEF TypeOK
<1>2. LiveRunIsRegistered'
  BY RegistrationStep
<1>3. SteerCancelIssued' /\ SteerPending' /\ CauseInv'
  BY SteerCancelIssuedStep, SteerPendingStep, CauseStep
<1>4. CloseInv' /\ BudgetInv' /\ BooksInv'
  BY CloseInvStep, BudgetStep, BooksStep
<1>5. CleanupInv'
  BY CleanupStep
<1>. QED
  BY <1>1, <1>2, <1>3, <1>4, <1>5

\* IInv is inductive: it holds in every state any caller can drive the engine to.
THEOREM Inductive == Spec => []IInv
<1>1. Init => IInv
  BY InitIInv
<1>2. IInv /\ [Next]_vars => IInv'
  BY StepIInv
<1>. QED
  BY <1>1, <1>2, PTL DEF Spec

\* Every variable of the engine, the runs and the hosts keeps its type.
THEOREM TypeCorrect == Spec => []TypeOK
<1>1. IInv => TypeOK
  BY DEF IInv
<1>. QED
  BY <1>1, Inductive, PTL

\* Cancel and Close find exactly the run between beginRun and endRun.
THEOREM RegistrationCorrect == Spec => []LiveRunIsRegistered
<1>1. IInv => LiveRunIsRegistered
  BY DEF IInv
<1>. QED
  BY <1>1, Inductive, PTL

\* No sequence of Steer calls ends a run as cancelled.
THEOREM SteerSafe == Spec => []SteerNeverAborts
<1>1. IInv => SteerNeverAborts
  BY DEF IInv, CauseInv, SteerNeverAborts
<1>. QED
  BY <1>1, Inductive, PTL

\* No steer accepted by a live run is lost, doubled, reordered or given to
\* another run while it is live; a prefix reaches its messages.
THEOREM SteersAccounted == Spec => []SteerAccounting
<1>1. IInv => SteerAccounting
  <2>1. SUFFICES ASSUME IInv, NEW p \in Prompts
                 PROVE  /\ pc[p] \in Live => heard[p] \o steer = sent[p]
                        /\ \E n \in 0..Len(sent[p]) : heard[p] = SubSeq(sent[p], 1, n)
    BY DEF SteerAccounting
  <2>2. PICK rest \in Seq(Steers) : sent[p] = heard[p] \o rest
    BY <2>1 DEF IInv, BooksInv, Books
  <2>3. heard[p] \in Seq(Steers)
    BY <2>1 DEF IInv, TypeOK, RunTypeOK
  <2>4. \E n \in 0..Len(sent[p]) : heard[p] = SubSeq(sent[p], 1, n)
    BY <2>2, <2>3, Prefix
  <2>. QED
    BY <2>1, <2>4 DEF IInv, BooksInv, Books
<1>. QED
  BY <1>1, Inductive, PTL

\* The number of model calls of a run is bounded by its turns, its overflow
\* retries and the steers it heard.
THEOREM CallsBounded == Spec => []CallBudget
<1>1. IInv => CallBudget
  BY DEF IInv, BudgetInv, Budget, CallBudget
<1>. QED
  BY <1>1, Inductive, PTL

\* No Prompt slips past a Close with its context alive.
THEOREM CloseComplete == Spec => []CloseReachesRun
<1>1. IInv => CloseReachesRun
  BY DEF IInv, CloseInv, CloseReachesRun
<1>. QED
  BY <1>1, Inductive, PTL

\* However Close and RegisterCleanup interleave, no cleanup runs twice, and none
\* while the engine is open.
THEOREM CleanupsOnce == Spec => []CleanupOnce
<1>1. IInv => CleanupOnce
  BY DEF IInv, CleanupInv, CleanupOnce
<1>. QED
  BY <1>1, Inductive, PTL

\* Close runs the cleanups only when every live run has been told to stop: of the
\* steps that touch a cleanup, RegisterCleanup's is of one not registered yet.
THEOREM CleanupsAfterCancel == Spec => CleanupAfterCancel
<1> DEFINE Kept ==
      \A f \in Cleanups, p \in Prompts :
        ran'[f] # ran[f] /\ fpc[f] = "registered" /\ pc[p] \in Live => ctxDone[p]
<1>1. IInv /\ [Next]_vars => [Kept]_vars
  <2>1. SUFFICES ASSUME IInv, [Next]_vars, NEW f \in Cleanups, NEW p \in Prompts,
                        ran'[f] # ran[f], fpc[f] = "registered", pc[p] \in Live
                 PROVE  ctxDone[p]
    OBVIOUS
  <2>2. ran' # ran
    BY <2>1
  <2>3. CASE CleanupSame
    BY <2>2, <2>3 DEF CleanupSame
  <2>4. ASSUME NEW k \in Closes, CloseMark(k) \/ CloseCleanup(k) PROVE ctxDone[p]
    <3>1. kpc[k] = "cleanup"
      BY <2>2, <2>4 DEF CloseMark, CloseCleanup
    <3>. QED
      BY <2>1, <3>1 DEF IInv, CloseInv
  <2>5. ASSUME NEW g \in Cleanups, RegisterCleanup(g) PROVE ctxDone[p]
    <3>1. fpc[g] = "idle" /\ (ran' = [ran EXCEPT ![g] = @ + 1] \/ ran' = ran)
      BY <2>5 DEF RegisterCleanup
    <3>2. ran \in [Cleanups -> Nat]
      BY <2>1 DEF IInv, TypeOK, HostTypeOK
    <3>3. f = g
      BY <2>1, <3>1, <3>2
    <3>. QED
      BY <2>1, <3>1, <3>3
  <2>. QED
    BY <2>1, <2>3, <2>4, <2>5, CleanupSteps
<1>. QED
  BY <1>1, Inductive, PTL DEF Spec, CleanupAfterCancel
================================================================================

------------------------------ MODULE GoalStep ------------------------------
(***************************************************************************)
(* The steps of one goal, where GoalRun has only their outcomes: the       *)
(* checklist and goal_report (ext/goal/plan.go, finish.go), a step that    *)
(* runs several items at a time (parallel.go), and an item that works in a *)
(* git worktree of its own and is merged back (worktree_step.go,           *)
(* worktree.go), with what runState makes of the result (runner.go).       *)
(*                                                                         *)
(* Of git: the parent repository may be in the middle of a merge, which    *)
(* items' branches were merged, and the worktree of each item, whose name  *)
(* is the item's.  An item is a number, so that the order of the list is   *)
(* the order of the numbers.                                               *)
(*                                                                         *)
(* An operator whose comment starts with "Fault:" is a wrong version of    *)
(* the definition below it, used to see that a property notices.           *)
(***************************************************************************)
EXTENDS Integers, FiniteSets

CONSTANTS
    Items,          \* of the checklist: numbers from 1
    Isolated,       \* the items whose Worker is "worktree"
    ParallelMax,    \* Spec.ParallelMax
    Lists, Marks,   \* bound: what goal_report may replace the list with, and set an item to
    Errors,         \* bound: how a prompt may fail: max_turns, upstream, other
    MaxReports,     \* bound: calls of goal_report in a step
    MaxSteps        \* the budget of the goal

Whole == 0              \* an ordinary step has the whole list before it
Tasks == Items \cup {Whole}
MaxWidth == 8

VARIABLES
    status,     \* of the goal: running, done, failed, partial, blocked
    steps,      \* how many were made
    plan,       \* the checklist: the status of each item that is on it
    batch,      \* the tasks of the step under way
    pc,         \* where each task is
    res,        \* the StepResult of each task, with its error
    stopped,    \* the context of the run is cancelled
    failfast,   \* the context of the step is cancelled by one of its tasks
    mu,         \* who has repoMu
    peer,       \* another process has mow-repo.lock
    tree,       \* the worktree and branch of each item: none, clean, changed, committed
    merged,     \* the items whose branch is in the base branch
    merging,    \* the parent repository is in the middle of a merge (MERGE_HEAD)
    sum         \* the joined result of the last step

vars == <<status, steps, plan, batch, pc, res, stopped, failfast, mu, peer, tree, merged,
          merging, sum>>

Nobody == -1
NoPlan == [i \in {} |-> "pending"]
NoResult == [plan |-> NoPlan, outcome |-> "", err |-> ""]

Init ==
    /\ status = "running" /\ steps = 0
    /\ plan \in {NoPlan, [i \in Items |-> "pending"]}
    /\ batch = {} /\ pc = [t \in Tasks |-> "idle"] /\ res = [t \in Tasks |-> NoResult]
    /\ stopped = FALSE /\ failfast = FALSE /\ mu = Nobody /\ peer = FALSE
    /\ tree = [i \in Items |-> "none"] /\ merged = {} /\ merging = FALSE /\ sum = NoResult

Goto(t, l) == pc' = [pc EXCEPT ![t] = l]
GoalSame == UNCHANGED <<status, steps, plan, batch, sum>>
RepoSame == UNCHANGED <<tree, merged, merging>>
ContextSame == UNCHANGED <<stopped, failfast>>
LockSame == UNCHANGED <<mu, peer>>

Cancelled == stopped \/ failfast

(***************************************************************************)
(* The checklist                                                           *)
(***************************************************************************)

Statuses == {"pending", "done", "failed", "skipped"}

Pending(p) == {i \in DOMAIN p : p[i] = "pending"}
NextPending(p) == CHOOSE i \in Pending(p) : \A j \in Pending(p) : i <= j

\* No items is a goal without a checklist.
AllDone(p) == \A i \in DOMAIN p : p[i] \in {"done", "skipped"}

\* An item that is not on the list is refused.
SetItem(p, i, s) == IF i \in DOMAIN p THEN [p EXCEPT ![i] = s] ELSE p

(***************************************************************************)
(* goal_report                                                             *)
(***************************************************************************)

Signal(p) == [plan |-> p, said |-> "", reject |-> FALSE, touched |-> FALSE]

\* A report may replace the list, then set one item, then say how it goes.
\* "done" needs a complete checklist.  A status that is not known leaves the
\* signal as it was.
Gate(f, said) ==
    CASE said = "done" /\ ~AllDone(f.plan) -> [f EXCEPT !.said = "continue", !.reject = TRUE]
      [] said = "unknown" -> f
      [] OTHER -> [f EXCEPT !.said = said, !.reject = FALSE]

Listed(f) == {f} \cup {[f EXCEPT !.plan = p, !.touched = TRUE] : p \in Lists}

Mark(g, i, s) == [g EXCEPT !.plan = SetItem(@, i, s), !.touched = TRUE]

Marked(f) ==
    Listed(f) \cup UNION {{Mark(g, i, s) : i \in DOMAIN g.plan, s \in Marks} : g \in Listed(f)}

Report(f) == {Gate(g, said) : g \in Marked(f), said \in {"done", "failed", "continue", "unknown"}}

\* A turn may hold several calls of goal_report; the turn is then the last.
Signals(p) ==
    LET after[n \in 0..MaxReports] ==
            IF n = 0 THEN {Signal(p)}
            ELSE after[n - 1] \cup UNION {Report(f) : f \in after[n - 1]}
    IN  after[MaxReports]

\* What the text says counts when no report was made.
Says(f, text) == IF f.said # "" \/ f.touched THEN f.said ELSE text

Outcome(f, text) ==
    CASE Says(f, text) = "done" /\ AllDone(f.plan) -> "done"
      [] Says(f, text) = "failed" -> "failed"
      [] OTHER -> "continue"

\* RunStep on a checklist: the prompt may also end with an error, the list that
\* was reported until then is kept.
Told(f) == {[plan |-> f.plan, outcome |-> Outcome(f, text), err |-> ""] : text \in {"", "done", "failed"}}

Broken(f, errors) == {[plan |-> f.plan, outcome |-> "", err |-> e] : e \in errors}

Results(p) ==
    LET errors == Errors \cup (IF Cancelled THEN {"canceled"} ELSE {})
    IN  UNION {Told(f) \cup Broken(f, errors) : f \in Signals(p)}

\* The checklist of a task: its own item, pending.
SubState(t) == IF t = Whole THEN plan ELSE [i \in {t} |-> "pending"]

Apply(p, q) ==
    [i \in DOMAIN p |-> IF i \in DOMAIN q /\ q[i] # "pending" THEN q[i] ELSE p[i]]

\* Fault: the list of the sub-step takes the place of the goal's.
SubPlanOnly(p, q) == q

\* What a sub-step says of its items, put onto the goal's list.
MergeSubPlan(p, q) == IF p = NoPlan THEN q ELSE Apply(p, q)

(***************************************************************************)
(* A step begins                                                           *)
(***************************************************************************)

Least(a, b) == IF a < b THEN a ELSE b

ParallelWidth ==
    LET pending == Cardinality(Pending(plan))
    IN  IF ParallelMax < 2 \/ pending < 2 THEN 0
        ELSE Least(Least(ParallelMax, MaxWidth), pending)

PendingBatch(n) ==
    {i \in Pending(plan) : Cardinality({j \in Pending(plan) : j <= i}) <= n}

Chosen ==
    CASE ParallelWidth > 1 -> PendingBatch(ParallelWidth)
      [] ParallelWidth <= 1 /\ Pending(plan) # {} /\ NextPending(plan) \in Isolated ->
            {NextPending(plan)}
      [] OTHER -> {Whole}

Parallel == Cardinality(batch) > 1

Entry(t) == IF t \in Isolated THEN "add" ELSE "run"

Begin ==
    /\ status = "running" /\ batch = {} /\ ~stopped /\ steps < MaxSteps
    /\ batch' = Chosen
    /\ pc' = [t \in Tasks |-> IF t \in batch' THEN Entry(t) ELSE "idle"]
    /\ res' = [t \in Tasks |-> NoResult] /\ sum' = NoResult
    /\ UNCHANGED <<status, steps, plan>> /\ ContextSame /\ LockSame /\ RepoSame

\* The head of the loop.
EndRun ==
    /\ status = "running" /\ batch = {}
    /\ \/ steps = MaxSteps /\ status' = "partial"
       \/ steps < MaxSteps /\ stopped /\ status' = "failed"
    /\ UNCHANGED <<steps, plan, batch, pc, res, sum>>
    /\ ContextSame /\ LockSame /\ RepoSame

(***************************************************************************)
(* The lock of the repository: the mutex of the process, then the file     *)
(***************************************************************************)

Failed(t, e) == res' = [res EXCEPT ![t].err = IF @ = "" THEN e ELSE @]

\* Without the lock there is no worktree, no merge, or no cleanup.
NoLock(t) ==
    LET e == IF Cancelled THEN "canceled" ELSE "locked"
    IN  CASE pc[t] \in {"add", "addFile"} -> Goto(t, "fallback") /\ UNCHANGED res
          [] pc[t] \in {"mergeWait", "mergeFile"} -> Goto(t, "clean") /\ Failed(t, e)
          [] OTHER -> Goto(t, "joining") /\ UNCHANGED res

Waits == {"add", "mergeWait", "clean"}
Files == {"addFile", "mergeFile", "cleanFile"}

\* A context that is cancelled is looked at before the mutex and after it, not
\* while another task has the mutex.
LockRefused(t) ==
    /\ pc[t] \in Waits /\ Cancelled /\ NoLock(t)
    /\ GoalSame /\ ContextSame /\ LockSame /\ RepoSame

TakeMutex(t) ==
    /\ pc[t] \in Waits /\ mu = Nobody /\ mu' = t
    /\ Goto(t, CASE pc[t] = "add" -> "addFile" [] pc[t] = "mergeWait" -> "mergeFile"
                 [] OTHER -> "cleanFile")
    /\ UNCHANGED <<res, peer>> /\ GoalSame /\ ContextSame /\ RepoSame

\* Fault: who cannot have the file keeps the mutex.
KeepsMutex == mu

Unlocked == Nobody

TakeFile(t) ==
    /\ pc[t] \in Files /\ ~peer /\ ~Cancelled
    /\ Goto(t, CASE pc[t] = "addFile" -> "adding" [] pc[t] = "mergeFile" -> "checkout"
                 [] OTHER -> "cleaning")
    /\ UNCHANGED res /\ GoalSame /\ ContextSame /\ LockSame /\ RepoSame

\* The context, or eleven minutes of waiting for another process.
FileRefused(t) ==
    /\ pc[t] \in Files /\ (Cancelled \/ peer) /\ NoLock(t) /\ mu' = Unlocked
    /\ UNCHANGED peer /\ GoalSame /\ ContextSame /\ RepoSame

(***************************************************************************)
(* A task                                                                  *)
(***************************************************************************)

\* No factory, no repository, a detached head, or git that says no: an item then
\* works in the workspace as any other.
Preflight(t) ==
    /\ pc[t] = "add" /\ Goto(t, "fallback")
    /\ UNCHANGED res /\ GoalSame /\ ContextSame /\ LockSame /\ RepoSame

\* A branch of the item's name that is still there is refused by git.
AddWorktree(t) ==
    /\ pc[t] = "adding" /\ mu' = Unlocked
    /\ \/ tree[t] = "none" /\ ~Cancelled /\ tree' = [tree EXCEPT ![t] = "clean"]
          /\ Goto(t, "engine")
       \/ (tree[t] # "none" \/ Cancelled) /\ UNCHANGED tree /\ Goto(t, "fallback")
    /\ UNCHANGED <<res, peer, merged, merging>> /\ GoalSame /\ ContextSame

\* WorktreeEngineFactory may fail.
Engine(t) ==
    /\ pc[t] = "engine"
    /\ \/ Goto(t, "isolated") /\ UNCHANGED res
       \/ Goto(t, "clean") /\ Failed(t, "other")
    /\ GoalSame /\ ContextSame /\ LockSame /\ RepoSame

\* The step in the workspace, with an engine of its own when items run in parallel;
\* a worktree item's list is put onto the goal's.
RunStep(t) ==
    /\ pc[t] \in {"run", "fallback"} /\ Goto(t, "joining")
    /\ \/ Parallel /\ res' = [res EXCEPT ![t].err = "other"]
       \/ \E r \in Results(SubState(t)) :
             res' = [res EXCEPT ![t] =
                 IF pc[t] = "run" THEN r ELSE [r EXCEPT !.plan = MergeSubPlan(plan, @)]]
    /\ GoalSame /\ ContextSame /\ LockSame /\ RepoSame

\* Fault: what a step left is merged however it ended.
KeepsAll(r) == TRUE

Keeps(r) == r.err = "" /\ r.outcome # "failed"

IsolatedStep(t) ==
    /\ pc[t] = "isolated"
    /\ \E r \in Results(SubState(t)) :
          /\ res' = [res EXCEPT ![t] = [r EXCEPT !.plan = MergeSubPlan(plan, @)]]
          /\ Goto(t, IF Keeps(r) THEN "commit" ELSE "clean")
    /\ \/ tree' = [tree EXCEPT ![t] = "changed"]
       \/ UNCHANGED tree
    /\ UNCHANGED <<merged, merging>> /\ GoalSame /\ ContextSame /\ LockSame

\* How a git command ends that does not succeed: it was not started, or was
\* killed, because of the context, or it failed.
GitError == {"git"} \cup (IF Cancelled THEN {"canceled", "killed"} ELSE {})

\* A cancelled "git diff" is taken for changes, and the commit fails.
CommitAll(t) ==
    /\ pc[t] = "commit"
    /\ \/ \E e \in GitError : Goto(t, "clean") /\ Failed(t, e) /\ UNCHANGED tree
       \/ ~Cancelled /\ tree[t] = "clean" /\ Goto(t, "clean") /\ UNCHANGED <<tree, res>>
       \/ ~Cancelled /\ tree[t] = "changed" /\ Goto(t, "mergeWait") /\ UNCHANGED res
          /\ tree' = [tree EXCEPT ![t] = "committed"]
    /\ UNCHANGED <<merged, merging>> /\ GoalSame /\ ContextSame /\ LockSame

MergeFails(t, e) == Goto(t, "clean") /\ Failed(t, e) /\ mu' = Unlocked

\* git checks nothing out in the middle of a merge.
Checkout(t) ==
    /\ pc[t] = "checkout"
    /\ \/ ~merging /\ ~Cancelled /\ Goto(t, "merge") /\ UNCHANGED <<res, mu>>
       \/ \E e \in GitError : MergeFails(t, e)
    /\ UNCHANGED peer /\ GoalSame /\ ContextSame /\ RepoSame

Merge(t) ==
    /\ pc[t] = "merge"
    /\ \/ /\ ~Cancelled /\ merged' = merged \cup {t} /\ mu' = Unlocked
          /\ Goto(t, "clean") /\ UNCHANGED <<res, merging>>
       \/ /\ merging' = TRUE /\ Goto(t, "abort") /\ UNCHANGED <<res, merged, mu>>
       \/ \E e \in GitError : MergeFails(t, e) /\ UNCHANGED <<merged, merging>>
    /\ UNCHANGED <<peer, tree>> /\ GoalSame /\ ContextSame

\* git merge --abort, which a cancelled context keeps from running.
Aborted == merging /\ Cancelled

Abort(t) ==
    /\ pc[t] = "abort" /\ Goto(t, "joining") /\ mu' = Unlocked
    /\ merging' = Aborted /\ res' = [res EXCEPT ![t].outcome = "escalate"]
    /\ UNCHANGED <<peer, tree, merged>> /\ GoalSame /\ ContextSame

\* Fault: the branch stays.
KeepsBranch(t) == tree

Removed(t) == [tree EXCEPT ![t] = "none"]

Cleanup(t) ==
    /\ pc[t] = "cleaning" /\ Goto(t, "joining") /\ mu' = Unlocked
    /\ IF Cancelled THEN tree' \in {tree, Removed(t)} ELSE tree' = Removed(t)
    /\ UNCHANGED <<res, peer, merged, merging>> /\ GoalSame /\ ContextSame

\* The task of a parallel step returns: with an error it cancels the others.
Joined(t) ==
    /\ pc[t] = "joining" /\ Goto(t, "joined")
    /\ failfast' = (failfast \/ (Parallel /\ res[t].err # ""))
    /\ UNCHANGED <<res, stopped>> /\ GoalSame /\ LockSame /\ RepoSame

(***************************************************************************)
(* The end of a step                                                       *)
(***************************************************************************)

\* What the result of an item says, of it and of others, put onto the list.
TakeOver(p, t) ==
    LET r    == res[t]
        q    == Apply(p, r.plan)
        told == \E i \in DOMAIN r.plan \cap DOMAIN plan : r.plan[i] # "pending"
    IN  CASE t \notin batch -> p
          [] t \in batch /\ r.outcome = "failed" -> SetItem(q, t, "failed")
          [] t \in batch /\ r.outcome = "done" /\ ~told -> SetItem(q, t, "done")
          [] OTHER -> q

\* The results are applied in the order of the items.
JoinedPlan ==
    LET over[n \in 0..Cardinality(Items)] == IF n = 0 THEN plan ELSE TakeOver(over[n - 1], n)
    IN  over[Cardinality(Items)]

Outcomes == {res[t].outcome : t \in batch}

\* Fault: a sub-step that needs a human counts as progress.
Flattened(p) ==
    CASE "failed" \in Outcomes -> "failed"
      [] "failed" \notin Outcomes /\ "done" \in Outcomes /\ AllDone(p) -> "done"
      [] OTHER -> "continue"

JoinedOutcome(p) ==
    CASE "failed" \in Outcomes -> "failed"
      [] "failed" \notin Outcomes /\ "escalate" \in Outcomes -> "escalate"
      [] Outcomes \cap {"failed", "escalate"} = {} /\ "done" \in Outcomes /\ AllDone(p) -> "done"
      [] OTHER -> "continue"

FirstOf(S) == res[CHOOSE t \in S : \A u \in S : t <= u].err

\* Fault: the first error of the list.
FirstError ==
    LET failures == {t \in batch : res[t].err # ""}
    IN  IF failures = {} THEN "" ELSE FirstOf(failures)

\* The first error that is not a cancellation, which would be its consequence.
FirstParallelErr ==
    LET failures == {t \in batch : res[t].err # ""}
        causes == {t \in failures : res[t].err # "canceled"}
    IN  CASE failures = {} -> ""
          [] failures # {} /\ causes = {} -> FirstOf(failures)
          [] OTHER -> FirstOf(causes)

StepResult ==
    IF Parallel
    THEN [plan |-> JoinedPlan, outcome |-> JoinedOutcome(JoinedPlan), err |-> FirstParallelErr]
    ELSE res[CHOOSE t \in batch : TRUE]

\* An error of the provider, or the limit of turns, leaves the goal running.
After(r) ==
    CASE r.err \in {"max_turns", "upstream"} -> "running"
      [] r.err # "" /\ r.err \notin {"max_turns", "upstream"} -> "failed"
      [] r.err = "" /\ r.outcome = "escalate" -> "blocked"
      [] r.err = "" /\ r.outcome \in {"done", "failed"} -> r.outcome
      [] OTHER -> "running"

\* A goal over its token budget stops before the list is taken over.
Join ==
    /\ batch # {} /\ \A t \in batch : pc[t] = "joined"
    /\ batch' = {} /\ pc' = [t \in Tasks |-> "idle"] /\ res' = [t \in Tasks |-> NoResult]
    /\ failfast' = FALSE /\ steps' = steps + 1 /\ sum' = StepResult
    /\ \/ status' = After(sum') /\ plan' = IF sum'.plan = NoPlan THEN plan ELSE sum'.plan
       \/ status' = "partial" /\ UNCHANGED plan
    /\ UNCHANGED stopped /\ LockSame /\ RepoSame

(***************************************************************************)
(* Around the run                                                          *)
(***************************************************************************)

Stop ==
    /\ status = "running" /\ ~stopped /\ stopped' = TRUE
    /\ UNCHANGED <<pc, res, failfast>> /\ GoalSame /\ LockSame /\ RepoSame

\* The goal is run again: by an answer, or because somebody starts it.
Resume ==
    /\ status \in {"failed", "partial", "blocked"} /\ steps < MaxSteps
    /\ status' = "running" /\ stopped' = FALSE
    /\ UNCHANGED <<steps, plan, batch, sum, pc, res, failfast>> /\ LockSame /\ RepoSame

\* A person merges or rejects what a conflict left.
Resolve(i) ==
    /\ status # "running" /\ tree[i] # "none"
    /\ tree' = [tree EXCEPT ![i] = "none"] /\ merging' = FALSE
    /\ merged' \in {merged, merged \cup {i}}
    /\ UNCHANGED <<pc, res>> /\ GoalSame /\ ContextSame /\ LockSame

\* Another process works on the repository.
Peer ==
    /\ peer' = ~peer
    /\ peer \/ \A t \in Tasks : pc[t] \notin {"adding", "checkout", "merge", "abort", "cleaning"}
    /\ UNCHANGED <<pc, res, mu>> /\ GoalSame /\ ContextSame /\ RepoSame

Task(t) ==
    \/ LockRefused(t) \/ TakeMutex(t) \/ TakeFile(t) \/ FileRefused(t) \/ Preflight(t)
    \/ AddWorktree(t) \/ Engine(t) \/ RunStep(t) \/ IsolatedStep(t) \/ CommitAll(t)
    \/ Checkout(t) \/ Merge(t) \/ Abort(t) \/ Cleanup(t) \/ Joined(t)

Steps == Begin \/ Join \/ \E t \in Tasks : Task(t)

Next == Steps \/ EndRun \/ Stop \/ Resume \/ Peer \/ \E i \in Items : Resolve(i)

Spec == Init /\ [][Next]_vars

\* A step under way goes on: git and the prompts return, and a lock another process
\* has is not waited for longer than eleven minutes.
FairSpec == Spec /\ WF_vars(Steps)

(***************************************************************************)
(* Properties                                                              *)
(***************************************************************************)

Joining == batch # {} /\ batch' = {}

\* Sub-steps see one item each and may put any list in its place: they do not drop the
\* items of the others, and those of a parallel step finish the goal only when the whole
\* list is done.
ChecklistHolds ==
    [][Joining /\ Whole \notin batch =>
          /\ DOMAIN plan' = DOMAIN plan
          /\ Parallel /\ status' = "done" => AllDone(plan')]_vars

\* What is merged is the work of a step that ended well: an item that failed, or whose
\* prompt did, leaves nothing in the base branch.
MergedEndedWell ==
    [][\A i \in merged' \ merged :
          status = "running" => res[i].err = "" /\ res[i].outcome \in {"done", "continue"}]_vars

\* A worktree stays behind only with a conflict for a human, or because the context was
\* cancelled or another process had the repository when it was to be removed.
WorktreesGo ==
    [][\A i \in Items :
          pc[i] \notin {"run", "fallback", "joining"} /\ pc'[i] = "joining" /\ tree'[i] # "none" =>
              res'[i].outcome = "escalate" \/ Cancelled \/ peer]_vars

\* A step that one of its items made fail does not report that it was cancelled.
RootCause == [][Joining /\ sum'.err = "canceled" => stopped]_vars

\* A conflict in a step that has no error stops the goal.
ConflictStops ==
    [][Joining /\ sum'.err = "" /\ (\E t \in batch : res[t].outcome = "escalate") =>
          status' \in {"blocked", "failed", "partial"}]_vars

\* No step hangs: whoever has the repository, whichever item fails.
StepsEnd == []<>(batch = {})

\* What goal_report says of "done" (finish.go:150): "finish the whole goal [...] if a
\* checklist exists all items must be done/skipped".
DoneIsAllDone == [][Joining /\ status' = "done" => AllDone(plan')]_vars

\* What parallel.go:214 says: an escalated item "stays pending so resuming retries it".
EscalatedIsPending ==
    [][Joining /\ status' = "blocked" =>
          \A i \in batch \cap DOMAIN plan' : res[i].outcome = "escalate" => plan'[i] = "pending"]_vars

\* What parallel.go:211 says: a conflict "must not be flattened into continue: the parent
\* has to block".
ConflictBlocks ==
    [][Joining /\ (\E t \in batch : res[t].outcome = "escalate") =>
          status' \notin {"running", "done"}]_vars
=============================================================================

------------------------------ MODULE GoalRun ------------------------------
(***************************************************************************)
(* Calls on one goal from several processes that share $MOW_HOME/goals:    *)
(* Runner.RunRaise, RunSpec and ResumeAnswer with the step loop they end   *)
(* in (ext/goal/runner.go), Create, and the store's Remove and Reset       *)
(* (store.go), under the run lock of runlock.go.                           *)
(*                                                                         *)
(* The run lock is a set in the process (activeRuns) and a flock on        *)
(* <id>.run.lock, which the kernel drops when its process dies.  A Load or *)
(* a Save is one step: it holds the directory's mutex and the flock on     *)
(* <id>.json.lock, and replaces the file by a rename.                      *)
(*                                                                         *)
(* Of the file, what decides who may run: status, step, budget, retries,   *)
(* owner and the human answers among the facts.  The plan, the summaries   *)
(* and the evidence of steps are left out; what a step decided is any of   *)
(* its outcomes, Router and Verify included.  All processes are on one     *)
(* host, so ownerAlive can probe every owner.                              *)
(*                                                                         *)
(* An operator whose comment starts with "Fault:" is a wrong version of    *)
(* the definition below it, used to see that a property notices.           *)
(***************************************************************************)
EXTENDS Integers

CONSTANTS
    Calls,          \* calls of the API, each made once
    Procs, On,      \* processes, and the process of each call
    May,            \* bound: what each call may be
    Mortal,         \* bound: the processes that may die
    MaxSteps,       \* the budget of a new goal
    Raises,         \* what --max-steps may ask for, 0 for nothing
    MaxStepRetries, MaxTransientSteps, MaxTurnBudgetSteps,
    Cancellable,    \* bound: calls whose context may be cancelled
    MaxLostSaves,   \* bound: saves that fail
    None            \* no file, no owner, no state in memory

Kinds == {"raise", "spec", "answer", "remove", "force", "reset", "create"}

ASSUME GoalAssumption ==
    /\ On \in [Calls -> Procs] /\ May \in [Calls -> SUBSET Kinds]
    /\ Mortal \subseteq Procs /\ Cancellable \subseteq Calls
    /\ MaxSteps \in Nat \ {0} /\ Raises \subseteq Nat
    /\ {MaxStepRetries, MaxLostSaves} \subseteq Nat
    /\ {MaxTransientSteps, MaxTurnBudgetSteps} \subseteq Nat \ {0}
    /\ None \notin Procs \cup Calls

VARIABLES
    goal,       \* <id>.json
    alive,      \* processes that run
    active,     \* activeRuns: processes in which the id is taken
    flock,      \* the call that holds <id>.run.lock
    op,         \* what each call is
    pc,         \* where it is; "head" to "exit" are inside runState
    mem,        \* its State
    blips,      \* transientSteps
    overruns,   \* turnBudgetSteps
    cancelled,  \* its context is cancelled
    lost        \* processes a save of which failed, with their number

vars == <<goal, alive, active, flock, op, pc, mem, blips, overruns, cancelled, lost>>

(* NormalizeSpec: a budget of 0 asks for the default. *)
New(n) == [status |-> "pending", step |-> 0, max |-> IF n = 0 THEN MaxSteps ELSE n,
           retry |-> 0, owner |-> None, answers |-> {}]

(* Fault: whoever loads a running goal takes its owner for dead. *)
OwnedStale(st) == st # None /\ st.status = "running" /\ st.owner # None

Stale(st) == st # None /\ st.status = "running" /\ st.owner # None /\ st.owner \notin alive
Healed(st) == IF Stale(st) THEN [st EXCEPT !.status = "pending", !.owner = None] ELSE st

Init ==
    /\ goal \in {None, New(0)} /\ alive = Procs /\ active = {} /\ flock = None
    /\ op = [c \in Calls |-> "none"] /\ pc = [c \in Calls |-> "idle"]
    /\ mem = [c \in Calls |-> None]
    /\ blips = [c \in Calls |-> 0] /\ overruns = [c \in Calls |-> 0]
    /\ cancelled = [c \in Calls |-> FALSE] /\ lost = [procs |-> {}, number |-> 0]

Goto(c, l)    == pc' = [pc EXCEPT ![c] = l]
Remember(c, st) == mem' = [mem EXCEPT ![c] = st]
Counted       == UNCHANGED <<blips, overruns>>
Elsewhere     == UNCHANGED <<alive, cancelled, lost>>
Unlocked      == UNCHANGED <<active, flock>>

-----------------------------------------------------------------------------
(* What a call does before it has the run lock.                            *)

Called(c, o) ==
    /\ pc[c] = "idle" /\ On[c] \in alive /\ o \in May[c]
    /\ Unlocked /\ Counted /\ Elsewhere

(* loadLocked heals the file before it answers. *)
Load == goal' = Healed(goal)

Proceed(c, o, st) == Goto(c, "acquire") /\ op' = [op EXCEPT ![c] = o] /\ Remember(c, st)
Return(c) == Goto(c, "ended") /\ UNCHANGED <<op, mem>>

Raised(st, n) == IF n <= st.max THEN st ELSE [st EXCEPT !.max = n]

Resumed(st) == IF st.status = "partial" THEN [st EXCEPT !.status = "pending"] ELSE st

RunRaise(c) ==
    /\ Called(c, "raise") /\ Load
    /\ IF goal = None THEN Return(c)
       ELSE \E n \in Raises : Proceed(c, "raise", Raised(Healed(goal), n))

(* Fault: the goal is marked running before the lock. *)
ResumeAnswerMarks(c) ==
    /\ Called(c, "answer")
    /\ IF goal = None \/ goal.status # "blocked" THEN Load /\ Return(c)
       ELSE /\ Proceed(c, "answer", [goal EXCEPT !.answers = @ \cup {c}, !.status = "running"])
            /\ goal' = mem'[c]

ResumeAnswer(c) ==
    /\ Called(c, "answer") /\ Load
    /\ IF goal = None \/ goal.status # "blocked" THEN Return(c)
       ELSE Proceed(c, "answer", [goal EXCEPT !.answers = @ \cup {c}])

(* A goal that is missing, done or cannot be loaded is started afresh. *)
RunSpec(c) ==
    /\ Called(c, "spec")
    /\ \/ Load /\ goal # None /\ goal.status = "blocked" /\ Return(c)
       \/ /\ Load /\ goal # None /\ goal.status \notin {"blocked", "done"}
          /\ \E n \in Raises : Proceed(c, "spec", Resumed(Raised(Healed(goal), n)))
       \/ /\ IF goal = None \/ goal.status = "done" THEN Load ELSE UNCHANGED goal
          /\ \E n \in Raises : Proceed(c, "spec", New(n))

(* Remove and Reset look only whether there is a file. *)
Admin(c, o) ==
    /\ Called(c, o) /\ UNCHANGED goal
    /\ IF goal = None THEN Return(c) ELSE Proceed(c, o, None)

(* Create takes no run lock. *)
Create(c) == Called(c, "create") /\ Return(c) /\ \E n \in Raises : goal' = New(n)

-----------------------------------------------------------------------------
(* acquireRunExclusive.                                                    *)

(* The locals of calls that are over. *)
Forget(cs, l) ==
    /\ pc' = [c \in Calls |-> IF c \in cs THEN l ELSE pc[c]]
    /\ op' = [c \in Calls |-> IF c \in cs THEN "none" ELSE op[c]]
    /\ mem' = [c \in Calls |-> IF c \in cs THEN None ELSE mem[c]]
    /\ blips' = [c \in Calls |-> IF c \in cs THEN 0 ELSE blips[c]]
    /\ overruns' = [c \in Calls |-> IF c \in cs THEN 0 ELSE overruns[c]]
    /\ cancelled' = [c \in Calls |-> IF c \in cs THEN FALSE ELSE cancelled[c]]

Refused(c) == Forget({c}, "ended") /\ UNCHANGED <<goal, flock, alive, lost>>

Acquire(c) ==
    /\ pc[c] = "acquire"
    /\ \/ On[c] \in active /\ Refused(c) /\ UNCHANGED active
       \/ /\ On[c] \notin active /\ Goto(c, "flock") /\ active' = active \cup {On[c]}
          /\ Counted /\ Elsewhere /\ UNCHANGED <<goal, flock, op, mem>>

Runner(c) == op[c] \in {"raise", "spec", "answer"}

(* Fault: a call that finds the file locked keeps the id in activeRuns. *)
KeepActive(c) == active

WithoutActive(c) == active \ {On[c]}

(* Fault: only activeRuns is consulted. *)
InProcessOnly(c) ==
    /\ pc[c] = "flock" /\ flock' = c
    /\ Goto(c, IF Runner(c) THEN "begin" ELSE op[c])
    /\ Counted /\ Elsewhere /\ UNCHANGED <<goal, active, op, mem>>

Flock(c) ==
    /\ pc[c] = "flock"
    /\ \/ flock # None /\ Refused(c) /\ active' = WithoutActive(c)
       \/ /\ flock = None /\ flock' = c
          /\ Goto(c, IF Runner(c) THEN "begin" ELSE op[c])
          /\ Counted /\ Elsewhere /\ UNCHANGED <<goal, active, op, mem>>

(* The deferred release: the file first, then the id. *)
Release(c) ==
    /\ pc[c] = "exit" /\ Goto(c, "leave") /\ flock' = None
    /\ Counted /\ Elsewhere /\ UNCHANGED <<goal, active, op, mem>>

Leave(c) ==
    /\ pc[c] = "leave" /\ active' = WithoutActive(c)
    /\ Forget({c}, "ended") /\ UNCHANGED <<goal, flock, alive, lost>>

-----------------------------------------------------------------------------
(* Remove and Reset, with the lock.                                        *)

Done(c) == Goto(c, "exit") /\ Counted /\ Elsewhere /\ Unlocked /\ UNCHANGED <<op, mem>>

Remove(c) ==
    /\ pc[c] \in {"remove", "force"} /\ Done(c)
    /\ goal' = IF pc[c] = "remove" /\ goal # None /\ Healed(goal).status = "running"
               THEN goal ELSE None

Reset(c) ==
    /\ pc[c] = "reset" /\ Done(c)
    /\ goal' = IF goal = None \/ Healed(goal).status = "running" THEN goal
               ELSE [Healed(goal) EXCEPT !.status = "pending", !.step = 0, !.retry = 0]

-----------------------------------------------------------------------------
(* runState.                                                               *)

InRun(c) == pc[c] \in {"head", "step", "backoff"}

Save(c, st, l) ==
    /\ goal' = st /\ Remember(c, st) /\ Goto(c, l)
    /\ Unlocked /\ Elsewhere /\ UNCHANGED op

AlreadyDone(c) ==
    /\ pc[c] = "begin" /\ mem[c].status = "done" /\ Goto(c, "exit")
    /\ Unlocked /\ Counted /\ Elsewhere /\ UNCHANGED <<goal, op, mem>>

(* The owner died since the state was loaded. *)
HealLoaded(c) == pc[c] = "begin" /\ Stale(mem[c]) /\ Save(c, Healed(mem[c]), "begin") /\ Counted

Start(c) ==
    /\ pc[c] = "begin" /\ mem[c].status # "done" /\ ~Stale(mem[c])
    /\ Save(c, [mem[c] EXCEPT !.status = "running", !.owner = On[c]], "head")
    /\ Counted

(* The head of the loop: a cancelled context, the phase of the next step,   *)
(* or no step left.                                                         *)
Stopped(c) ==
    /\ pc[c] = "head" /\ mem[c].step < mem[c].max /\ cancelled[c]
    /\ Save(c, [mem[c] EXCEPT !.status = "failed"], "exit") /\ Counted

BeginStep(c) ==
    /\ pc[c] = "head" /\ mem[c].step < mem[c].max /\ ~cancelled[c]
    /\ Save(c, mem[c], "step") /\ Counted

OutOfSteps(c) ==
    /\ pc[c] = "head" /\ mem[c].step >= mem[c].max
    /\ Save(c, [mem[c] EXCEPT !.status = "partial"], "exit") /\ Counted

Stepped(c)     == [mem[c] EXCEPT !.step = @ + 1]
Stop(c, s)     == [Stepped(c) EXCEPT !.status = s]
Count(b, o, c) == blips' = [blips EXCEPT ![c] = b] /\ overruns' = [overruns EXCEPT ![c] = o]

HardBudget(c) == Save(c, Stop(c, "partial"), "exit") /\ Counted

(* Fault: a step that did not get through is not counted. *)
UncountedStep(c) == mem[c]

(* The state to go on with after a step that did not get through. *)
SoftFailed(c) == Stepped(c)

TurnBudget(c) ==
    /\ Count(0, overruns[c] + 1, c)
    /\ IF overruns'[c] >= MaxTurnBudgetSteps THEN Save(c, Stop(c, "failed"), "exit")
       ELSE Save(c, SoftFailed(c), "head")

Transient(c) ==
    /\ Count(blips[c] + 1, 0, c)
    /\ IF blips'[c] >= MaxTransientSteps THEN Save(c, Stop(c, "failed"), "exit")
       ELSE Save(c, SoftFailed(c), "backoff")

(* The select: the wait is over, or the context is. *)
BackedOff(c) ==
    /\ pc[c] = "backoff" /\ Goto(c, "head")
    /\ Unlocked /\ Counted /\ Elsewhere /\ UNCHANGED <<goal, op, mem>>
BackoffStopped(c) ==
    /\ pc[c] = "backoff" /\ cancelled[c]
    /\ Save(c, [mem[c] EXCEPT !.status = "failed"], "exit") /\ Counted

StepError(c) == Save(c, Stop(c, "failed"), "exit") /\ Counted

(* A reroute, or progress. *)
Continue(c) == Save(c, [Stepped(c) EXCEPT !.retry = 0], "head") /\ Count(0, 0, c)

RetrySame(c) ==
    LET st == [Stepped(c) EXCEPT !.retry = @ + 1] IN
    /\ Count(0, 0, c)
    /\ IF st.retry > MaxStepRetries
       THEN Save(c, [st EXCEPT !.status = "partial"], "exit")
       ELSE Save(c, st, "head")

Escalate(c)    == Save(c, Stop(c, "blocked"), "exit") /\ Count(0, 0, c)
PartialStop(c) == Save(c, Stop(c, "partial"), "exit") /\ Count(0, 0, c)
Finish(c)      == Save(c, [Stop(c, "done") EXCEPT !.retry = 0], "exit") /\ Count(0, 0, c)
Fail(c)        == Save(c, Stop(c, "failed"), "exit") /\ Count(0, 0, c)

(* Each of these saves may fail; runState then returns with its error. *)
Saving(c) ==
    \/ pc[c] \in {"head", "step"}
    \/ pc[c] = "begin" /\ mem[c].status # "done"
    \/ pc[c] = "backoff" /\ cancelled[c]

SaveFails(c) ==
    /\ Saving(c) /\ lost.number < MaxLostSaves
    /\ lost' = [procs |-> lost.procs \cup {On[c]}, number |-> lost.number + 1]
    /\ Goto(c, "exit")
    /\ Unlocked /\ Counted /\ UNCHANGED <<goal, alive, op, mem, cancelled>>

-----------------------------------------------------------------------------
(* The environment: a host cancels a run, which the run notices only in    *)
(* its loop, and a process dies.                                           *)

Cancel(c) ==
    /\ c \in Cancellable /\ InRun(c) /\ ~cancelled[c]
    /\ cancelled' = [cancelled EXCEPT ![c] = TRUE]
    /\ Counted /\ UNCHANGED <<goal, alive, active, flock, op, pc, mem, lost>>

Crash(p) ==
    /\ p \in Mortal \cap alive
    /\ alive' = alive \ {p} /\ active' = active \ {p}
    /\ flock' = IF flock # None /\ On[flock] = p THEN None ELSE flock
    /\ Forget({c \in Calls : On[c] = p}, "dead")
    /\ UNCHANGED <<goal, lost>>

-----------------------------------------------------------------------------

Enter(c) ==
    \/ RunRaise(c) \/ ResumeAnswer(c) \/ RunSpec(c) \/ Create(c)
    \/ \E o \in {"remove", "force", "reset"} : Admin(c, o)

(* RunStep returns. *)
Step(c) ==
    /\ pc[c] = "step"
    /\ \/ HardBudget(c) \/ TurnBudget(c) \/ Transient(c) \/ StepError(c) \/ Continue(c)
       \/ RetrySame(c) \/ Escalate(c) \/ PartialStop(c) \/ Finish(c) \/ Fail(c)

Advance(c) ==
    \/ Acquire(c) \/ Flock(c) \/ Release(c) \/ Leave(c) \/ Remove(c) \/ Reset(c)
    \/ AlreadyDone(c) \/ HealLoaded(c) \/ Start(c)
    \/ Stopped(c) \/ BeginStep(c) \/ OutOfSteps(c) \/ Step(c)
    \/ BackedOff(c) \/ BackoffStopped(c)

Next ==
    \/ \E c \in Calls : Enter(c) \/ Advance(c) \/ SaveFails(c) \/ Cancel(c)
    \/ \E p \in Procs : Crash(p)

Spec == Init /\ [][Next]_vars

(* A call goes on: the step's Prompt returns and a lock that is held is    *)
(* not waited for.  Nobody has to call, to cancel or to die.               *)
FairSpec == Spec /\ \A c \in Calls : WF_vars(Advance(c))

-----------------------------------------------------------------------------
(* Properties.                                                             *)

Holds(c)  == InRun(c) \/ pc[c] \in {"begin", "remove", "force", "reset", "exit"}
Locked(c) == Holds(c) \/ pc[c] \in {"flock", "leave"}

States == [status : {"pending", "running", "done", "failed", "partial", "blocked"},
           step : Nat, max : Nat, retry : Nat, owner : Procs \cup {None},
           answers : SUBSET Calls]

Labels == {"idle", "acquire", "flock", "begin", "remove", "force", "reset",
           "head", "step", "backoff", "exit", "leave", "ended", "dead"}

(* Types of the variables. *)
TypeOK ==
    /\ goal \in States \cup {None}
    /\ alive \subseteq Procs /\ active \subseteq alive
    /\ flock \in Calls \cup {None}
    /\ op \in [Calls -> Kinds \cup {"none"}]
    /\ pc \in [Calls -> Labels]
    /\ mem \in [Calls -> States \cup {None}]
    /\ blips \in [Calls -> Nat] /\ overruns \in [Calls -> Nat]
    /\ cancelled \in [Calls -> BOOLEAN]
    /\ lost \in [procs : SUBSET Procs, number : Nat]

(* At most one call at a time runs, removes or resets the goal, in this    *)
(* process or in another, whoever dies and whoever is refused.             *)
OneHolder == \A c, d \in Calls : Holds(c) /\ Holds(d) => c = d

(* No ghost: a file that says running names its owner, and either a run of *)
(* that process is under way or the owner is dead, so that the next Load   *)
(* heals it.  A save that failed is the only other way to leave one: the   *)
(* run has then returned and the file is Running until its process exits.  *)
RunningIsLive ==
    goal # None /\ goal.status = "running" =>
        /\ goal.owner # None
        /\ \/ goal.owner \notin alive
           \/ goal.owner \in lost.procs
           \/ \E c \in Calls : InRun(c) /\ On[c] = goal.owner

(* While a run is under way nobody else writes its file, Create excepted:  *)
(* not a Load that heals, a Remove --force, a Reset, nor a call that was   *)
(* refused.                                                                *)
OnlyRunWrites ==
    [][\A c \in Calls :
          InRun(c) /\ pc'[c] = pc[c] /\ goal' # goal =>
              \E d \in Calls : pc[d] = "idle" /\ pc'[d] = "ended" /\ goal' \in {New(n) : n \in Raises}]_vars

(* A call is refused as already running only while another call, of a live *)
(* process, is between taking and leaving the lock: neither a refusal nor  *)
(* a crash leaves the goal locked.                                         *)
RefusedByAnother ==
    [][\A c \in Calls :
          pc[c] \in {"acquire", "flock"} /\ pc'[c] = "ended" =>
              \E d \in Calls : d # c /\ On[d] \in alive /\ Locked(d)]_vars

(* Every call ends: whatever mixture of progress, retries, upstream        *)
(* failures and exhausted turn budgets its steps return, the step budget   *)
(* runs out.                                                               *)
CallsEnd == \A c \in Calls : pc[c] = "acquire" ~> pc[c] \in {"ended", "dead"}

(* Running a goal that is done takes no step: RunRaise answers "already    *)
(* done" and leaves the file alone.                                        *)
DoneIsLeftAlone ==
    [][\A c \in Calls :
          op[c] = "raise" /\ pc[c] = "begin" /\ pc'[c] = "head" =>
              goal = None \/ goal.status # "done"]_vars
=============================================================================

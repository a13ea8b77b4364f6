----------------------------- MODULE GoalProofs -----------------------------
(***************************************************************************)
(* GoalRun, for any number of calls and processes: one call at a time      *)
(* holds the goal, a file that says running is live or can be healed, and  *)
(* nobody else writes the file of a run.                                   *)
(*                                                                         *)
(* RunningIsLive is not inductive.  A run that stops being one must have   *)
(* written something else than running, which needs to know what it holds  *)
(* in memory (Placed, Owned); and a call that writes the file must not     *)
(* take it from a run, which needs the run lock (Exclusive).  That a Load  *)
(* never heals the file of a run needs to know whose file it is (Fresh).   *)
(*                                                                         *)
(* Workflow, for any number of phases, calls and processes: it implements  *)
(* PhaseOrder, and a run that is said to have succeeded has.  The argument *)
(* is that what the file says of a phase bounds how often it was given     *)
(* (Books), that a call inside the lock has the file in memory (Current)   *)
(* and marks a phase in the file before it gives it (Marked).              *)
(*                                                                         *)
(* GoalStep, for any number of items, reports and lists a model may make:  *)
(* a step drops no item, merges nothing that did not end well and does not *)
(* hide why it failed.  What a task has in hand fits the place it is at    *)
(* (TaskFits): it is taken into the base branch only if its prompt ended   *)
(* well, and its list names the goal's items through every report and      *)
(* merge.  Tasks are cancelled by the step only when one of them failed    *)
(* of itself (Caused), so that failure is there to be reported.  What a    *)
(* prompt reports and what a join takes over are functions on numbers; the *)
(* facts about them are shown of the least number they could fail for      *)
(* (LeastOf).                                                              *)
(***************************************************************************)
EXTENDS GoalMC, FiniteSetTheorems, WellFoundedInduction, TLAPS

Busy == {"acquire", "flock", "begin", "remove", "force", "reset",
         "head", "step", "backoff", "exit", "leave"}

(* What a call that is under way has in its hands. *)
Placed ==
    \A c \in Calls :
        /\ pc[c] \in Busy => On[c] \in alive
        /\ pc[c] \in {"acquire", "flock"} => op[c] \in Kinds \ {"create"}
        /\ pc[c] \in {"acquire", "flock"} /\ Runner(c) => mem[c] \in States
        /\ pc[c] = "begin" \/ InRun(c) => mem[c] \in States

Exclusive == \A c \in Calls : Holds(c) => flock = c

Owned == \A c \in Calls : InRun(c) => mem[c].status = "running" /\ mem[c].owner = On[c]

(* No file that the run would have to be healed from, whoever dies. *)
Fresh ==
    \A c \in Calls :
        InRun(c) /\ goal # None /\ goal.status = "running" => goal.owner = On[c]

IInv == TypeOK /\ Placed /\ Exclusive /\ Owned /\ Fresh /\ RunningIsLive

(* A new goal, a healed one, one with a raised budget and a resumed one    *)
(* are goals, and none of these operators makes a goal running.            *)
LEMMA Records ==
    ASSUME GoalAssumption, TypeOK
    PROVE  /\ \A n \in Raises : New(n) \in States /\ New(n).status = "pending"
           /\ New(0) \in States /\ New(0).status = "pending"
           /\ \A st \in States :
                 /\ Healed(st) \in States
                 /\ Healed(st).status = "running" => Healed(st) = st
                 /\ Resumed(st) \in States
                 /\ \A n \in Raises : Raised(st, n) \in States
<1>1. 0 \in Nat /\ MaxSteps \in Nat /\ Raises \subseteq Nat
  BY DEF GoalAssumption
<1>2. \A n \in Raises : New(n) \in States /\ New(n).status = "pending"
  BY <1>1 DEF New, States
<1>3. New(0) \in States /\ New(0).status = "pending"
  BY <1>1 DEF New, States
<1>4. ASSUME NEW st \in States
      PROVE  /\ Healed(st) \in States
             /\ Healed(st).status = "running" => Healed(st) = st
  BY <1>4 DEF Healed, States
<1>5. \A st \in States : Resumed(st) \in States
  BY DEF Resumed, States
<1>6. \A st \in States : \A n \in Raises : Raised(st, n) \in States
  BY <1>1 DEF Raised, States
<1> QED
  BY <1>2, <1>3, <1>4, <1>5, <1>6

LEMMA Initially == ASSUME GoalAssumption, Init PROVE IInv
<1>1. goal \in States \cup {None} /\ (goal # None => goal.status = "pending")
  BY DEF Init, New, States, GoalAssumption
<1>2. TypeOK
  BY <1>1 DEF Init, TypeOK, Labels
<1>3. Placed /\ Exclusive /\ Owned /\ Fresh
  BY DEF Init, Placed, Exclusive, Owned, Fresh, Holds, InRun, Runner, Busy
<1>4. RunningIsLive
  BY <1>1 DEF RunningIsLive
<1> QED
  BY <1>2, <1>3, <1>4 DEF IInv

-----------------------------------------------------------------------------
(* Quiet: what a call does before it holds the lock.  It writes only what  *)
(* is not running, or the file as it was.                                  *)
LEMMA QuietStep ==
    ASSUME GoalAssumption, IInv, NEW c \in Calls, NEW o, Called(c, o), o \in Kinds,
           goal' \in States \cup {None},
           goal' # None /\ goal'.status = "running" => goal' = goal,
           \/ Return(c)
           \/ \E st \in States : Proceed(c, o, st) /\ o # "create"
           \/ Proceed(c, o, None) /\ o \notin {"raise", "spec", "answer", "create"}
    PROVE  IInv'
<1> USE DEF IInv
<1>1. /\ pc' = [pc EXCEPT ![c] = pc'[c]] /\ pc'[c] \in {"acquire", "ended"}
      /\ pc[c] = "idle" /\ On[c] \in alive
      /\ UNCHANGED <<alive, active, flock, lost, blips, overruns, cancelled>>
  BY DEF Called, Return, Proceed, Goto, TypeOK, Unlocked, Counted, Elsewhere
<1>2. /\ op' \in [Calls -> Kinds \cup {"none"}]
      /\ mem' \in [Calls -> States \cup {None}]
      /\ \A d \in Calls : d # c => op'[d] = op[d] /\ mem'[d] = mem[d]
      /\ pc'[c] = "acquire" => op'[c] \in Kinds \ {"create"} /\ (Runner(c)' => mem'[c] \in States)
  BY DEF Return, Proceed, Goto, Remember, TypeOK, Runner
<1>3. TypeOK'
  <2>1. goal' \in States \cup {None}
    OBVIOUS
  <2>2. pc' \in [Calls -> Labels]
    BY <1>1 DEF TypeOK, Labels
  <2> HIDE DEF States
  <2> QED
    BY <1>1, <1>2, <2>1, <2>2 DEF TypeOK
<1>4. Placed'
  BY <1>1, <1>2 DEF Placed, TypeOK, Runner, InRun, Busy
<1>5. Exclusive' /\ Owned' /\ Fresh'
  BY <1>1, <1>2 DEF Exclusive, Owned, Fresh, TypeOK, Holds, InRun
<1>6. RunningIsLive'
  BY <1>1 DEF RunningIsLive, TypeOK, InRun
<1> QED
  BY <1>3, <1>4, <1>5, <1>6

(* Everything a call may begin with. *)
LEMMA EnterSteps ==
    ASSUME GoalAssumption, IInv, NEW c \in Calls, Enter(c)
    PROVE  IInv'
<1> USE DEF IInv
<1>1. goal \in States \cup {None}
  BY DEF TypeOK
<1>2. /\ Healed(goal) \in States \cup {None}
      /\ Healed(goal) # None /\ Healed(goal).status = "running" => Healed(goal) = goal
  BY <1>1, Records DEF Healed, Stale
<1>3. CASE RunRaise(c)
  <2>1. CASE goal = None
    BY <1>2, <1>3, <2>1, QuietStep DEF RunRaise, Load, Kinds
  <2>2. CASE goal # None
    <3>1. PICK n \in Raises : Proceed(c, "raise", Raised(Healed(goal), n))
      BY <1>3, <2>2 DEF RunRaise
    <3>2. Raised(Healed(goal), n) \in States
      BY <1>1, <2>2, Records
    <3> QED
      BY <1>2, <1>3, <3>1, <3>2, QuietStep DEF RunRaise, Load, Kinds
  <2> QED
    BY <2>1, <2>2
<1>4. CASE ResumeAnswer(c)
  <2>1. CASE goal = None \/ goal.status # "blocked"
    BY <1>2, <1>4, <2>1, QuietStep DEF ResumeAnswer, Load, Kinds
  <2>2. CASE ~(goal = None \/ goal.status # "blocked")
    <3>1. [goal EXCEPT !.answers = @ \cup {c}] \in States
      BY <1>1, <2>2 DEF States
    <3> QED
      BY <1>2, <1>4, <2>2, <3>1, QuietStep DEF ResumeAnswer, Load, Kinds
  <2> QED
    BY <2>1, <2>2
<1>5. CASE RunSpec(c)
  <2>1. Called(c, "spec")
    BY <1>5 DEF RunSpec
  <2>2. goal' = goal \/ goal' = Healed(goal)
    BY <1>5 DEF RunSpec, Load
  <2>3. \/ Return(c)
        \/ \E st \in States : Proceed(c, "spec", st)
    <3>1. ASSUME goal # None, NEW n \in Raises
          PROVE  Resumed(Raised(Healed(goal), n)) \in States
      BY <1>1, <3>1, Records
    <3>2. \A n \in Raises : New(n) \in States
      BY Records
    <3> QED
      BY <1>5, <3>1, <3>2 DEF RunSpec
  <2> QED
    BY <1>1, <1>2, <2>1, <2>2, <2>3, QuietStep DEF Kinds
<1>6. CASE Create(c)
  BY <1>6, Records, QuietStep DEF Create, Kinds
<1>7. ASSUME NEW o \in {"remove", "force", "reset"}, Admin(c, o) PROVE IInv'
  BY <1>1, <1>7, QuietStep DEF Admin, Kinds
<1> QED
  BY <1>3, <1>4, <1>5, <1>6, <1>7 DEF Enter

-----------------------------------------------------------------------------
(* Saving: a call that holds the lock replaces its state and the file.     *)
LEMMA SaveStep ==
    ASSUME GoalAssumption, IInv, NEW c \in Calls, pc[c] = "begin" \/ InRun(c),
           NEW st \in States, NEW l \in {"begin", "head", "step", "backoff", "exit"},
           Save(c, st, l),
           blips' \in [Calls -> Nat], overruns' \in [Calls -> Nat],
           l \in {"head", "step", "backoff"} => st.status = "running" /\ st.owner = On[c],
           l \in {"begin", "exit"} => st.status # "running"
    PROVE  IInv'
<1> USE DEF IInv
<1>1. /\ goal' = st /\ mem' = [mem EXCEPT ![c] = st] /\ pc' = [pc EXCEPT ![c] = l]
      /\ UNCHANGED <<active, flock, alive, cancelled, lost, op>>
  BY DEF Save, Remember, Goto, Unlocked, Elsewhere
<1>2. pc \in [Calls -> Labels] /\ mem \in [Calls -> States \cup {None}]
  BY DEF TypeOK
<1>3. On[c] \in alive /\ On[c] # None
  BY DEF Placed, Busy, InRun, TypeOK, GoalAssumption
<1>4. flock = c /\ \A d \in Calls : Holds(d) => d = c
  BY DEF Exclusive, Holds
<1>5. TypeOK'
  <2>1. mem' \in [Calls -> States \cup {None}]
    BY <1>1, <1>2
  <2>2. pc' \in [Calls -> Labels]
    BY <1>1 DEF TypeOK, Labels
  <2> QED
    BY <1>1, <2>1, <2>2 DEF TypeOK
<1>6. Placed'
  BY <1>1, <1>2, <1>3 DEF Placed, Runner, InRun, Busy
<1>7. Exclusive'
  BY <1>1, <1>2, <1>4 DEF Exclusive, Holds, InRun
<1>8. Owned' /\ Fresh'
  <2>1. \A d \in Calls \ {c} : ~InRun(d)'
    BY <1>1, <1>2, <1>4 DEF Holds, InRun
  <2>2. InRun(c)' => st.status = "running" /\ st.owner = On[c]
    BY <1>1, <1>2 DEF InRun
  <2> QED
    BY <1>1, <1>2, <2>1, <2>2 DEF Owned, Fresh
<1>9. RunningIsLive'
  <2>1. l \in {"head", "step", "backoff"} => InRun(c)'
    BY <1>1, <1>2 DEF InRun
  <2> QED
    BY <1>1, <1>3, <2>1 DEF RunningIsLive
<1> QED
  BY <1>5, <1>6, <1>7, <1>8, <1>9

(* The start of a run, and a state healed before it. *)
LEMMA BeginSteps ==
    ASSUME GoalAssumption, IInv, NEW c \in Calls, HealLoaded(c) \/ Start(c)
    PROVE  IInv'
<1>1. pc[c] = "begin" /\ mem[c] \in States /\ Counted
  BY DEF HealLoaded, Start, IInv, Placed
<1>2. blips' \in [Calls -> Nat] /\ overruns' \in [Calls -> Nat]
  BY <1>1 DEF Counted, IInv, TypeOK
<1>3. CASE HealLoaded(c)
  <2>1. Healed(mem[c]) \in States /\ Healed(mem[c]).status # "running"
    BY <1>1, <1>3 DEF HealLoaded, Healed, States
  <2> QED
    BY <1>1, <1>2, <1>3, <2>1, SaveStep DEF HealLoaded
<1>4. CASE Start(c)
  <2> DEFINE st == [mem[c] EXCEPT !.status = "running", !.owner = On[c]]
  <2>1. st \in States /\ st.status = "running" /\ st.owner = On[c]
    BY <1>1 DEF States, GoalAssumption
  <2>2. Save(c, st, "head")
    BY <1>4 DEF Start
  <2> HIDE DEF st
  <2> QED
    BY <1>1, <1>2, <2>1, <2>2, SaveStep
<1> QED
  BY <1>3, <1>4

(* The head of the loop, and the end of a wait that is cut short. *)
LEMMA HeadSteps ==
    ASSUME GoalAssumption, IInv, NEW c \in Calls,
           Stopped(c) \/ BeginStep(c) \/ OutOfSteps(c) \/ BackoffStopped(c)
    PROVE  IInv'
<1>1. InRun(c) /\ Counted
  BY DEF Stopped, BeginStep, OutOfSteps, BackoffStopped, InRun
<1>2. mem[c] \in States /\ mem[c].status = "running" /\ mem[c].owner = On[c]
  BY <1>1 DEF IInv, Placed, Owned
<1>3. blips' \in [Calls -> Nat] /\ overruns' \in [Calls -> Nat]
  BY <1>1 DEF Counted, IInv, TypeOK
<1>4. \A s \in {"failed", "partial"} :
         /\ [mem[c] EXCEPT !.status = s] \in States
         /\ [mem[c] EXCEPT !.status = s].status # "running"
  BY <1>2 DEF States
<1>5. CASE Stopped(c)
  BY <1>1, <1>3, <1>4, <1>5, SaveStep DEF Stopped
<1>6. CASE BeginStep(c)
  BY <1>1, <1>2, <1>3, <1>6, SaveStep DEF BeginStep
<1>7. CASE OutOfSteps(c)
  BY <1>1, <1>3, <1>4, <1>7, SaveStep DEF OutOfSteps
<1>8. CASE BackoffStopped(c)
  BY <1>1, <1>3, <1>4, <1>8, SaveStep DEF BackoffStopped
<1> QED
  BY <1>5, <1>6, <1>7, <1>8

(* A step that returned.  Each outcome saves the state one step further:   *)
(* still running at the head of the loop or in the wait after an upstream  *)
(* failure, and in another status once the run is over.                    *)
LEMMA StepSteps == ASSUME GoalAssumption, IInv, NEW c \in Calls, Step(c) PROVE IInv'
<1>1. InRun(c)
  BY DEF Step, InRun
<1>2. mem[c] \in States /\ mem[c].status = "running" /\ mem[c].owner = On[c]
  BY <1>1 DEF IInv, Placed, Owned
<1>3. /\ Stepped(c) \in States
      /\ Stepped(c).status = "running" /\ Stepped(c).owner = On[c]
  BY <1>2 DEF Stepped, States
<1>4. \A s \in {"failed", "partial", "blocked", "done"} :
         /\ Stop(c, s) \in States /\ Stop(c, s).status = s
         /\ [Stop(c, s) EXCEPT !.retry = 0] \in States
         /\ [Stop(c, s) EXCEPT !.retry = 0].status = s
  BY <1>3 DEF Stop, States
<1>5. blips \in [Calls -> Nat] /\ overruns \in [Calls -> Nat]
  BY DEF IInv, TypeOK
<1>6. Counted => blips' \in [Calls -> Nat] /\ overruns' \in [Calls -> Nat]
  BY <1>5 DEF Counted
<1>7. \A b, o \in Nat :
         Count(b, o, c) => blips' \in [Calls -> Nat] /\ overruns' \in [Calls -> Nat]
  BY <1>5 DEF Count
<1>8. 0 \in Nat /\ blips[c] + 1 \in Nat /\ overruns[c] + 1 \in Nat
  BY <1>5
<1>9. CASE HardBudget(c)
  BY <1>1, <1>4, <1>6, <1>9, SaveStep DEF HardBudget
<1>10. CASE TurnBudget(c)
  BY <1>1, <1>3, <1>4, <1>7, <1>8, <1>10, SaveStep DEF TurnBudget, SoftFailed
<1>11. CASE Transient(c)
  BY <1>1, <1>3, <1>4, <1>7, <1>8, <1>11, SaveStep DEF Transient, SoftFailed
<1>12. CASE StepError(c)
  BY <1>1, <1>4, <1>6, <1>12, SaveStep DEF StepError
<1>13. CASE Continue(c)
  <2> DEFINE st == [Stepped(c) EXCEPT !.retry = 0]
  <2>1. st \in States /\ st.status = "running" /\ st.owner = On[c]
    BY <1>3 DEF States
  <2>2. Save(c, st, "head") /\ Count(0, 0, c)
    BY <1>13 DEF Continue
  <2> HIDE DEF st
  <2> QED
    BY <1>1, <1>7, <1>8, <2>1, <2>2, SaveStep
<1>14. CASE RetrySame(c)
  <2> DEFINE st == [Stepped(c) EXCEPT !.retry = @ + 1]
             over == [st EXCEPT !.status = "partial"]
  <2>1. st \in States /\ st.status = "running" /\ st.owner = On[c]
    BY <1>3 DEF States
  <2>2. over \in States /\ over.status # "running"
    BY <2>1 DEF States
  <2>3. Count(0, 0, c) /\ (Save(c, over, "exit") \/ Save(c, st, "head"))
    BY <1>14 DEF RetrySame
  <2> HIDE DEF st, over
  <2> QED
    BY <1>1, <1>7, <1>8, <2>1, <2>2, <2>3, SaveStep
<1>15. CASE Escalate(c)
  BY <1>1, <1>4, <1>7, <1>8, <1>15, SaveStep DEF Escalate
<1>16. CASE PartialStop(c)
  BY <1>1, <1>4, <1>7, <1>8, <1>16, SaveStep DEF PartialStop
<1>17. CASE Finish(c)
  BY <1>1, <1>4, <1>7, <1>8, <1>17, SaveStep DEF Finish
<1>18. CASE Fail(c)
  BY <1>1, <1>4, <1>7, <1>8, <1>18, SaveStep DEF Fail
<1> QED
  BY <1>9, <1>10, <1>11, <1>12, <1>13, <1>14, <1>15, <1>16, <1>17, <1>18 DEF Step

-----------------------------------------------------------------------------
(* Moves that leave the file, and what calls have in memory, alone.        *)
Untouched == UNCHANGED <<goal, op, mem, alive, cancelled, lost, blips, overruns>>

LEMMA MoveStep ==
    ASSUME GoalAssumption, IInv, NEW c \in Calls, NEW l \in Labels, Goto(c, l), Untouched,
           pc[c] \in Busy, active' \subseteq alive, flock' \in Calls \cup {None},
           l \in {"flock", "begin", "remove", "force", "reset", "exit", "leave", "head"},
           l = "flock" => pc[c] = "acquire",
           l = "begin" => mem[c] \in States,
           l = "head" => InRun(c),
           InRun(c) => l = "head",
           \A d \in Calls \ {c} : Holds(d) => flock' = d,
           l \notin {"flock", "leave"} => flock' = c
    PROVE  IInv'
<1> USE DEF IInv
<1>1. pc \in [Calls -> Labels] /\ pc' = [pc EXCEPT ![c] = l] /\ Untouched
  BY DEF TypeOK, Goto
<1>2. TypeOK'
  BY <1>1 DEF TypeOK, Untouched
<1>3. Placed'
  BY <1>1 DEF Placed, Untouched, Busy, InRun, Runner
<1>4. Exclusive'
  BY <1>1 DEF Exclusive, Holds, InRun, Untouched
<1>5. Owned' /\ Fresh'
  BY <1>1 DEF Owned, Fresh, InRun, Untouched
<1>6. RunningIsLive'
  <2>1. \A d \in Calls : InRun(d) => InRun(d)'
    BY <1>1 DEF InRun
  <2> QED
    BY <1>1, <2>1 DEF RunningIsLive, Untouched
<1> QED
  BY <1>2, <1>3, <1>4, <1>5, <1>6

LEMMA MoveSteps ==
    ASSUME GoalAssumption, IInv, NEW c \in Calls,
           \/ On[c] \notin active /\ Acquire(c)
           \/ flock = None /\ Flock(c)
           \/ Release(c) \/ AlreadyDone(c) \/ BackedOff(c)
    PROVE  IInv'
<1> USE DEF IInv
<1>1. \A d \in Calls : Holds(d) => flock = d
  BY DEF Exclusive
<1>2. active \subseteq alive /\ flock \in Calls \cup {None} /\ None \notin Calls
  BY DEF TypeOK, GoalAssumption
<1>3. CASE On[c] \notin active /\ Acquire(c)
  <2>1. pc[c] = "acquire" /\ Goto(c, "flock") /\ active' = active \cup {On[c]}
        /\ flock' = flock /\ Untouched
    BY <1>3 DEF Acquire, Untouched, Counted, Elsewhere
  <2>2. On[c] \in alive
    BY <2>1 DEF Placed, Busy
  <2> QED
    BY <1>1, <1>2, <2>1, <2>2, MoveStep DEF Busy, Labels, InRun
<1>4. CASE flock = None /\ Flock(c)
  <2>1. /\ pc[c] = "flock" /\ Goto(c, IF Runner(c) THEN "begin" ELSE op[c])
        /\ flock' = c /\ active' = active /\ Untouched
    BY <1>4 DEF Flock, Untouched, Counted, Elsewhere
  <2>2. CASE Runner(c)
    <3>1. mem[c] \in States
      BY <2>1, <2>2 DEF Placed
    <3> QED
      BY <1>1, <1>2, <1>4, <2>1, <2>2, <3>1, MoveStep DEF Busy, Labels, InRun
  <2>3. CASE ~Runner(c)
    <3>1. op[c] \in {"remove", "force", "reset"}
      BY <2>1, <2>3 DEF Placed, Kinds, Runner
    <3> QED
      BY <1>1, <1>2, <1>4, <2>1, <2>3, <3>1, MoveStep DEF Busy, Labels, InRun
  <2> QED
    BY <2>2, <2>3
<1>5. CASE Release(c)
  <2>1. /\ pc[c] = "exit" /\ Goto(c, "leave") /\ flock' = None
        /\ active' = active /\ Untouched
    BY <1>5 DEF Release, Untouched, Counted, Elsewhere
  <2>2. \A d \in Calls \ {c} : ~Holds(d)
    BY <1>1, <2>1 DEF Holds
  <2> QED
    BY <1>2, <2>1, <2>2, MoveStep DEF Busy, Labels, InRun
<1>6. CASE AlreadyDone(c)
  <2>1. /\ pc[c] = "begin" /\ Goto(c, "exit") /\ flock' = flock
        /\ active' = active /\ Untouched
    BY <1>6 DEF AlreadyDone, Untouched, Counted, Elsewhere, Unlocked
  <2> QED
    BY <1>1, <1>2, <2>1, MoveStep DEF Busy, Labels, InRun, Holds
<1>7. CASE BackedOff(c)
  <2>1. /\ pc[c] = "backoff" /\ Goto(c, "head") /\ flock' = flock
        /\ active' = active /\ Untouched
    BY <1>7 DEF BackedOff, Untouched, Counted, Elsewhere, Unlocked
  <2> QED
    BY <1>1, <1>2, <2>1, MoveStep DEF Busy, Labels, InRun, Holds
<1> QED
  BY <1>3, <1>4, <1>5, <1>6, <1>7

(* A call that is refused, a call that leaves the lock and the calls of a  *)
(* process that dies lose their locals.                                    *)
LEMMA ForgetStep ==
    ASSUME GoalAssumption, IInv, NEW cs \in SUBSET Calls, NEW l \in {"ended", "dead"},
           Forget(cs, l), UNCHANGED <<goal, lost>>,
           alive' \subseteq alive, active' \subseteq alive',
           flock' \in Calls \cup {None},
           \A d \in Calls \ cs : /\ On[d] \in alive => On[d] \in alive'
                                 /\ Holds(d) => flock' = d,
           \A d \in cs : InRun(d) => On[d] \notin alive'
    PROVE  IInv'
<1> USE DEF IInv
<1>1. pc \in [Calls -> Labels] /\ l \in Labels
  BY DEF TypeOK, Labels
<1>2. TypeOK'
  <2>1. /\ pc' \in [Calls -> Labels] /\ op' \in [Calls -> Kinds \cup {"none"}]
        /\ cancelled' \in [Calls -> BOOLEAN]
    BY <1>1 DEF TypeOK, Forget
  <2>2. blips' \in [Calls -> Nat] /\ overruns' \in [Calls -> Nat]
    BY DEF TypeOK, Forget
  <2>3. mem' \in [Calls -> States \cup {None}]
    BY DEF TypeOK, Forget
  <2> QED
    BY <2>1, <2>2, <2>3 DEF TypeOK
<1>3. \A d \in Calls \ cs : pc'[d] = pc[d] /\ op'[d] = op[d] /\ mem'[d] = mem[d]
  BY DEF Forget
<1>4. \A d \in cs : pc'[d] = l
  BY DEF Forget
<1>5. \A d \in cs : pc'[d] \notin Busy /\ ~Holds(d)' /\ ~InRun(d)'
  BY <1>4 DEF Busy, Holds, InRun
<1>6. Placed'
  <2> SUFFICES ASSUME NEW d \in Calls
               PROVE  /\ pc'[d] \in Busy => On[d] \in alive'
                      /\ pc'[d] \in {"acquire", "flock"} => op'[d] \in Kinds \ {"create"}
                      /\ pc'[d] \in {"acquire", "flock"} /\ Runner(d)' => mem'[d] \in States
                      /\ pc'[d] = "begin" \/ InRun(d)' => mem'[d] \in States
    BY DEF Placed
  <2>1. CASE d \in cs
    BY <1>5, <2>1 DEF Busy
  <2>2. CASE d \notin cs
    BY <1>3, <2>2 DEF Placed, Runner, InRun
  <2> QED
    BY <2>1, <2>2
<1>7. Exclusive' /\ Owned' /\ Fresh'
  <2>1. \A d \in Calls \ cs : (Holds(d)' <=> Holds(d)) /\ (InRun(d)' <=> InRun(d))
    BY <1>3 DEF Holds, InRun
  <2> QED
    BY <1>3, <1>5, <2>1 DEF Exclusive, Owned, Fresh
<1>8. RunningIsLive'
  <2>1. \A d \in Calls \ cs : InRun(d) => InRun(d)'
    BY <1>3 DEF InRun
  <2> QED
    BY <2>1 DEF RunningIsLive, TypeOK
<1> QED
  BY <1>2, <1>6, <1>7, <1>8

LEMMA ForgetSteps ==
    ASSUME GoalAssumption, IInv,
           \/ \E c \in Calls : \/ On[c] \in active /\ Acquire(c)
                               \/ flock # None /\ Flock(c)
                               \/ Leave(c)
           \/ \E p \in Procs : Crash(p)
    PROVE  IInv'
<1> USE DEF IInv
<1>1. \A d \in Calls : Holds(d) => flock = d
  BY DEF Exclusive
<1>2. active \subseteq alive /\ flock \in Calls \cup {None} /\ None \notin Calls
  BY DEF TypeOK, GoalAssumption
<1>3. ASSUME NEW c \in Calls,
             \/ On[c] \in active /\ Acquire(c)
             \/ flock # None /\ Flock(c)
             \/ Leave(c)
      PROVE  IInv'
  <2>1. /\ Forget({c}, "ended") /\ UNCHANGED <<goal, lost, alive, flock>>
        /\ pc[c] \in {"acquire", "flock", "leave"}
        /\ active' \subseteq active
    BY <1>3 DEF Acquire, Flock, Leave, Refused, WithoutActive
  <2> QED
    BY <1>1, <1>2, <2>1, ForgetStep DEF InRun
<1>4. ASSUME NEW p \in Procs, Crash(p) PROVE IInv'
  <2> DEFINE cs == {c \in Calls : On[c] = p}
  <2>1. /\ Forget(cs, "dead") /\ UNCHANGED <<goal, lost>>
        /\ alive' = alive \ {p} /\ active' = active \ {p}
        /\ flock' = IF flock # None /\ On[flock] = p THEN None ELSE flock
    BY <1>4 DEF Crash
  <2>2. \A d \in Calls \ cs : /\ On[d] \in alive => On[d] \in alive'
                              /\ Holds(d) => flock' = d
    BY <1>1, <1>2, <2>1
  <2> QED
    BY <1>2, <2>1, <2>2, ForgetStep
<1> QED
  BY <1>3, <1>4

(* Remove and Reset.  What they leave running was running before.          *)
LEMMA AdminSteps ==
    ASSUME GoalAssumption, IInv, NEW c \in Calls, Remove(c) \/ Reset(c)
    PROVE  IInv'
<1> USE DEF IInv
<1>1. /\ pc[c] \in {"remove", "force", "reset"} /\ pc' = [pc EXCEPT ![c] = "exit"]
      /\ UNCHANGED <<alive, cancelled, lost, blips, overruns, active, flock, op, mem>>
  BY DEF Remove, Reset, Done, Goto, Counted, Elsewhere, Unlocked
<1>2. goal \in States \cup {None} /\ pc \in [Calls -> Labels]
  BY DEF TypeOK
<1>3. /\ goal' \in States \cup {None}
      /\ goal' # None /\ goal'.status = "running" => goal' = goal
  <2>1. CASE goal = None
    BY <2>1 DEF Remove, Reset
  <2>2. CASE goal # None
    <3>1. Healed(goal) \in States
      BY <1>2, <2>2, Records
    <3> DEFINE st == [Healed(goal) EXCEPT !.status = "pending", !.step = 0, !.retry = 0]
    <3>2. st \in States /\ st.status = "pending"
      BY <3>1 DEF States
    <3>3. goal' \in {goal, None, st}
      BY DEF Remove, Reset
    <3> HIDE DEF st
    <3> QED
      BY <1>2, <3>2, <3>3
  <2> QED
    BY <2>1, <2>2
<1>4. TypeOK'
  <2>1. pc' \in [Calls -> Labels]
    BY <1>1, <1>2 DEF Labels
  <2> HIDE DEF States
  <2> QED
    BY <1>1, <1>3, <2>1 DEF TypeOK
<1>5. Placed'
  BY <1>1, <1>2 DEF Placed, Busy, InRun, Runner
<1>6. Exclusive' /\ Owned' /\ Fresh'
  BY <1>1, <1>2, <1>3 DEF Exclusive, Owned, Fresh, Holds, InRun
<1>7. RunningIsLive'
  BY <1>1, <1>2, <1>3 DEF RunningIsLive, InRun
<1> QED
  BY <1>4, <1>5, <1>6, <1>7

(* A save that failed. *)
LEMMA SaveFailsStep ==
    ASSUME GoalAssumption, IInv, NEW c \in Calls, SaveFails(c)
    PROVE  IInv'
<1> USE DEF IInv
<1>1. /\ pc[c] \in {"begin", "head", "step", "backoff"} /\ pc' = [pc EXCEPT ![c] = "exit"]
      /\ lost' = [procs |-> lost.procs \cup {On[c]}, number |-> lost.number + 1]
      /\ UNCHANGED <<goal, alive, cancelled, blips, overruns, active, flock, op, mem>>
  BY DEF SaveFails, Saving, Goto, Counted, Unlocked
<1>2. pc \in [Calls -> Labels] /\ On[c] \in Procs
  BY DEF TypeOK, GoalAssumption
<1>3. TypeOK'
  <2>1. pc' \in [Calls -> Labels]
    BY <1>1, <1>2 DEF Labels
  <2>2. lost' \in [procs : SUBSET Procs, number : Nat]
    BY <1>1, <1>2 DEF TypeOK
  <2> QED
    BY <1>1, <2>1, <2>2 DEF TypeOK
<1>4. Placed'
  BY <1>1, <1>2 DEF Placed, Busy, InRun, Runner
<1>5. Exclusive' /\ Owned' /\ Fresh'
  BY <1>1, <1>2 DEF Exclusive, Owned, Fresh, Holds, InRun
<1>6. RunningIsLive'
  <2>1. \A d \in Calls \ {c} : InRun(d) => InRun(d)'
    BY <1>1, <1>2 DEF InRun
  <2> QED
    BY <1>1, <2>1 DEF RunningIsLive
<1> QED
  BY <1>3, <1>4, <1>5, <1>6

(* A context that is cancelled, and a step that is not one. *)
LEMMA OtherSteps ==
    ASSUME GoalAssumption, IInv, UNCHANGED vars \/ \E c \in Calls : Cancel(c)
    PROVE  IInv'
<1> USE DEF IInv
<1>1. UNCHANGED <<goal, alive, active, flock, op, pc, mem, lost, blips, overruns>>
  BY DEF vars, Cancel, Counted
<1>2. cancelled' \in [Calls -> BOOLEAN]
  BY DEF vars, Cancel, TypeOK
<1>3. TypeOK'
  BY <1>1, <1>2 DEF TypeOK
<1>4. Placed' /\ Exclusive' /\ Owned' /\ Fresh' /\ RunningIsLive'
  BY <1>1 DEF Placed, Exclusive, Owned, Fresh, RunningIsLive, Busy, Holds, InRun, Runner
<1> QED
  BY <1>3, <1>4

LEMMA Inductive == ASSUME GoalAssumption, IInv, [Next]_vars PROVE IInv'
<1>1. CASE UNCHANGED vars
  BY <1>1, OtherSteps
<1>2. ASSUME NEW c \in Calls, Enter(c) PROVE IInv'
  BY <1>2, EnterSteps
<1>3. ASSUME NEW c \in Calls, Advance(c) PROVE IInv'
  <2>1. CASE Acquire(c)
    BY <2>1, MoveSteps, ForgetSteps
  <2>2. CASE Flock(c)
    BY <2>2, MoveSteps, ForgetSteps
  <2>3. CASE Leave(c)
    BY <2>3, ForgetSteps
  <2>4. CASE Release(c) \/ AlreadyDone(c) \/ BackedOff(c)
    BY <2>4, MoveSteps
  <2>5. CASE Remove(c) \/ Reset(c)
    BY <2>5, AdminSteps
  <2>6. CASE HealLoaded(c) \/ Start(c)
    BY <2>6, BeginSteps
  <2>7. CASE Stopped(c) \/ BeginStep(c) \/ OutOfSteps(c) \/ BackoffStopped(c)
    BY <2>7, HeadSteps
  <2>8. CASE Step(c)
    BY <2>8, StepSteps
  <2> QED
    BY <1>3, <2>1, <2>2, <2>3, <2>4, <2>5, <2>6, <2>7, <2>8 DEF Advance
<1>4. ASSUME NEW c \in Calls, SaveFails(c) PROVE IInv'
  BY <1>4, SaveFailsStep
<1>5. ASSUME NEW c \in Calls, Cancel(c) PROVE IInv'
  BY <1>5, OtherSteps
<1>6. ASSUME NEW p \in Procs, Crash(p) PROVE IInv'
  BY <1>6, ForgetSteps
<1> QED
  BY <1>1, <1>2, <1>3, <1>4, <1>5, <1>6 DEF Next

(* The inductive invariant holds in every reachable state: what each call  *)
(* has in its hands, the lock and the file fit together.                   *)
THEOREM Invariance == Spec => []IInv
<1>1. Init => IInv
  BY Initially, GoalAssumption
<1>2. IInv /\ [Next]_vars => IInv'
  BY Inductive, GoalAssumption
<1> QED
  BY <1>1, <1>2, PTL DEF Spec

(* acquireRunExclusive: at most one call at a time runs, removes or resets *)
(* a goal, for any number of processes and calls.                          *)
THEOREM OneHolderHolds == Spec => []OneHolder
<1>1. IInv => OneHolder
  BY DEF IInv, Exclusive, OneHolder
<1> QED
  BY <1>1, Invariance, PTL

(* No ghost run: a file that says running belongs to a run under way, to a *)
(* dead process, or to one that failed to save.                            *)
THEOREM RunningIsLiveHolds == Spec => []RunningIsLive
<1>1. IInv => RunningIsLive
  BY DEF IInv
<1> QED
  BY <1>1, Invariance, PTL

(* The file of a run is written by nobody else, Create excepted: the       *)
(* callers that hold no lock only load, and a Load heals only the file of  *)
(* a process that died.                                                    *)
THEOREM OnlyRunWritesHolds == Spec => OnlyRunWrites
<1> DEFINE Written ==
      \A c \in Calls :
          InRun(c) /\ pc'[c] = pc[c] /\ goal' # goal =>
              \E d \in Calls : pc[d] = "idle" /\ pc'[d] = "ended" /\ goal' \in {New(n) : n \in Raises}
<1>1. IInv /\ [Next]_vars => [Written]_vars
  <2> SUFFICES ASSUME IInv, [Next]_vars, NEW c \in Calls,
                      InRun(c), pc'[c] = pc[c], goal' # goal
               PROVE  \E d \in Calls : /\ pc[d] = "idle" /\ pc'[d] = "ended"
                                       /\ goal' \in {New(n) : n \in Raises}
    OBVIOUS
  <2>1. Healed(goal) = goal
    <3>1. On[c] \in alive
      BY DEF IInv, Placed, Busy, InRun
    <3> QED
      BY <3>1 DEF IInv, Fresh, Healed, Stale
  <2>2. \A d \in Calls : Holds(d) => d = c
    BY DEF IInv, Exclusive, Holds
  <2>3. pc \in [Calls -> Labels] /\ Next
    BY DEF IInv, TypeOK, vars
  <2>4. ASSUME NEW d \in Calls, Enter(d) PROVE Create(d)
    <3>1. goal' # goal /\ goal' # Healed(goal)
      BY <2>1
    <3> QED
      BY <2>4, <3>1 DEF Enter, RunRaise, ResumeAnswer, RunSpec, Admin, Load
  <2>5. ASSUME NEW d \in Calls, Advance(d) PROVE FALSE
    <3>1. CASE \/ Acquire(d) \/ Flock(d) \/ Release(d) \/ Leave(d)
               \/ AlreadyDone(d) \/ BackedOff(d)
      BY <3>1 DEF Acquire, Refused, Flock, Release, Leave, AlreadyDone, BackedOff
    <3>2. CASE Remove(d) \/ Reset(d) \/ HealLoaded(d) \/ Start(d)
      BY <2>2, <3>2 DEF Remove, Reset, HealLoaded, Start, Holds, InRun
    <3>3. CASE Stopped(d) \/ BeginStep(d) \/ OutOfSteps(d) \/ BackoffStopped(d)
      <4>1. d = c
        BY <2>2, <3>3 DEF Stopped, BeginStep, OutOfSteps, BackoffStopped, Holds, InRun
      <4> QED
        BY <2>3, <3>3, <4>1 DEF Stopped, BeginStep, OutOfSteps, BackoffStopped, Save, Goto
    <3>4. CASE Step(d)
      <4>1. d = c /\ pc[d] = "step"
        BY <2>2, <3>4 DEF Step, Holds, InRun
      <4>2. \A st, l : Save(d, st, l) => l = "step"
        BY <2>3, <4>1 DEF Save, Goto
      <4>3. CASE HardBudget(d) \/ StepError(d) \/ Continue(d) \/ Escalate(d)
        BY <4>2, <4>3 DEF HardBudget, StepError, Continue, Escalate
      <4>4. CASE PartialStop(d) \/ Finish(d) \/ Fail(d)
        BY <4>2, <4>4 DEF PartialStop, Finish, Fail
      <4>5. CASE TurnBudget(d) \/ Transient(d) \/ RetrySame(d)
        BY <4>2, <4>5 DEF TurnBudget, Transient, RetrySame
      <4> QED
        BY <3>4, <4>3, <4>4, <4>5 DEF Step
    <3> QED
      BY <2>5, <3>1, <3>2, <3>3, <3>4 DEF Advance
  <2>6. \A d \in Calls : ~SaveFails(d) /\ ~Cancel(d)
    BY DEF SaveFails, Cancel
  <2>7. \A p \in Procs : ~Crash(p)
    BY DEF Crash
  <2>8. PICK d \in Calls : Create(d)
    BY <2>3, <2>4, <2>5, <2>6, <2>7 DEF Next
  <2>9. pc[d] = "idle" /\ pc'[d] = "ended" /\ goal' \in {New(n) : n \in Raises}
    BY <2>3, <2>8 DEF Create, Called, Return, Goto
  <2> QED
    BY <2>9
<1> QED
  BY <1>1, Invariance, PTL DEF Spec, OnlyRunWrites

(***************************************************************************)
(* Workflow                                                                *)
(***************************************************************************)

(* Where a call can be; with the file's lock; and in its loop.             *)
FlowLabels == {"idle", "peek", "lock", "load", "loop", "phase", "result", "unlock", "ended", "dead"}
Inner  == {"load", "loop", "phase", "result", "unlock"}
Going  == {"loop", "phase", "result"}

FlowTypes ==
    /\ file \in F!States \cup {None}
    /\ callPc \in [Calls -> FlowLabels]
    /\ state \in [Calls -> F!States \cup {None}]
    /\ at \in [Calls -> 0 .. MaxPhases + 1]
    /\ ran \in [F!Phases -> {0, 1}]

OneInside == \A c \in Calls : callPc[c] \in Inner => fileLock = c

\* What the file says of the phases, in their order, and what they did.
Books ==
    IF file = None THEN \A i \in F!Phases : ran[i] = 0
    ELSE /\ \A i \in F!Phases : file.phase[i] = "succeeded" => ran[i] = 1
         /\ \A i \in F!Phases : file.phase[i] = "pending" => ran[i] = 0
         /\ \A i, j \in F!Phases : i < j /\ file.phase[j] # "pending" => file.phase[i] = "succeeded"
         /\ file.status \notin F!Final =>
               \A i \in F!Phases : file.phase[i] \in {"succeeded", "running", "pending"}
         /\ file.status = "succeeded" => \A i \in F!Phases : file.phase[i] = "succeeded"

Current ==
    \A c \in Calls : callPc[c] \in Going =>
        /\ file # None /\ state[c] = file /\ file.status \notin F!Final
        /\ at[c] \in 1 .. MaxPhases + 1
        /\ \A i \in F!Phases : i < at[c] => file.phase[i] = "succeeded"

Marked ==
    \A c \in Calls :
        /\ callPc[c] \in {"phase", "result"} => at[c] \in F!Phases /\ file.phase[at[c]] = "running"
        /\ callPc[c] = "phase" => ran[at[c]] = 0
        /\ callPc[c] = "result" => ran[at[c]] = 1

FlowInv == FlowTypes /\ OneInside /\ Books /\ Current /\ Marked

-----------------------------------------------------------------------------

LEMMA FlowInit == ASSUME FlowAssumption, F!Init PROVE FlowInv
<1>1. FlowTypes
  BY DEF FlowAssumption, F!Init, FlowTypes, FlowLabels
<1>2. QED
  BY <1>1 DEF FlowAssumption, F!Init, FlowInv, OneInside, Books, Current, Marked, Inner, Going

(* A call outside the file's lock changes neither file nor effects.        *)
LEMMA OutsideKeeps ==
    ASSUME FlowAssumption, FlowInv, NEW c \in Calls, callPc[c] \notin Inner,
           callPc' \in [Calls -> FlowLabels],
           \A d \in Calls \ {c} : callPc'[d] = callPc[d],
           \/ callPc'[c] \notin Inner /\ fileLock' = fileLock
           \/ callPc'[c] = "load" /\ fileLock = None /\ fileLock' = c,
           UNCHANGED <<file, state, at, ran>>
    PROVE  FlowInv'
<1>1. FlowTypes'
  BY DEF FlowInv, FlowTypes
<1>2. OneInside'
  BY DEF FlowInv, OneInside, FlowAssumption
<1>3. Books'
  BY DEF FlowInv, Books
<1>4. Current' /\ Marked'
  BY DEF FlowInv, Current, Marked, Inner, Going
<1>5. QED
  BY <1>1, <1>2, <1>3, <1>4 DEF FlowInv

(* A step of the call inside disturbs only what is said of it: the others  *)
(* are outside.                                                            *)
LEMMA InsideKeeps ==
    ASSUME FlowAssumption, FlowInv, NEW c \in Calls, callPc[c] \in Inner,
           FlowTypes', \A d \in Calls \ {c} : callPc'[d] = callPc[d],
           (callPc'[c] \in Inner /\ fileLock' = fileLock) \/ callPc'[c] \notin Inner
    PROVE  /\ OneInside'
           /\ \A d \in Calls \ {c} : callPc'[d] \notin Inner
<1>1. fileLock = c /\ \A d \in Calls \ {c} : callPc[d] \notin Inner
  BY DEF FlowInv, OneInside
<1>2. QED
  BY <1>1 DEF OneInside

-----------------------------------------------------------------------------

(* What a save of the call inside may leave: the file, with a new state or *)
(* the old one, and the call with that state or on its way out.            *)
LEMMA SaveKeeps ==
    ASSUME FlowAssumption, FlowInv, NEW c \in Calls, callPc[c] \in Inner,
           NEW st \in F!States, NEW l \in Inner, F!Save(c, st, l),
           at' \in [Calls -> 0 .. MaxPhases + 1], ran' = ran, fileLock' = fileLock,
           file' = st => Books',
           l \in Going /\ callPc'[c] = l => Current' /\ Marked'
    PROVE  FlowInv'
<1>1. c \in Calls /\ l \in FlowLabels /\ "unlock" \in FlowLabels /\ "unlock" \in Inner
  BY DEF Inner, FlowLabels
<1>2. /\ FlowTypes'
      /\ callPc'[c] \in {l, "unlock"} /\ \A d \in Calls \ {c} : callPc'[d] = callPc[d]
  BY <1>1 DEF FlowInv, FlowTypes, F!Save, F!Goto
<1>3. OneInside' /\ \A d \in Calls \ {c} : callPc'[d] \notin Inner
  BY <1>1, <1>2, InsideKeeps
<1>4. Books'
  <2>1. CASE file' = file
    BY <2>1 DEF FlowInv, Books
  <2>2. CASE file' = st
    BY <2>2
  <2>3. QED
    BY <2>1, <2>2 DEF F!Save
<1>5. Current' /\ Marked'
  <2>1. CASE callPc'[c] \in Going
    BY <2>1, <1>2 DEF Going
  <2>2. CASE callPc'[c] \notin Going
    BY <2>2, <1>3 DEF Current, Marked, Inner, Going
  <2>3. QED
    BY <2>1, <2>2
<1>6. QED
  BY <1>2, <1>3, <1>4, <1>5 DEF FlowInv

(* Before a state is marked: the call's copy is the file.                  *)
LEMMA WithIsState ==
    ASSUME FlowAssumption, FlowInv, NEW c \in Calls, callPc[c] \in Going, at[c] \in F!Phases,
           NEW s \in F!Statuses, NEW p \in F!Statuses
    PROVE  /\ F!With(c, s, p) \in F!States /\ F!With(c, s, p) # None
           /\ F!With(c, s, p).status = s
           /\ F!With(c, s, p).phase = [file.phase EXCEPT ![at[c]] = p]
           /\ file \in F!States /\ file # None
<1>1. state[c] = file /\ file # None /\ file \in F!States
  BY DEF FlowInv, FlowTypes, Current
<1>2. QED
  BY <1>1 DEF F!With, F!States, FlowAssumption

-----------------------------------------------------------------------------
(* The steps                                                               *)

LEMMA CallSteps == ASSUME FlowAssumption, FlowInv, NEW c \in Calls, F!Call(c) PROVE FlowInv'
<1>1. /\ callPc[c] \notin Inner /\ callPc' \in [Calls -> FlowLabels]
      /\ \A d \in Calls \ {c} : callPc'[d] = callPc[d] /\ callPc'[c] \notin Inner
      /\ callPc'[c] \notin Inner
  BY DEF FlowInv, FlowTypes, F!Call, F!Goto, Inner, FlowLabels
<1>2. QED
  BY <1>1, OutsideKeeps DEF F!Call, F!LockSame

LEMMA PeekSteps == ASSUME FlowAssumption, FlowInv, NEW c \in Calls, F!Peek(c) PROVE FlowInv'
<1>1. /\ callPc[c] \notin Inner /\ callPc' \in [Calls -> FlowLabels]
      /\ \A d \in Calls \ {c} : callPc'[d] = callPc[d]
      /\ callPc'[c] \notin Inner
  BY DEF FlowInv, FlowTypes, F!Peek, F!Goto, Inner, FlowLabels
<1>2. QED
  BY <1>1, OutsideKeeps DEF F!Peek, F!LockSame

LEMMA LockSteps == ASSUME FlowAssumption, FlowInv, NEW c \in Calls, F!Lock(c) PROVE FlowInv'
<1>1. /\ callPc[c] \notin Inner /\ callPc' \in [Calls -> FlowLabels]
      /\ \A d \in Calls \ {c} : callPc'[d] = callPc[d]
      /\ \/ callPc'[c] \notin Inner /\ fileLock' = fileLock
         \/ callPc'[c] = "load" /\ fileLock = None /\ fileLock' = c
  BY DEF FlowInv, FlowTypes, F!Lock, F!Goto, Inner, FlowLabels, F!NotLocked
<1>2. QED
  BY <1>1, OutsideKeeps DEF F!Lock

LEMMA UnlockSteps == ASSUME FlowAssumption, FlowInv, NEW c \in Calls, F!Unlock(c) PROVE FlowInv'
<1>1. /\ FlowTypes' /\ callPc[c] \in Inner /\ callPc'[c] \notin Inner
      /\ \A d \in Calls \ {c} : callPc'[d] = callPc[d]
  BY DEF FlowInv, FlowTypes, F!Unlock, F!Goto, Inner, FlowLabels, FlowAssumption
<1>2. OneInside' /\ \A d \in Calls : callPc'[d] \notin Inner
  BY <1>1, InsideKeeps
<1>3. Books'
  BY DEF FlowInv, Books, F!Unlock
<1>4. Current' /\ Marked'
  BY <1>2 DEF Current, Marked, Inner, Going
<1>5. QED
  BY <1>1, <1>2, <1>3, <1>4 DEF FlowInv

(* A new file has all phases pending, and nothing was done before it.      *)
LEMMA NewBooks == ASSUME FlowAssumption, FlowInv, file = None, file' = F!New, ran' = ran PROVE Books'
BY DEF FlowAssumption, FlowInv, Books, F!New, F!Final, F!States, F!Statuses

LEMMA NewIsState == ASSUME FlowAssumption PROVE F!New \in F!States /\ F!New # None
BY DEF FlowAssumption, F!New, F!States, F!Statuses

LEMMA LoadSteps == ASSUME FlowAssumption, FlowInv, NEW c \in Calls, F!Load(c) PROVE FlowInv'
<1>1. CASE F!Goto(c, "unlock") /\ UNCHANGED <<file, state, at>>
  <2>1. /\ FlowTypes' /\ callPc[c] \in Inner /\ callPc'[c] = "unlock"
        /\ \A d \in Calls \ {c} : callPc'[d] = callPc[d]
    BY <1>1 DEF FlowInv, FlowTypes, F!Load, F!Goto, Inner, FlowLabels
  <2>2. OneInside' /\ \A d \in Calls \ {c} : callPc'[d] \notin Inner
    BY <2>1, InsideKeeps DEF F!Load, F!LockSame, Inner
  <2>3. Books' /\ Current' /\ Marked'
    BY <1>1, <2>1, <2>2 DEF FlowInv, Books, Current, Marked, F!Load, Inner, Going
  <2>4. QED
    BY <2>1, <2>2, <2>3 DEF FlowInv
<1>2. CASE file = None /\ F!Save(c, F!New, "loop") /\ at' = [at EXCEPT ![c] = 1]
  <2>1. at' \in [Calls -> 0 .. MaxPhases + 1] /\ at'[c] = 1
    BY <1>2 DEF FlowInv, FlowTypes, FlowAssumption
  <2>2. file' = F!New => Books'
    BY NewBooks, <1>2 DEF F!Load
  <2>3. /\ FlowTypes' /\ callPc[c] \in Inner /\ callPc'[c] \in {"loop", "unlock"}
        /\ \A d \in Calls \ {c} : callPc'[d] = callPc[d]
    BY <1>2, <2>1, NewIsState DEF FlowInv, FlowTypes, F!Load, F!Save, F!Goto, Inner, FlowLabels
  <2>4. OneInside' /\ \A d \in Calls \ {c} : callPc'[d] \notin Inner
    BY <2>3, InsideKeeps DEF F!Load, F!LockSame, Inner
  <2>5. ASSUME callPc'[c] = "loop" PROVE Current' /\ Marked'
    <3>1. file' = F!New /\ state'[c] = F!New
      BY <1>2, <2>5 DEF F!Save, F!Goto, FlowInv, FlowTypes
    <3>2. F!New.status = "pending" /\ F!New # None
      BY NewIsState DEF F!New
    <3>3. QED
      BY <2>1, <2>4, <2>5, <3>1, <3>2 DEF FlowAssumption, Current, Marked, Inner, Going, F!Final, F!Phases
  <2>6. QED
    BY <1>2, <2>1, <2>2, <2>3, <2>5, SaveKeeps, NewIsState DEF F!Load, F!LockSame, Inner
<1>3. CASE /\ file # None /\ file.status \notin F!Final
           /\ state' = [state EXCEPT ![c] = file] /\ at' = [at EXCEPT ![c] = 1]
           /\ F!Goto(c, "loop") /\ UNCHANGED file
  <2>1. /\ FlowTypes' /\ callPc[c] \in Inner /\ callPc'[c] = "loop" /\ at'[c] = 1 /\ state'[c] = file
        /\ \A d \in Calls \ {c} : callPc'[d] = callPc[d]
    BY <1>3 DEF FlowInv, FlowTypes, F!Load, F!Goto, Inner, FlowLabels, FlowAssumption
  <2>2. OneInside' /\ \A d \in Calls \ {c} : callPc'[d] \notin Inner
    BY <2>1, InsideKeeps DEF F!Load, F!LockSame, Inner
  <2>3. Books'
    BY <1>3 DEF FlowInv, Books, F!Load
  <2>4. Current' /\ Marked'
    BY <1>3, <2>1, <2>2 DEF FlowAssumption, Current, Marked, Inner, Going, F!Phases
  <2>5. QED
    BY <2>1, <2>2, <2>3, <2>4 DEF FlowInv
<1>4. QED
  BY <1>1, <1>2, <1>3 DEF F!Load

LEMMA SkipSteps == ASSUME FlowAssumption, FlowInv, NEW c \in Calls, F!Skip(c) PROVE FlowInv'
<1>1. callPc[c] = "loop" /\ at[c] \in F!Phases /\ file.phase[at[c]] = "succeeded" /\ file # None
  BY DEF F!Skip, F!InLoop, F!Phase, FlowInv, Current, Going
<1>2. FlowTypes' /\ at'[c] = at[c] + 1 /\ \A d \in Calls \ {c} : at'[d] = at[d]
  BY <1>1 DEF FlowInv, FlowTypes, F!Skip, F!LockSame, F!Elsewhere, F!Phases, FlowAssumption
<1>3. OneInside' /\ Books'
  BY DEF FlowInv, OneInside, Books, F!Skip, F!LockSame
<1>4. \A i \in F!Phases : i < at'[c] => file.phase[i] = "succeeded"
  BY <1>1, <1>2 DEF FlowInv, Current, Going, F!Phases, FlowAssumption
<1>5. Current'
  BY <1>1, <1>2, <1>4 DEF FlowInv, Current, F!Skip, F!Phases, FlowAssumption
<1>6. Marked'
  BY <1>1, <1>2 DEF FlowInv, Marked, F!Skip
<1>7. QED
  BY <1>2, <1>3, <1>5, <1>6 DEF FlowInv

(* What a call marks is the phase it is at; all before it have succeeded.  *)
LEMMA MarkBooks ==
    ASSUME FlowAssumption, FlowInv, NEW c \in Calls, callPc[c] \in Going, at[c] \in F!Phases,
           file.phase[at[c]] # "succeeded",
           NEW s \in F!Statuses \ {"succeeded"}, NEW p \in F!Statuses \ {"pending"},
           p = "succeeded" => ran[at[c]] = 1,
           s \notin F!Final => p \in {"succeeded", "running"},
           file' = F!With(c, s, p), ran' = ran
    PROVE  Books'
<1>1. /\ file'.status = s /\ file' # None /\ file # None /\ file \in F!States
      /\ file'.phase = [file.phase EXCEPT ![at[c]] = p]
  BY WithIsState
<1>2. \A i \in F!Phases : file'.phase[i] = IF i = at[c] THEN p ELSE file.phase[i]
  BY <1>1 DEF F!States
<1>3. /\ \A i \in F!Phases : i < at[c] => file.phase[i] = "succeeded"
      /\ file.status \notin F!Final
  BY DEF FlowInv, Current
<1>4. \A i \in F!Phases : file'.phase[i] = "succeeded" => ran'[i] = 1
  BY <1>1, <1>2 DEF FlowInv, Books
<1>5. \A i \in F!Phases : file'.phase[i] = "pending" => ran'[i] = 0
  BY <1>1, <1>2 DEF FlowInv, Books
<1>6. \A i, j \in F!Phases : i < j /\ file'.phase[j] # "pending" => file'.phase[i] = "succeeded"
  <2>1. SUFFICES ASSUME NEW i \in F!Phases, NEW j \in F!Phases, i < j, file'.phase[j] # "pending"
                 PROVE  file'.phase[i] = "succeeded"
    OBVIOUS
  <2>2. CASE j = at[c]
    BY <2>1, <2>2, <1>2, <1>3 DEF F!Phases
  <2>3. CASE j # at[c]
    BY <2>1, <2>3, <1>1, <1>2 DEF FlowInv, Books
  <2>4. QED
    BY <2>2, <2>3
<1>7. s \notin F!Final => \A i \in F!Phases : file'.phase[i] \in {"succeeded", "running", "pending"}
  BY <1>1, <1>2, <1>3 DEF FlowInv, Books
<1>8. QED
  BY <1>1, <1>4, <1>5, <1>6, <1>7 DEF Books

(* A save of the phase's mark that keeps the books; if the call goes on,   *)
(* it goes on with the phase (l = "phase"), or at the next one ("loop").   *)
LEMMA BlockSteps == ASSUME FlowAssumption, FlowInv, NEW c \in Calls, F!Block(c) PROVE FlowInv'
<1>1. /\ callPc[c] = "loop" /\ callPc[c] \in Going /\ callPc[c] \in Inner /\ at[c] \in F!Phases
      /\ file.phase[at[c]] = "running"
  BY DEF F!Block, F!InLoop, F!Uncertain, F!Phase, FlowInv, Current, Going, Inner
<1>2. F!With(c, "blocked", "blocked") \in F!States
  BY <1>1, WithIsState DEF F!Statuses
<1>3. file' = F!With(c, "blocked", "blocked") => Books'
  BY <1>1, MarkBooks DEF F!Block, F!Statuses, F!Final
<1>4. QED
  BY <1>1, <1>2, <1>3, SaveKeeps DEF F!Block, F!LockSame, FlowInv, FlowTypes, Inner, Going

LEMMA MarkedSteps == ASSUME FlowAssumption, FlowInv, NEW c \in Calls, F!Begin(c) PROVE FlowInv'
<1>1. /\ callPc[c] = "loop" /\ callPc[c] \in Going /\ callPc[c] \in Inner /\ at[c] \in F!Phases
      /\ file.phase[at[c]] = "pending" /\ file \in F!States
      /\ \A i \in F!Phases : i < at[c] => file.phase[i] = "succeeded"
  BY DEF F!Begin, F!InLoop, F!Uncertain, F!Phase, FlowInv, FlowTypes, Current, Books, Going, Inner
<1>2. ran[at[c]] = 0
  BY <1>1 DEF FlowInv, Current, Books
<1>3. /\ F!With(c, "running", "running") \in F!States /\ F!With(c, "running", "running") # None
      /\ F!With(c, "running", "running").status = "running"
      /\ F!With(c, "running", "running").phase = [file.phase EXCEPT ![at[c]] = "running"]
  BY ZenonT(40), <1>1, WithIsState DEF F!Statuses
<1>4. file' = F!With(c, "running", "running") => Books'
  BY <1>1, MarkBooks DEF F!Begin, F!Statuses, F!Final
<1>5. ASSUME callPc'[c] = "phase" PROVE Current' /\ Marked'
  <2>1. file' = F!With(c, "running", "running") /\ state'[c] = file'
    BY <1>1, <1>5 DEF F!Begin, F!Save, F!Goto, FlowInv, FlowTypes
  <2>2. \A d \in Calls \ {c} : callPc[d] \notin Inner /\ callPc'[d] = callPc[d]
    BY <1>1 DEF FlowInv, FlowTypes, OneInside, F!Begin, F!Save, F!Goto
  <2>3. /\ file'.phase[at[c]] = "running"
        /\ \A i \in F!Phases : i < at[c] => file'.phase[i] = "succeeded"
    BY <1>1, <1>3, <2>1 DEF F!States, F!Phases
  <2>4. QED
    BY <1>1, <1>2, <1>3, <1>5, <2>1, <2>2, <2>3
       DEF F!Begin, Current, Marked, Inner, Going, F!Final, F!Phases, FlowAssumption
<1>6. QED
  BY <1>1, <1>3, <1>4, <1>5, SaveKeeps DEF F!Begin, F!LockSame, FlowInv, FlowTypes, Inner, Going

LEMMA FailSteps == ASSUME FlowAssumption, FlowInv, NEW c \in Calls, F!Fail(c) PROVE FlowInv'
<1>1. /\ callPc[c] = "result" /\ callPc[c] \in Going /\ callPc[c] \in Inner /\ at[c] \in F!Phases
      /\ file.phase[at[c]] = "running"
  BY DEF F!Fail, FlowInv, Marked, Going, Inner
<1>2. F!With(c, "failed", "failed") \in F!States
  BY <1>1, WithIsState DEF F!Statuses
<1>3. file' = F!With(c, "failed", "failed") => Books'
  BY <1>1, MarkBooks DEF F!Fail, F!Statuses, F!Final
<1>4. QED
  BY <1>1, <1>2, <1>3, SaveKeeps DEF F!Fail, F!LockSame, FlowInv, FlowTypes, Inner, Going

LEMMA SucceedSteps == ASSUME FlowAssumption, FlowInv, NEW c \in Calls, F!Succeed(c) PROVE FlowInv'
<1>1. /\ callPc[c] = "result" /\ callPc[c] \in Going /\ callPc[c] \in Inner /\ at[c] \in F!Phases
      /\ file.phase[at[c]] = "running" /\ ran[at[c]] = 1 /\ file \in F!States
      /\ \A i \in F!Phases : i < at[c] => file.phase[i] = "succeeded"
  BY DEF F!Succeed, FlowInv, FlowTypes, Current, Marked, Going, Inner
<1>2. /\ F!With(c, "pending", "succeeded") \in F!States /\ F!With(c, "pending", "succeeded") # None
      /\ F!With(c, "pending", "succeeded").status = "pending"
      /\ F!With(c, "pending", "succeeded").phase = [file.phase EXCEPT ![at[c]] = "succeeded"]
  BY ZenonT(40), <1>1, WithIsState DEF F!Statuses
<1>3. file' = F!With(c, "pending", "succeeded") => Books'
  BY <1>1, MarkBooks DEF F!Succeed, F!Statuses, F!Final
<1>4. at' \in [Calls -> 0 .. MaxPhases + 1] /\ at'[c] = at[c] + 1
  BY <1>1 DEF F!Succeed, FlowInv, FlowTypes, F!Phases, FlowAssumption
<1>5. ASSUME callPc'[c] = "loop" PROVE Current' /\ Marked'
  <2>1. file' = F!With(c, "pending", "succeeded") /\ state'[c] = file'
    BY <1>1, <1>5 DEF F!Succeed, F!Save, F!Goto, FlowInv, FlowTypes
  <2>2. \A d \in Calls \ {c} : callPc[d] \notin Inner /\ callPc'[d] = callPc[d]
    BY <1>1 DEF FlowInv, FlowTypes, OneInside, F!Succeed, F!Save, F!Goto
  <2>3. \A i \in F!Phases : i < at'[c] => file'.phase[i] = "succeeded"
    BY <1>1, <1>2, <1>4, <2>1 DEF F!States, F!Phases, FlowAssumption
  <2>4. QED
    BY <1>1, <1>2, <1>4, <1>5, <2>1, <2>2, <2>3
       DEF Current, Marked, Inner, Going, F!Final, F!Phases, FlowAssumption
<1>6. QED
  BY <1>1, <1>2, <1>3, <1>4, <1>5, SaveKeeps DEF F!Succeed, F!LockSame, Inner, Going

LEMMA FinishSteps == ASSUME FlowAssumption, FlowInv, NEW c \in Calls, F!Finish(c) PROVE FlowInv'
<1> DEFINE st == [state[c] EXCEPT !.status = "succeeded"]
<1>1. /\ callPc[c] = "loop" /\ callPc[c] \in Inner /\ at[c] = MaxPhases + 1
      /\ state[c] = file /\ file # None /\ file \in F!States
      /\ \A i \in F!Phases : file.phase[i] = "succeeded"
  BY DEF F!Finish, FlowInv, FlowTypes, Current, Going, Inner, F!Phases, FlowAssumption
<1>2. st \in F!States /\ st # None /\ st.status = "succeeded" /\ st.phase = file.phase
  BY <1>1 DEF F!States, F!Statuses, FlowAssumption
<1>3. file' = st => Books'
  BY <1>1, <1>2 DEF F!Finish, FlowInv, Books, F!Final
<1>4. QED
  BY <1>1, <1>2, <1>3, SaveKeeps DEF F!Finish, F!LockSame, FlowInv, FlowTypes, Inner, Going

(* The step with an effect: the phase was marked and had none yet.         *)
LEMMA GiveSteps == ASSUME FlowAssumption, FlowInv, NEW c \in Calls, F!Give(c) PROVE FlowInv'
<1>1. /\ callPc[c] = "phase" /\ callPc[c] \in Inner /\ callPc'[c] = "result" /\ at[c] \in F!Phases
      /\ file # None /\ file.phase[at[c]] = "running" /\ ran[at[c]] = 0
      /\ file.status \notin F!Final
  BY DEF F!Give, F!Goto, FlowInv, FlowTypes, Current, Marked, Going, Inner
<1>2. /\ \A d \in Calls \ {c} : callPc'[d] = callPc[d]
      /\ ran'[at[c]] = 1 /\ \A i \in F!Phases \ {at[c]} : ran'[i] = ran[i]
  BY <1>1 DEF F!Give, F!Goto, FlowInv, FlowTypes
<1>3. FlowTypes'
  BY <1>1 DEF FlowInv, FlowTypes, F!Give, F!Goto, FlowLabels
<1>4. OneInside' /\ \A d \in Calls \ {c} : callPc'[d] \notin Inner
  BY <1>1, <1>2, <1>3, InsideKeeps DEF F!Give, F!LockSame, Inner
<1>5. Books'
  BY <1>1, <1>2 DEF FlowInv, Books, F!Give, F!Final
<1>6. Current' /\ Marked'
  BY <1>1, <1>2, <1>4 DEF FlowInv, Current, Marked, F!Give, Inner, Going
<1>7. QED
  BY <1>3, <1>4, <1>5, <1>6 DEF FlowInv

(* A process that dies takes its lock with it and leaves the file.         *)
LEMMA CrashSteps == ASSUME FlowAssumption, FlowInv, NEW p \in Procs, F!Crash(p) PROVE FlowInv'
<1>1. FlowTypes'
  BY DEF FlowInv, FlowTypes, F!Crash, FlowLabels, FlowAssumption
<1>2. \A d \in Calls : \/ callPc'[d] = "dead"
                       \/ callPc'[d] = callPc[d] /\ state'[d] = state[d] /\ at'[d] = at[d] /\ On[d] # p
  BY DEF F!Crash
<1>3. OneInside'
  BY <1>2 DEF FlowInv, OneInside, F!Crash, Inner, FlowAssumption
<1>4. Books' /\ Current' /\ Marked'
  BY <1>2 DEF FlowInv, Books, Current, Marked, F!Crash, Going
<1>5. QED
  BY <1>1, <1>3, <1>4 DEF FlowInv

LEMMA FlowStep == ASSUME FlowAssumption, FlowInv, [F!Next]_(F!vars) PROVE FlowInv'
<1>1. CASE UNCHANGED F!vars
  BY <1>1 DEF F!vars, FlowInv, FlowTypes, OneInside, Books, Current, Marked
<1>2. ASSUME NEW c \in Calls, F!Call(c) \/ F!Advance(c) PROVE FlowInv'
  BY <1>2, CallSteps, PeekSteps, LockSteps, LoadSteps, SkipSteps, BlockSteps, MarkedSteps,
     GiveSteps, FailSteps, SucceedSteps, FinishSteps, UnlockSteps DEF F!Advance
<1>3. QED
  BY <1>1, <1>2, CrashSteps DEF F!Next

(* In every reachable state the file, the calls and the effects agree.     *)
LEMMA FlowAlways == ASSUME FlowAssumption PROVE F!Spec => []FlowInv
<1>1. F!Init => FlowInv
  BY FlowInit
<1>2. FlowInv /\ [F!Next]_(F!vars) => FlowInv'
  BY FlowStep
<1>3. QED
  BY <1>1, <1>2, PTL DEF F!Spec

-----------------------------------------------------------------------------
(* What follows                                                            *)

(* A run that says it has succeeded has had the effect of every phase      *)
(* once, and none was refused after it (workflow.go, run).                 *)
LEMMA SuccessHolds == ASSUME FlowAssumption PROVE F!Spec => []F!SuccessIsEarned
<1>1. FlowInv => F!SuccessIsEarned
  BY DEF FlowInv, Books, F!SuccessIsEarned
<1>2. QED
  BY <1>1, FlowAlways, PTL

(* Only a call that is giving a phase changes effects, and that step is    *)
(* the abstract one: the first phase that has had none has its own.        *)
LEMMA GiveIsBegin == ASSUME FlowAssumption, FlowInv, NEW c \in Calls, F!Give(c) PROVE F!Promise!Begin
<1>1. /\ at[c] \in F!Phases /\ file # None /\ file.phase[at[c]] = "running" /\ ran[at[c]] = 0
      /\ file.status \notin F!Final
      /\ \A i \in F!Phases : i < at[c] => file.phase[i] = "succeeded"
  BY DEF F!Give, FlowInv, Current, Marked, Going
<1>2. \A j \in F!Phases : ran[j] = IF j < at[c] THEN 1 ELSE 0
  <2>1. SUFFICES ASSUME NEW j \in F!Phases PROVE ran[j] = IF j < at[c] THEN 1 ELSE 0
    OBVIOUS
  <2>2. CASE j < at[c]
    BY <1>1, <2>2 DEF FlowInv, Books
  <2>3. CASE at[c] < j
    BY <1>1, <2>3 DEF FlowInv, Books, F!Phases
  <2>4. QED
    BY <1>1, <2>2, <2>3 DEF F!Phases
<1>3. ~F!Over /\ F!Over' = F!Over
  BY <1>1 DEF F!Over, F!Give
<1>4. ran' = [ran EXCEPT ![at[c]] = 1]
  BY <1>1 DEF F!Give
<1>5. QED
  BY <1>1, <1>2, <1>3, <1>4 DEF F!Promise!Begin, F!Phases

(* A call that goes on finds no end in the file, and a save leaves what    *)
(* the call has marked or what was there.                                  *)
LEMMA SaveIsEnd ==
    ASSUME FlowAssumption, FlowInv, NEW c \in Calls, callPc[c] \in Going,
           NEW st, NEW l, F!Save(c, st, l), ran' = ran
    PROVE  F!Promise!End \/ UNCHANGED <<ran, F!Over>>
<1>1. ~F!Over
  BY DEF FlowInv, Current, F!Over
<1>2. F!Over' \in BOOLEAN
  BY DEF F!Over
<1>3. QED
  BY <1>1, <1>2 DEF F!Promise!End, F!Over

(* No step of a workflow but these three kinds moves the abstract run.     *)
LEMMA StepIsPromised ==
    ASSUME FlowAssumption, FlowInv, [F!Next]_(F!vars) PROVE [F!Promise!Next]_(F!Promise!vars)
<1>1. ASSUME UNCHANGED <<file, ran>> PROVE UNCHANGED <<ran, F!Over>>
  BY <1>1 DEF F!Over
<1>2. ASSUME NEW c \in Calls, F!Call(c) \/ F!Advance(c)
      PROVE  F!Promise!Next \/ UNCHANGED <<ran, F!Over>>
  <2>1. CASE F!Call(c) \/ F!Peek(c) \/ F!Lock(c) \/ F!Skip(c) \/ F!Unlock(c)
    BY <2>1, <1>1 DEF F!Call, F!Peek, F!Lock, F!Skip, F!Unlock
  <2>2. CASE F!Load(c)
    <3>1. CASE file' = file
      BY <2>2, <3>1, <1>1 DEF F!Load
    <3>2. CASE file' # file
      <4>1. file = None /\ file' = F!New /\ ran' = ran
        BY <2>2, <3>2 DEF F!Load, F!Save
      <4>2. F!New.status \notin F!Final
        BY DEF F!New, F!Final
      <4>3. QED
        BY <4>1, <4>2 DEF F!Over
    <3>3. QED
      BY <3>1, <3>2
  <2>3. CASE F!Give(c)
    BY <2>3, GiveIsBegin DEF F!Promise!Next
  <2>4. CASE F!Block(c) \/ F!Begin(c) \/ F!Finish(c)
    <3>1. callPc[c] \in Going /\ ran' = ran
      BY <2>4 DEF F!Block, F!Begin, F!Finish, F!InLoop, Going
    <3>2. QED
      BY <2>4, <3>1, SaveIsEnd DEF F!Block, F!Begin, F!Finish, F!Promise!Next
  <2>5. CASE F!Fail(c) \/ F!Succeed(c)
    <3>1. callPc[c] \in Going /\ ran' = ran
      BY <2>5 DEF F!Fail, F!Succeed, Going
    <3>2. QED
      BY <2>5, <3>1, SaveIsEnd DEF F!Fail, F!Succeed, F!Promise!Next
  <2>6. QED
    BY <1>2, <2>1, <2>2, <2>3, <2>4, <2>5 DEF F!Advance
<1>3. ASSUME NEW p \in Procs, F!Crash(p) PROVE UNCHANGED <<ran, F!Over>>
  BY <1>1, <1>3 DEF F!Crash
<1>4. QED
  BY <1>1, <1>2, <1>3 DEF F!Next, F!vars, F!Promise!vars

(* Whichever process dies when and whichever save is lost, the calls have  *)
(* the effects of one sequential run: each phase once, in order, and none  *)
(* after the end (README.md of ext/workflow: "never blindly replayed").    *)
LEMMA WorkflowImplements == ASSUME FlowAssumption PROVE F!Spec => F!InOrder
<1>1. F!Init => F!Promise!Init
  BY DEF F!Init, F!Promise!Init, F!Over, F!Phases
<1>2. FlowInv /\ [F!Next]_(F!vars) => [F!Promise!Next]_(F!Promise!vars)
  BY StepIsPromised
<1>3. QED
  BY <1>1, <1>2, FlowAlways, PTL DEF F!Spec, F!InOrder, F!Promise!Spec

(* What the run checks of workflows, for every number of phases and calls. *)
THEOREM PhasesInOrderHolds == F!Spec => PhasesInOrder
BY FlowAssumption, SuccessHolds, WorkflowImplements DEF PhasesInOrder

(***************************************************************************)
(* One step of a goal                                                      *)
(***************************************************************************)

(* Every set of numbers has a least one.                                   *)
LEMMA LeastOf ==
    ASSUME NEW T \in SUBSET Nat, T # {} PROVE \E n \in T : \A m \in T : n <= m
<1> DEFINE R == OpToRel(<, Nat)
<1>1. IsWellFoundedOn(R, Nat)
  BY NatLessThanWellFounded
<1>2. \A a, b \in Nat : a < b => <<a, b>> \in R
  BY DEF OpToRel
<1> HIDE DEF R
<1>3. PICK n \in T : \A m \in T : ~(<<m, n>> \in R)
  BY <1>1, WFMin
<1>4. \A m \in T : m \in Nat /\ n \in Nat /\ ~(m < n)
  BY <1>2, <1>3
<1>5. QED
  BY <1>3, <1>4

(* The tasks are finitely many numbers.                                    *)
LEMMA TaskNumbers ==
    /\ S!Tasks \in SUBSET Nat /\ IsFiniteSet(S!Tasks) /\ IsFiniteSet(Items)
    /\ Items \subseteq S!Tasks /\ S!Whole \in S!Tasks /\ S!Whole \notin Items /\ Items \in SUBSET Nat
<1>1. IsFiniteSet(Items) /\ Items = 1..Cardinality(Items)
  BY StepAssumption
<1>2. Items \in SUBSET Nat /\ 0 \notin Items
  <2>1. Cardinality(Items) \in Nat
    BY <1>1, FS_CardinalityType
  <2>2. QED
    BY <1>1, <2>1
<1>3. IsFiniteSet(S!Tasks)
  BY <1>1, FS_AddElement DEF S!Tasks, S!Whole
<1>4. QED
  BY <1>1, <1>2, <1>3 DEF S!Tasks, S!Whole

(* Marking an item and taking over the marks of another list keep a list's *)
(* items.                                                                  *)
LEMMA MarksKeepItems ==
    ASSUME NEW p, NEW q, NEW i, NEW s
    PROVE  DOMAIN S!SetItem(p, i, s) = DOMAIN p /\ DOMAIN S!Apply(p, q) = DOMAIN p
  BY DEF S!SetItem, S!Apply

(* What a report holds names items of the goal only.                       *)
Named(f) == DOMAIN f = {"plan", "said", "reject", "touched"} /\ DOMAIN f.plan \subseteq Items

(* A report names items of the goal.                                       *)
LEMMA ReportNames ==
    ASSUME NEW f, Named(f), NEW g \in S!Report(f) PROVE Named(g)
<1>1. ASSUME NEW h \in S!Listed(f) PROVE Named(h)
  <2>1. CASE h = f
    BY <2>1
  <2>2. ASSUME NEW p \in Lists, h = [f EXCEPT !.plan = p, !.touched = TRUE] PROVE Named(h)
    BY <2>2, StepAssumption DEF Named
  <2>3. QED
    BY <1>1, <2>1, <2>2 DEF S!Listed
<1>2. ASSUME NEW h \in S!Marked(f) PROVE Named(h)
  <2>1. ASSUME NEW k \in S!Listed(f), NEW i, NEW s PROVE Named(S!Mark(k, i, s))
    <3>1. Named(k)
      BY <1>1
    <3>2. QED
      BY <3>1, MarksKeepItems DEF Named, S!Mark
  <2>2. h \in S!Listed(f) \/ \E k \in S!Listed(f) : \E i \in DOMAIN k.plan, s \in Marks : h = S!Mark(k, i, s)
    BY <1>2 DEF S!Marked
  <2>3. QED
    BY <1>1, <2>1, <2>2
<1>3. PICK h \in S!Marked(f), said \in {"done", "failed", "continue", "unknown"} : g = S!Gate(h, said)
  BY DEF S!Report
<1>4. Named(h)
  BY <1>2
<1>5. QED
  BY <1>3, <1>4 DEF S!Gate, Named

(* The reports of a turn: what is held after each of them.                 *)
MoreReports(R) == R \cup UNION {S!Report(f) : f \in R}

Turn(p, after, k) ==
    after = [n \in 0..k |-> IF n = 0 THEN {S!Signal(p)} ELSE MoreReports(after[n - 1])]

(* What a prompt may have reported is defined for any number of reports.   *)
LEMMA TurnExists == ASSUME NEW p, NEW k \in Nat PROVE \E after : Turn(p, after, k)
<1> DEFINE T == {n \in Nat : ~\E after : Turn(p, after, n)}
<1>1. SUFFICES ASSUME T # {} PROVE FALSE
  OBVIOUS
<1>2. PICK n \in T : \A m \in T : n <= m
  BY <1>1, LeastOf
<1>3. n \in Nat /\ ~\E after : Turn(p, after, n)
  BY <1>2
<1>4. CASE n = 0
  <2>1. Turn(p, [j \in 0..0 |-> {S!Signal(p)}], 0)
    BY DEF Turn
  <2>2. QED
    BY <1>3, <1>4, <2>1
<1>5. CASE n # 0
  <2>1. n - 1 \in Nat /\ n - 1 \notin T
    BY <1>2, <1>3, <1>5
  <2>2. PICK f : Turn(p, f, n - 1)
    BY <2>1
  <2> DEFINE g == [j \in 0..n |-> IF j = n THEN MoreReports(f[n - 1]) ELSE f[j]]
  <2>3. \A j \in 0..n : g[j] = IF j = 0 THEN {S!Signal(p)} ELSE MoreReports(g[j - 1])
    <3>1. \A j \in 0..(n - 1) : f[j] = IF j = 0 THEN {S!Signal(p)} ELSE MoreReports(f[j - 1])
      BY <2>1, <2>2 DEF Turn
    <3>2. /\ \A j \in 0..n : j = n \/ j \in 0..(n - 1)
          /\ \A j \in 0..(n - 1) : j # 0 => j - 1 \in 0..(n - 1)
          /\ n - 1 \in 0..(n - 1)
      BY <1>3, <2>1
    <3>3. g[n] = MoreReports(f[n - 1]) /\ \A j \in 0..(n - 1) : g[j] = f[j]
      BY <1>3, <2>1
    <3> HIDE DEF g
    <3>4. QED
      BY <1>5, <3>1, <3>2, <3>3
  <2>4. g = [j \in 0..n |-> IF j = 0 THEN {S!Signal(p)} ELSE MoreReports(g[j - 1])]
    BY <2>3
  <2>5. Turn(p, g, n)
    BY <2>4 DEF Turn
  <2>6. QED
    BY <1>3, <2>5
<1>6. QED
  BY <1>4, <1>5

(* So does what a prompt has reported in the end.                          *)
LEMMA SignalNames ==
    ASSUME NEW p, DOMAIN p \subseteq Items, NEW f \in S!Signals(p) PROVE Named(f)
<1> DEFINE after == CHOOSE a : Turn(p, a, MaxReports)
<1>1. MaxReports \in Nat
  BY StepAssumption
<1>2. Turn(p, after, MaxReports)
  BY <1>1, TurnExists
<1>3. S!Signals(p) = after[MaxReports]
  BY DEF S!Signals, Turn, MoreReports
<1> HIDE DEF after
<1>4. \A n \in 0..MaxReports : after[n] = IF n = 0 THEN {S!Signal(p)} ELSE MoreReports(after[n - 1])
  BY <1>1, <1>2 DEF Turn
<1> DEFINE T == {n \in 0..MaxReports : ~\A h \in after[n] : Named(h)}
<1>5. T = {}
  <2>1. SUFFICES ASSUME T # {} PROVE FALSE
    OBVIOUS
  <2>2. T \in SUBSET Nat
    BY <1>1
  <2>3. PICK n \in T : \A m \in T : n <= m
    BY <2>1, <2>2, LeastOf
  <2>4. n \in 0..MaxReports /\ n \in Nat /\ ~\A h \in after[n] : Named(h)
    BY <2>2, <2>3
  <2>5. CASE n = 0
    <3>1. Named(S!Signal(p))
      BY DEF Named, S!Signal
    <3>2. QED
      BY <1>4, <2>4, <2>5, <3>1
  <2>6. CASE n # 0
    <3>1. n - 1 \in 0..MaxReports /\ n - 1 \notin T
      BY <1>1, <2>3, <2>4, <2>6
    <3>2. \A h \in after[n - 1] : Named(h)
      BY <3>1
    <3>3. \A h \in MoreReports(after[n - 1]) : Named(h)
      BY <3>2, ReportNames DEF MoreReports
    <3>4. QED
      BY <1>4, <2>4, <2>6, <3>3
  <2>7. QED
    BY <2>5, <2>6
<1>6. QED
  BY <1>1, <1>3, <1>5

(* How a prompt ends.                                                      *)
Result(r) == r = [plan |-> r.plan, outcome |-> r.outcome, err |-> r.err] /\ DOMAIN r.plan \subseteq Items

(* None                                                                    *)
LEMMA ResultsAre ==
    ASSUME NEW p, DOMAIN p \subseteq Items, NEW r \in S!Results(p)
    PROVE  /\ Result(r)
           /\ r.err = "" => r.outcome \in {"done", "failed", "continue"}
           /\ r.err = "canceled" => S!Cancelled
<1>1. \A f \in S!Signals(p) : DOMAIN f.plan \subseteq Items
  BY SignalNames DEF Named
<1> DEFINE errors == Errors \cup (IF S!Cancelled THEN {"canceled"} ELSE {})
<1>2. PICK f \in S!Signals(p) : r \in S!Told(f) \cup S!Broken(f, errors)
  BY DEF S!Results
<1>3. DOMAIN f.plan \subseteq Items
  BY <1>1
<1>4. CASE r \in S!Told(f)
  <2>1. PICK text : r = [plan |-> f.plan, outcome |-> S!Outcome(f, text), err |-> ""]
    BY <1>4 DEF S!Told
  <2>2. S!Outcome(f, text) \in {"done", "failed", "continue"}
    BY DEF S!Outcome
  <2>3. QED
    BY <1>3, <2>1, <2>2 DEF Result
<1>5. CASE r \in S!Broken(f, errors)
  <2>1. PICK e \in errors : r = [plan |-> f.plan, outcome |-> "", err |-> e]
    BY <1>5 DEF S!Broken
  <2>2. e # "" /\ (e = "canceled" => S!Cancelled)
    BY StepAssumption
  <2>3. QED
    BY <1>3, <2>1, <2>2 DEF Result
<1>6. QED
  BY <1>2, <1>4, <1>5

(* The instance counts as we do.                                           *)
LEMMA SameCount == \A T : S!Cardinality(T) = Cardinality(T)
  BY DEF S!Cardinality, Cardinality

(* The list after the results of the first k items.                        *)
Over(over, k) == over = [n \in 0..k |-> IF n = 0 THEN plan ELSE S!TakeOver(over[n - 1], n)]

(* The taking over of results is defined for any number of tasks.          *)
LEMMA OverExists == ASSUME NEW k \in Nat PROVE \E over : Over(over, k)
<1> DEFINE T == {n \in Nat : ~\E over : Over(over, n)}
<1>1. SUFFICES ASSUME T # {} PROVE FALSE
  OBVIOUS
<1>2. PICK n \in T : \A m \in T : n <= m
  BY <1>1, LeastOf
<1>3. n \in Nat /\ ~\E over : Over(over, n)
  BY <1>2
<1>4. CASE n = 0
  <2>1. Over([j \in 0..0 |-> plan], 0)
    BY DEF Over
  <2>2. QED
    BY <1>3, <1>4, <2>1
<1>5. CASE n # 0
  <2>1. n - 1 \in Nat /\ n - 1 \notin T
    BY <1>2, <1>3, <1>5
  <2>2. PICK f : Over(f, n - 1)
    BY <2>1
  <2> DEFINE g == [j \in 0..n |-> IF j = n THEN S!TakeOver(f[n - 1], n) ELSE f[j]]
  <2>3. \A j \in 0..n : g[j] = IF j = 0 THEN plan ELSE S!TakeOver(g[j - 1], j)
    <3>1. \A j \in 0..(n - 1) : f[j] = IF j = 0 THEN plan ELSE S!TakeOver(f[j - 1], j)
      BY <2>1, <2>2 DEF Over
    <3>2. /\ \A j \in 0..n : j = n \/ j \in 0..(n - 1)
          /\ \A j \in 0..(n - 1) : j # 0 => j - 1 \in 0..(n - 1)
          /\ n - 1 \in 0..(n - 1)
      BY <1>3, <2>1
    <3>3. g[n] = S!TakeOver(f[n - 1], n) /\ \A j \in 0..(n - 1) : g[j] = f[j]
      BY <1>3, <2>1
    <3> HIDE DEF g
    <3>4. QED
      BY <1>5, <3>1, <3>2, <3>3
  <2>4. g = [j \in 0..n |-> IF j = 0 THEN plan ELSE S!TakeOver(g[j - 1], j)]
    BY <2>3
  <2>5. Over(g, n)
    BY <2>4 DEF Over
  <2>6. QED
    BY <1>3, <2>5
<1>6. QED
  BY <1>4, <1>5

(* A parallel step drops no item and adds none.                            *)
LEMMA JoinedItems == DOMAIN S!JoinedPlan = DOMAIN plan
<1> DEFINE c    == Cardinality(Items)
           over == CHOOSE a : Over(a, c)
<1>1. c \in Nat
  BY TaskNumbers, FS_CardinalityType
<1>2. Over(over, c)
  BY <1>1, OverExists
<1>3. S!JoinedPlan = over[c]
  BY SameCount DEF S!JoinedPlan, Over
<1> HIDE DEF over, c
<1>4. \A n \in 0..c : over[n] = IF n = 0 THEN plan ELSE S!TakeOver(over[n - 1], n)
  BY <1>1, <1>2 DEF Over
<1> DEFINE T == {n \in 0..c : DOMAIN over[n] # DOMAIN plan}
<1>5. T = {}
  <2>1. SUFFICES ASSUME T # {} PROVE FALSE
    OBVIOUS
  <2>2. T \in SUBSET Nat
    BY <1>1
  <2>3. PICK n \in T : \A m \in T : n <= m
    BY <2>1, <2>2, LeastOf
  <2>4. n \in 0..c /\ n \in Nat /\ DOMAIN over[n] # DOMAIN plan
    BY <2>2, <2>3
  <2>5. n # 0
    BY <1>4, <2>4
  <2>6. n - 1 \in 0..c /\ n - 1 \notin T
    BY <1>1, <2>3, <2>4, <2>5
  <2>7. DOMAIN over[n - 1] = DOMAIN plan
    BY <2>6
  <2>8. DOMAIN S!TakeOver(over[n - 1], n) = DOMAIN over[n - 1]
    <3> DEFINE p == over[n - 1]
               q == S!Apply(p, res[n].plan)
    <3>1. DOMAIN q = DOMAIN p /\ \A s : DOMAIN S!SetItem(q, n, s) = DOMAIN p
      <4> HIDE DEF p
      <4>1. DOMAIN q = DOMAIN p
        BY MarksKeepItems
      <4> HIDE DEF q
      <4>2. \A s : DOMAIN S!SetItem(q, n, s) = DOMAIN q
        BY MarksKeepItems
      <4>3. QED
        BY <4>1, <4>2
    <3>2. S!TakeOver(p, n) = p \/ S!TakeOver(p, n) = q \/ \E s : S!TakeOver(p, n) = S!SetItem(q, n, s)
      <4> HIDE DEF p
      <4>1. QED
        BY DEF S!TakeOver
    <3> HIDE DEF p, q
    <3>3. QED
      BY <3>1, <3>2 DEF p
  <2>9. QED
    BY <1>4, <2>4, <2>5, <2>7, <2>8
<1>6. QED
  BY <1>1, <1>3, <1>5

(* An item that joins no others is isolated: two that are pending make a   *)
(* batch of two at least.                                                  *)
LEMMA PairsChosen ==
    ASSUME DOMAIN plan \subseteq Items, S!ParallelWidth > 1
    PROVE  Cardinality(S!PendingBatch(S!ParallelWidth)) > 1
<1> DEFINE P == S!Pending(plan)
           w == S!ParallelWidth
           B == S!PendingBatch(w)
           Up(i) == {j \in P : j <= i}
<1>1. P \in SUBSET Nat /\ P \subseteq Items /\ IsFiniteSet(P)
  BY TaskNumbers, FS_Subset DEF S!Pending
<1>2. Cardinality(P) \in Nat /\ ~(Cardinality(P) < 2) /\ w > 1
  <2>1. Cardinality(P) \in Nat
    BY <1>1, FS_CardinalityType
  <2>2. ~(Cardinality(P) < 2)
    BY SameCount DEF S!ParallelWidth
  <2>3. QED
    BY <2>1, <2>2
<1>3. PICK a \in P : \A m \in P : a <= m
  <2>1. P # {}
    BY <1>2, FS_EmptySet
  <2>2. QED
    BY <1>1, <2>1, LeastOf
<1>4. PICK b \in P \ {a} : \A m \in P \ {a} : b <= m
  <2>1. P \ {a} # {}
    <3>1. Cardinality({a}) = 1
      BY FS_Singleton
    <3>2. P = {a} => FALSE
      BY <1>2, <3>1
    <3>3. QED
      BY <1>3, <3>2
  <2>2. QED
    BY <1>1, <2>1, LeastOf
<1>5. a \in Nat /\ b \in Nat /\ a # b /\ a \in P /\ b \in P
  BY <1>1, <1>3, <1>4
<1>6. Up(a) = {a} /\ Up(b) = {a} \cup {b}
  <2>1. \A j \in P : j \in Nat /\ (j = a \/ (j # a /\ b <= j)) /\ a <= j
    BY <1>1, <1>3, <1>4
  <2>2. \A j \in P : (j <= a <=> j = a) /\ (j <= b <=> j = a \/ j = b)
    BY <1>5, <1>3, <2>1
  <2>3. QED
    BY <1>5, <2>2
<1>7. Cardinality({a}) = 1 /\ Cardinality({a} \cup {b}) = 2
  <2>1. IsFiniteSet({a}) /\ Cardinality({a}) = 1 /\ b \notin {a}
    BY <1>5, FS_Singleton
  <2>2. Cardinality({a} \cup {b}) = Cardinality({a}) + 1
    BY <2>1, FS_AddElement
  <2>3. QED
    BY <2>1, <2>2
<1>8. w \in Int
  <2>1. S!Cardinality(P) = Cardinality(P)
    BY SameCount
  <2>2. Cardinality(P) \in Nat /\ ParallelMax \in Nat
    BY <1>2, StepAssumption
  <2>3. QED
    BY <2>1, <2>2 DEF S!ParallelWidth, S!Least, S!MaxWidth
<1>9. {a} \cup {b} \subseteq B
  BY <1>2, <1>5, <1>6, <1>7, <1>8, SameCount DEF S!PendingBatch
<1>10. IsFiniteSet(B) /\ B \subseteq P
  BY <1>1, FS_Subset DEF S!PendingBatch
<1>11. Cardinality({a} \cup {b}) <= Cardinality(B) /\ Cardinality(B) \in Nat
  BY <1>9, <1>10, FS_Subset, FS_CardinalityType
<1>12. QED
  BY <1>7, <1>11

-----------------------------------------------------------------------------
(* What holds between the steps of the tasks                               *)

(* Where what is done in a worktree is taken into the base branch.         *)
Taking == {"commit", "mergeWait", "mergeFile", "checkout", "merge"}
Ordinary == {"idle", "run", "joining", "joined"}

(* A task at place l with result r.                                        *)
TaskFits(t, l, r) ==
    /\ Result(r)
    /\ t \notin batch => l = "idle"
    /\ t = S!Whole => l \in Ordinary
    /\ l = "run" => t \notin Isolated
    /\ l \in Taking => r.err = "" /\ r.outcome \in {"done", "continue"}
    /\ t \in batch \cap Isolated => r.plan = S!NoPlan \/ DOMAIN r.plan = DOMAIN plan
    /\ t \in batch /\ r.err = "canceled" => stopped \/ failfast

StepTypes ==
    /\ taskPc = [t \in S!Tasks |-> taskPc[t]] /\ res = [t \in S!Tasks |-> res[t]]
    /\ tree = [i \in Items |-> tree[i]]
    /\ batch \subseteq S!Tasks /\ DOMAIN plan \subseteq Items

(* What a batch is: the whole step, one isolated item, or several.         *)
Batched ==
    /\ batch # {} => status = "running"
    /\ S!Whole \in batch => batch = {S!Whole}
    /\ batch # {} /\ S!Whole \notin batch =>
          DOMAIN plan # {} /\ (S!Parallel \/ batch \subseteq Isolated)

(* A task that failed of itself is why the others are cancelled.           *)
Caused ==
    failfast => /\ S!Parallel
                /\ stopped \/ \E t \in batch : taskPc[t] = "joined" /\ res[t].err \notin {"", "canceled"}

StepInv ==
    StepTypes /\ Batched /\ Caused /\ \A t \in S!Tasks : TaskFits(t, taskPc[t], res[t])

First(x, e)  == IF x = "" THEN e ELSE x
Fails(r, e)  == [r EXCEPT !.err = First(r.err, e)]
Escalates(r) == [r EXCEPT !.outcome = "escalate"]

(* A result that gets an error, or waits for a human.                      *)
LEMMA ResultEdits ==
    ASSUME NEW r, Result(r), NEW e
    PROVE  /\ Result(Fails(r, e)) /\ Fails(r, e).plan = r.plan /\ Fails(r, e).outcome = r.outcome
           /\ Fails(r, e).err = First(r.err, e)
           /\ Result(Escalates(r)) /\ Escalates(r).plan = r.plan /\ Escalates(r).err = r.err
           /\ Escalates(r).outcome = "escalate"
<1>1. r = [plan |-> r.plan, outcome |-> r.outcome, err |-> r.err] /\ DOMAIN r.plan \subseteq Items
  BY DEF Result
<1>2. ASSUME NEW p, NEW o, NEW x, r = [plan |-> p, outcome |-> o, err |-> x], DOMAIN p \subseteq Items
      PROVE  /\ Result(Fails(r, e)) /\ Fails(r, e).plan = r.plan /\ Fails(r, e).outcome = r.outcome
             /\ Fails(r, e).err = First(r.err, e)
             /\ Result(Escalates(r)) /\ Escalates(r).plan = r.plan /\ Escalates(r).err = r.err
             /\ Escalates(r).outcome = "escalate"
  <2>1. Fails(r, e) = [plan |-> p, outcome |-> o, err |-> First(x, e)]
    BY <1>2 DEF Fails
  <2>2. Escalates(r) = [plan |-> p, outcome |-> "escalate", err |-> x]
    BY <1>2 DEF Escalates
  <2>3. Result(Fails(r, e)) /\ Result(Escalates(r))
    BY <1>2, <2>1, <2>2 DEF Result
  <2>4. r.plan = p /\ r.outcome = o /\ r.err = x
    BY <1>2
  <2>5. /\ Fails(r, e).plan = p /\ Fails(r, e).outcome = o
        /\ Fails(r, e).err = First(x, e)
    BY <2>1
  <2>6. /\ Escalates(r).plan = p /\ Escalates(r).err = x
        /\ Escalates(r).outcome = "escalate"
    BY <2>2
  <2>7. QED
    BY <2>3, <2>4, <2>5, <2>6
<1>3. QED
  BY <1>1, <1>2

(* A task that is on its way takes a step of its own.                      *)
LEMMA TaskGoes ==
    ASSUME StepInv, NEW t \in S!Tasks, NEW l, NEW r, taskPc[t] \notin {"idle", "joined"}, l # "idle",
           TaskFits(t, l, r), taskPc' = [taskPc EXCEPT ![t] = l], res' = [res EXCEPT ![t] = r],
           tree' = [i \in Items |-> tree'[i]], UNCHANGED <<status, plan, batch, stopped, failfast>>
    PROVE  StepInv'
<1>1. StepTypes /\ Batched /\ Caused /\ \A u \in S!Tasks : TaskFits(u, taskPc[u], res[u])
  BY DEF StepInv
<1>2. /\ taskPc' = [u \in S!Tasks |-> taskPc'[u]] /\ res' = [u \in S!Tasks |-> res'[u]]
      /\ taskPc'[t] = l /\ res'[t] = r
      /\ \A u \in S!Tasks : u # t => taskPc'[u] = taskPc[u] /\ res'[u] = res[u]
  BY <1>1 DEF StepTypes
<1>3. StepTypes'
  BY <1>1, <1>2 DEF StepTypes, S!Tasks
<1>4. S!Parallel' = S!Parallel
  BY DEF S!Parallel
<1>5. Batched'
  BY <1>1, <1>4 DEF Batched
<1>6. Caused'
  <2>1. ASSUME NEW u \in batch, taskPc[u] = "joined" PROVE taskPc'[u] = "joined" /\ res'[u] = res[u]
    BY <1>1, <1>2, <2>1 DEF StepTypes
  <2>2. QED
    BY <1>1, <1>4, <2>1 DEF Caused
<1>7. ASSUME NEW u \in S!Tasks PROVE TaskFits(u, taskPc[u], res[u])'
  <2>1. CASE u = t
    BY <1>2, <2>1 DEF TaskFits
  <2>2. CASE u # t
    BY <1>1, <1>2, <2>2 DEF TaskFits
  <2>3. QED
    BY <2>1, <2>2
<1>8. QED
  BY <1>3, <1>5, <1>6, <1>7 DEF StepInv

(* Its result may stay.                                                    *)
LEMMA TaskMoves ==
    ASSUME StepInv, NEW t \in S!Tasks, NEW l, taskPc[t] \notin {"idle", "joined"}, l # "idle",
           TaskFits(t, l, res[t]), S!Goto(t, l), res' = res,
           tree' = [i \in Items |-> tree'[i]], UNCHANGED <<status, plan, batch, stopped, failfast>>
    PROVE  StepInv'
<1>1. res' = [res EXCEPT ![t] = res[t]]
  BY DEF StepInv, StepTypes
<1>2. taskPc' = [taskPc EXCEPT ![t] = l]
  BY DEF S!Goto
<1>3. QED
  BY <1>1, <1>2, TaskGoes

(* It may fail.                                                            *)
LEMMA TaskFails ==
    ASSUME StepInv, NEW t \in S!Tasks, NEW l, NEW e, taskPc[t] \notin {"idle", "joined"},
           t # S!Whole, l \notin Taking \cup {"idle", "run"}, e = "canceled" => S!Cancelled,
           S!Goto(t, l), S!Failed(t, e),
           tree' = [i \in Items |-> tree'[i]], UNCHANGED <<status, plan, batch, stopped, failfast>>
    PROVE  StepInv'
<1> DEFINE r == Fails(res[t], e)
<1>1. TaskFits(t, taskPc[t], res[t])
  BY DEF StepInv
<1>2. Result(res[t])
  BY <1>1 DEF TaskFits
<1>3. /\ Result(r) /\ r.plan = res[t].plan /\ r.outcome = res[t].outcome
      /\ r.err = First(res[t].err, e)
  BY <1>2, ResultEdits
<1>4. res' = [res EXCEPT ![t] = r]
  BY DEF S!Failed, Fails, First, StepInv, StepTypes
<1>5. taskPc' = [taskPc EXCEPT ![t] = l]
  BY DEF S!Goto
<1> HIDE DEF r
<1>6. TaskFits(t, l, r)
  BY <1>1, <1>3 DEF TaskFits, S!Cancelled, First
<1>7. QED
  BY <1>4, <1>5, <1>6, TaskGoes

(* What the steps of the tasks leave alone.                                *)
LEMMA TreeStays == StepInv /\ tree' = tree => tree' = [i \in Items |-> tree'[i]]
  BY DEF StepInv, StepTypes

(* A worktree that changes is the worktree of an item.                     *)
LEMMA TreeOf ==
    ASSUME StepInv, NEW t, NEW x, tree' = [tree EXCEPT ![t] = x] PROVE tree' = [i \in Items |-> tree'[i]]
  BY DEF StepInv, StepTypes

(* What the invariant says of one task.                                    *)
LEMMA TaskOf ==
    ASSUME StepInv, NEW t \in S!Tasks
    PROVE  /\ TaskFits(t, taskPc[t], res[t]) /\ Result(res[t])
           /\ taskPc[t] # "idle" => t \in batch
           /\ taskPc[t] \notin Ordinary => t # S!Whole /\ t \in Items
           /\ DOMAIN plan \subseteq Items
  BY DEF StepInv, StepTypes, TaskFits, S!Tasks, S!Whole

(* A task that does not get the lock, or the worktree.                     *)
LEMMA RefusedSteps ==
    ASSUME StepInv, NEW t \in S!Tasks, S!LockRefused(t) \/ S!FileRefused(t) PROVE StepInv'
<1>1. /\ taskPc[t] \in {"add", "mergeWait", "clean", "addFile", "mergeFile", "cleanFile"} /\ S!NoLock(t)
      /\ UNCHANGED <<status, plan, batch, stopped, failfast, tree>>
  BY DEF S!LockRefused, S!FileRefused, S!GoalSame, S!ContextSame, S!RepoSame, S!Waits, S!Files
<1>2. /\ TaskFits(t, taskPc[t], res[t]) /\ t # S!Whole /\ t \in batch
      /\ tree' = [i \in Items |-> tree'[i]]
  BY <1>1, TaskOf, TreeStays DEF Ordinary
<1>3. CASE taskPc[t] \in {"add", "addFile"}
  <2>1. S!Goto(t, "fallback") /\ res' = res
    BY <1>1, <1>3 DEF S!NoLock
  <2>2. TaskFits(t, "fallback", res[t])
    BY <1>2 DEF TaskFits, Taking
  <2>3. QED
    BY <1>1, <1>2, <2>1, <2>2, TaskMoves
<1>4. CASE taskPc[t] \in {"mergeWait", "mergeFile"}
  <2> DEFINE e == IF S!Cancelled THEN "canceled" ELSE "locked"
  <2>1. S!Goto(t, "clean") /\ S!Failed(t, e)
    BY <1>1, <1>4 DEF S!NoLock
  <2>2. e = "canceled" => S!Cancelled
    OBVIOUS
  <2> HIDE DEF e
  <2>3. "clean" \notin Taking \cup {"idle", "run"}
    BY DEF Taking
  <2>4. QED
    BY <1>1, <1>2, <2>1, <2>2, <2>3, TaskFails
<1>5. CASE taskPc[t] \in {"clean", "cleanFile"}
  <2>1. S!Goto(t, "joining") /\ res' = res
    BY <1>1, <1>5 DEF S!NoLock
  <2>2. TaskFits(t, "joining", res[t])
    BY <1>2 DEF TaskFits, Taking
  <2>3. QED
    BY <1>1, <1>2, <2>1, <2>2, TaskMoves
<1>6. QED
  BY <1>1, <1>3, <1>4, <1>5

(* A task that gets the lock goes on to what it wanted it for.             *)
LEMMA TakeSteps ==
    ASSUME StepInv, NEW t \in S!Tasks, S!TakeMutex(t) \/ S!TakeFile(t) PROVE StepInv'
<1>1. /\ UNCHANGED <<status, plan, batch, stopped, failfast, tree, res>>
      /\ \/ taskPc[t] \in {"add", "clean", "addFile", "cleanFile"}
              /\ \E l \in {"addFile", "cleanFile", "adding", "cleaning"} : S!Goto(t, l)
         \/ taskPc[t] \in {"mergeWait", "mergeFile"} /\ \E l \in {"mergeFile", "checkout"} : S!Goto(t, l)
  BY DEF S!TakeMutex, S!TakeFile, S!GoalSame, S!ContextSame, S!RepoSame, S!Waits, S!Files
<1>2. /\ TaskFits(t, taskPc[t], res[t]) /\ t # S!Whole /\ t \in batch
      /\ tree' = [i \in Items |-> tree'[i]]
  BY <1>1, TaskOf, TreeStays DEF Ordinary
<1>3. PICK l \in {"addFile", "cleanFile", "adding", "cleaning", "mergeFile", "checkout"} :
          S!Goto(t, l) /\ (l \in Taking => taskPc[t] \in Taking)
  BY <1>1 DEF Taking
<1>4. TaskFits(t, l, res[t])
  BY <1>2, <1>3 DEF TaskFits
<1>5. QED
  BY <1>1, <1>2, <1>3, <1>4, TaskMoves

(* A task that has its worktree, or does without.                          *)
LEMMA WorktreeSteps ==
    ASSUME StepInv, NEW t \in S!Tasks, S!Preflight(t) \/ S!AddWorktree(t) PROVE StepInv'
<1>1. /\ UNCHANGED <<status, plan, batch, stopped, failfast, res>> /\ taskPc[t] \in {"add", "adding"}
      /\ \E l \in {"fallback", "engine"} : S!Goto(t, l)
      /\ tree' = tree \/ tree' = [tree EXCEPT ![t] = "clean"]
  BY DEF S!Preflight, S!AddWorktree, S!GoalSame, S!ContextSame, S!RepoSame
<1>2. TaskFits(t, taskPc[t], res[t]) /\ t # S!Whole /\ t \in batch
  BY <1>1, TaskOf DEF Ordinary
<1>3. tree' = [i \in Items |-> tree'[i]]
  BY <1>1, TreeStays, TreeOf
<1>4. PICK l \in {"fallback", "engine"} : S!Goto(t, l)
  BY <1>1
<1>5. TaskFits(t, l, res[t])
  BY <1>2 DEF TaskFits, Taking
<1>6. QED
  BY <1>1, <1>2, <1>3, <1>4, <1>5, TaskMoves

(* A worktree without an engine is given up.                               *)
LEMMA EngineStep ==
    ASSUME StepInv, NEW t \in S!Tasks, S!Engine(t) PROVE StepInv'
<1>1. /\ UNCHANGED <<status, plan, batch, stopped, failfast, tree>> /\ taskPc[t] = "engine"
      /\ \/ S!Goto(t, "isolated") /\ res' = res
         \/ S!Goto(t, "clean") /\ S!Failed(t, "other")
  BY DEF S!Engine, S!GoalSame, S!ContextSame, S!RepoSame
<1>2. /\ TaskFits(t, taskPc[t], res[t]) /\ t # S!Whole /\ t \in batch
      /\ tree' = [i \in Items |-> tree'[i]]
  BY <1>1, TaskOf, TreeStays DEF Ordinary
<1>3. CASE S!Goto(t, "isolated") /\ res' = res
  <2>1. TaskFits(t, "isolated", res[t])
    BY <1>2 DEF TaskFits, Taking
  <2>2. QED
    BY <1>1, <1>2, <1>3, <2>1, TaskMoves
<1>4. CASE S!Goto(t, "clean") /\ S!Failed(t, "other")
  <2>1. "clean" \notin Taking \cup {"idle", "run"} /\ ("other" = "canceled" => S!Cancelled)
    BY DEF Taking
  <2>2. QED
    BY <1>1, <1>2, <1>4, <2>1, TaskFails
<1>5. QED
  BY <1>1, <1>3, <1>4

(* The list of a worktree item is put onto the goal's.                     *)
OnTo(r) == [r EXCEPT !.plan = S!MergeSubPlan(plan, @)]

(* The result of a worktree's prompt, put onto the whole list.             *)
LEMMA OnToKeeps ==
    ASSUME NEW r, Result(r), DOMAIN plan \subseteq Items
    PROVE  /\ Result(OnTo(r)) /\ OnTo(r).outcome = r.outcome /\ OnTo(r).err = r.err
           /\ DOMAIN plan # {} => DOMAIN OnTo(r).plan = DOMAIN plan
<1>1. r = [plan |-> r.plan, outcome |-> r.outcome, err |-> r.err] /\ DOMAIN r.plan \subseteq Items
  BY DEF Result
<1>2. ASSUME NEW p, NEW o, NEW x, r = [plan |-> p, outcome |-> o, err |-> x], DOMAIN p \subseteq Items
      PROVE  /\ Result(OnTo(r)) /\ OnTo(r).outcome = r.outcome /\ OnTo(r).err = r.err
             /\ DOMAIN plan # {} => DOMAIN OnTo(r).plan = DOMAIN plan
  <2> DEFINE m == S!MergeSubPlan(plan, p)
  <2>1. OnTo(r) = [plan |-> m, outcome |-> o, err |-> x]
    BY <1>2 DEF OnTo
  <2>2. DOMAIN m \subseteq Items /\ (DOMAIN plan # {} => DOMAIN m = DOMAIN plan)
    <3>1. plan = S!NoPlan => DOMAIN plan = {}
      BY DEF S!NoPlan
    <3>2. DOMAIN S!Apply(plan, p) = DOMAIN plan
      BY MarksKeepItems
    <3>3. QED
      BY <1>2, <3>1, <3>2 DEF S!MergeSubPlan
  <2> HIDE DEF m
  <2>3. Result(OnTo(r))
    BY <2>1, <2>2 DEF Result
  <2>4. QED
    BY <1>2, <2>1, <2>2, <2>3
<1>3. QED
  BY <1>1, <1>2

(* The list a prompt starts with names items of the goal.                  *)
LEMMA SubNames ==
    ASSUME NEW t \in S!Tasks, DOMAIN plan \subseteq Items PROVE DOMAIN S!SubState(t) \subseteq Items
  BY DEF S!SubState, S!Tasks

(* A prompt in the workspace.                                              *)
LEMMA RunStepStep ==
    ASSUME StepInv, NEW t \in S!Tasks, S!RunStep(t) PROVE StepInv'
<1>1. /\ UNCHANGED <<status, plan, batch, stopped, failfast, tree>> /\ taskPc[t] \in {"run", "fallback"}
      /\ S!Goto(t, "joining")
  BY DEF S!RunStep, S!GoalSame, S!ContextSame, S!RepoSame
<1>2. /\ TaskFits(t, taskPc[t], res[t]) /\ t \in batch /\ Result(res[t]) /\ DOMAIN plan \subseteq Items
      /\ tree' = [i \in Items |-> tree'[i]] /\ taskPc' = [taskPc EXCEPT ![t] = "joining"]
  BY <1>1, TaskOf, TreeStays DEF S!Goto
<1>3. ASSUME NEW r, res' = [res EXCEPT ![t] = r], TaskFits(t, "joining", r) PROVE StepInv'
  BY <1>1, <1>2, <1>3, TaskGoes
<1>4. CASE res' = [res EXCEPT ![t].err = "other"]
  <2> DEFINE r == [res[t] EXCEPT !.err = "other"]
  <2>1. res' = [res EXCEPT ![t] = r]
    BY <1>4 DEF StepInv, StepTypes
  <2>2. Result(r) /\ r.plan = res[t].plan /\ r.err = "other"
    BY <1>2 DEF Result
  <2> HIDE DEF r
  <2>3. TaskFits(t, "joining", r)
    BY <1>2, <2>2 DEF TaskFits, Taking, Ordinary
  <2>4. QED
    BY <1>3, <2>1, <2>3
<1>5. ASSUME NEW r \in S!Results(S!SubState(t)),
             res' = [res EXCEPT ![t] = IF taskPc[t] = "run" THEN r ELSE OnTo(r)]
      PROVE  StepInv'
  <2>1. Result(r) /\ (r.err = "canceled" => S!Cancelled)
    BY <1>2, SubNames, ResultsAre
  <2>2. CASE taskPc[t] = "run"
    <3>1. TaskFits(t, "joining", r)
      BY <1>2, <2>1, <2>2 DEF TaskFits, Taking, Ordinary, S!Cancelled
    <3>2. QED
      BY <1>3, <1>5, <2>2, <3>1
  <2>3. CASE taskPc[t] # "run"
    <3>1. /\ Result(OnTo(r)) /\ OnTo(r).err = r.err
          /\ DOMAIN plan # {} => DOMAIN OnTo(r).plan = DOMAIN plan
      BY <1>2, <2>1, OnToKeeps
    <3>2. DOMAIN plan # {}
      BY <1>1, <1>2, <2>3 DEF StepInv, Batched, TaskFits, Ordinary
    <3>3. TaskFits(t, "joining", OnTo(r))
      BY <1>2, <2>1, <3>1, <3>2 DEF TaskFits, Taking, Ordinary, S!Cancelled
    <3>4. QED
      BY <1>3, <1>5, <2>3, <3>3
  <2>4. QED
    BY <2>2, <2>3
<1>6. QED
  BY <1>4, <1>5 DEF S!RunStep, OnTo

(* A prompt in a worktree: what ended well goes to be taken.               *)
LEMMA IsolatedStepStep ==
    ASSUME StepInv, NEW t \in S!Tasks, S!IsolatedStep(t) PROVE StepInv'
<1>1. /\ UNCHANGED <<status, plan, batch, stopped, failfast>> /\ taskPc[t] = "isolated"
      /\ tree' = tree \/ tree' = [tree EXCEPT ![t] = "changed"]
  BY DEF S!IsolatedStep, S!GoalSame, S!ContextSame
<1>2. PICK r \in S!Results(S!SubState(t)) :
          /\ res' = [res EXCEPT ![t] = OnTo(r)]
          /\ S!Goto(t, IF S!Keeps(r) THEN "commit" ELSE "clean")
  BY DEF S!IsolatedStep, OnTo
<1>3. /\ TaskFits(t, taskPc[t], res[t]) /\ t \in batch /\ t # S!Whole /\ DOMAIN plan \subseteq Items
      /\ tree' = [i \in Items |-> tree'[i]]
  BY <1>1, TaskOf, TreeStays, TreeOf DEF Ordinary
<1>4. /\ Result(r) /\ (r.err = "canceled" => S!Cancelled)
      /\ r.err = "" => r.outcome \in {"done", "failed", "continue"}
  BY <1>3, SubNames, ResultsAre
<1>5. /\ Result(OnTo(r)) /\ OnTo(r).err = r.err /\ OnTo(r).outcome = r.outcome
      /\ DOMAIN plan # {} => DOMAIN OnTo(r).plan = DOMAIN plan
  BY <1>3, <1>4, OnToKeeps
<1>6. DOMAIN plan # {}
  BY <1>3 DEF StepInv, Batched
<1>7. CASE S!Keeps(r)
  <2>1. TaskFits(t, "commit", OnTo(r))
    BY <1>3, <1>4, <1>5, <1>6, <1>7 DEF TaskFits, S!Cancelled, S!Keeps
  <2>2. taskPc' = [taskPc EXCEPT ![t] = "commit"]
    BY <1>2, <1>7 DEF S!Goto
  <2>3. QED
    BY <1>1, <1>2, <1>3, <2>1, <2>2, TaskGoes
<1>8. CASE ~S!Keeps(r)
  <2>1. TaskFits(t, "clean", OnTo(r))
    BY <1>3, <1>4, <1>5, <1>6 DEF TaskFits, S!Cancelled, Taking
  <2>2. taskPc' = [taskPc EXCEPT ![t] = "clean"]
    BY <1>2, <1>8 DEF S!Goto
  <2>3. QED
    BY <1>1, <1>2, <1>3, <2>1, <2>2, TaskGoes
<1>9. QED
  BY <1>7, <1>8

(* What git says no to.                                                    *)
LEMMA GitFails ==
    ASSUME StepInv, NEW t \in S!Tasks, NEW e \in S!GitError, taskPc[t] \in Taking,
           S!Goto(t, "clean"), S!Failed(t, e),
           tree' = [i \in Items |-> tree'[i]], UNCHANGED <<status, plan, batch, stopped, failfast>>
    PROVE  StepInv'
<1>1. e = "canceled" => S!Cancelled
  BY DEF S!GitError
<1>2. "clean" \notin Taking \cup {"idle", "run"} /\ t # S!Whole /\ taskPc[t] \notin {"idle", "joined"}
  BY TaskOf DEF Taking, Ordinary
<1>3. QED
  BY <1>1, <1>2, TaskFails

(* A worktree that has nothing, or cannot be committed, is not merged.     *)
LEMMA CommitStep ==
    ASSUME StepInv, NEW t \in S!Tasks, S!CommitAll(t) PROVE StepInv'
<1>1. /\ UNCHANGED <<status, plan, batch, stopped, failfast>> /\ taskPc[t] = "commit" /\ taskPc[t] \in Taking
      /\ tree' = tree \/ tree' = [tree EXCEPT ![t] = "committed"]
  BY DEF S!CommitAll, S!GoalSame, S!ContextSame, Taking
<1>2. /\ TaskFits(t, taskPc[t], res[t]) /\ t \in batch /\ t # S!Whole
      /\ tree' = [i \in Items |-> tree'[i]]
  BY <1>1, TaskOf, TreeStays, TreeOf DEF Ordinary
<1>3. ASSUME NEW e \in S!GitError, S!Goto(t, "clean"), S!Failed(t, e) PROVE StepInv'
  BY <1>1, <1>2, <1>3, GitFails
<1>4. ASSUME NEW l \in {"clean", "mergeWait"}, S!Goto(t, l), res' = res PROVE StepInv'
  <2>1. TaskFits(t, l, res[t])
    BY <1>1, <1>2, <1>4 DEF TaskFits
  <2>2. QED
    BY <1>1, <1>2, <1>4, <2>1, TaskMoves
<1>5. QED
  BY <1>3, <1>4 DEF S!CommitAll

(* A merge, and what keeps it from being one.                              *)
LEMMA MergeSteps ==
    ASSUME StepInv, NEW t \in S!Tasks, S!Checkout(t) \/ S!Merge(t) PROVE StepInv'
<1>1. /\ UNCHANGED <<status, plan, batch, stopped, failfast, tree>>
      /\ taskPc[t] \in {"checkout", "merge"} /\ taskPc[t] \in Taking
  BY DEF S!Checkout, S!Merge, S!GoalSame, S!ContextSame, S!RepoSame, Taking
<1>2. /\ TaskFits(t, taskPc[t], res[t]) /\ t \in batch /\ t # S!Whole
      /\ tree' = [i \in Items |-> tree'[i]]
  BY <1>1, TaskOf, TreeStays DEF Ordinary
<1>3. ASSUME NEW e \in S!GitError, S!MergeFails(t, e) PROVE StepInv'
  BY <1>1, <1>2, <1>3, GitFails DEF S!MergeFails
<1>4. ASSUME NEW l \in {"merge", "clean", "abort"}, S!Goto(t, l), res' = res PROVE StepInv'
  <2>1. TaskFits(t, l, res[t])
    BY <1>1, <1>2, <1>4 DEF TaskFits
  <2>2. QED
    BY <1>1, <1>2, <1>4, <2>1, TaskMoves
<1>5. QED
  BY <1>3, <1>4 DEF S!Checkout, S!Merge

(* A conflict is handed to a human.                                        *)
LEMMA AbortStep ==
    ASSUME StepInv, NEW t \in S!Tasks, S!Abort(t) PROVE StepInv'
<1>1. /\ UNCHANGED <<status, plan, batch, stopped, failfast, tree>> /\ taskPc[t] = "abort"
      /\ S!Goto(t, "joining")
  BY DEF S!Abort, S!GoalSame, S!ContextSame
<1>2. /\ TaskFits(t, taskPc[t], res[t]) /\ Result(res[t]) /\ t \in batch /\ t # S!Whole
      /\ tree' = [i \in Items |-> tree'[i]] /\ taskPc' = [taskPc EXCEPT ![t] = "joining"]
  BY <1>1, TaskOf, TreeStays DEF Ordinary, S!Goto
<1>3. res' = [res EXCEPT ![t] = Escalates(res[t])]
  BY DEF S!Abort, Escalates, StepInv, StepTypes
<1>4. Result(Escalates(res[t])) /\ Escalates(res[t]).plan = res[t].plan /\ Escalates(res[t]).err = res[t].err
  BY <1>2, ResultEdits
<1>5. TaskFits(t, "joining", Escalates(res[t]))
  BY <1>2, <1>4 DEF TaskFits, Taking
<1>6. QED
  BY <1>1, <1>2, <1>3, <1>5, TaskGoes

(* A worktree is taken down.                                               *)
LEMMA CleanupTreeStep ==
    ASSUME StepInv, NEW t \in S!Tasks, S!Cleanup(t) PROVE StepInv'
<1>1. /\ UNCHANGED <<status, plan, batch, stopped, failfast, res>> /\ taskPc[t] = "cleaning"
      /\ S!Goto(t, "joining") /\ (tree' = tree \/ tree' = [tree EXCEPT ![t] = "none"])
  BY DEF S!Cleanup, S!Removed, S!GoalSame, S!ContextSame
<1>2. /\ TaskFits(t, taskPc[t], res[t]) /\ t \in batch /\ t # S!Whole
      /\ tree' = [i \in Items |-> tree'[i]]
  BY <1>1, TaskOf, TreeStays, TreeOf DEF Ordinary
<1>3. TaskFits(t, "joining", res[t])
  BY <1>2 DEF TaskFits, Taking
<1>4. QED
  BY <1>1, <1>2, <1>3, TaskMoves

(* Who cancels the others has failed of itself, or was cancelled when they *)
(* were.                                                                   *)
LEMMA JoinedStep ==
    ASSUME StepInv, NEW t \in S!Tasks, S!Joined(t) PROVE StepInv'
<1>1. /\ UNCHANGED <<status, plan, batch, stopped, tree, res>> /\ taskPc[t] = "joining"
      /\ taskPc' = [taskPc EXCEPT ![t] = "joined"]
      /\ failfast' = (failfast \/ (S!Parallel /\ res[t].err # ""))
  BY DEF S!Joined, S!Goto, S!GoalSame, S!RepoSame
<1>2. StepTypes /\ Batched /\ Caused /\ \A u \in S!Tasks : TaskFits(u, taskPc[u], res[u])
  BY DEF StepInv
<1>3. TaskFits(t, taskPc[t], res[t]) /\ t \in batch
  BY <1>1, TaskOf
<1>4. /\ taskPc'[t] = "joined" /\ \A u \in S!Tasks : u # t => taskPc'[u] = taskPc[u]
      /\ taskPc' = [u \in S!Tasks |-> taskPc'[u]]
  BY <1>1, <1>2 DEF StepTypes
<1>5. StepTypes'
  BY <1>1, <1>2, <1>4 DEF StepTypes, S!Tasks
<1>6. S!Parallel' = S!Parallel
  BY <1>1 DEF S!Parallel
<1>7. Batched'
  BY <1>1, <1>2, <1>6 DEF Batched
<1>8. Caused'
  <2>1. ASSUME NEW u \in batch, taskPc[u] = "joined" PROVE taskPc'[u] = "joined"
    BY <1>1, <1>2, <1>4, <2>1 DEF StepTypes
  <2>2. CASE failfast
    BY <1>1, <1>2, <1>6, <2>1, <2>2 DEF Caused
  <2>3. CASE ~failfast /\ res[t].err # "canceled"
    BY <1>1, <1>3, <1>4, <1>6, <2>3 DEF Caused
  <2>4. CASE ~failfast /\ res[t].err = "canceled"
    BY <1>1, <1>3, <1>6, <2>4 DEF Caused, TaskFits
  <2>5. QED
    BY <2>2, <2>3, <2>4
<1>9. ASSUME NEW u \in S!Tasks PROVE TaskFits(u, taskPc[u], res[u])'
  <2>1. TaskFits(u, taskPc[u], res[u])
    BY <1>2
  <2>2. CASE u = t
    BY <1>1, <1>3, <1>4, <2>1, <2>2 DEF TaskFits, Taking, Ordinary
  <2>3. CASE u # t
    BY <1>1, <1>4, <2>1, <2>3 DEF TaskFits
  <2>4. QED
    BY <2>2, <2>3
<1>10. QED
  BY <1>5, <1>7, <1>8, <1>9 DEF StepInv

(* Every step of a task.                                                   *)
LEMMA TaskStep ==
    ASSUME StepInv, NEW t \in S!Tasks, S!Task(t) PROVE StepInv'
  BY RefusedSteps, TakeSteps, WorktreeSteps, EngineStep, RunStepStep, IsolatedStepStep, CommitStep,
     MergeSteps, AbortStep, CleanupTreeStep, JoinedStep DEF S!Task

(* Before a step, and after it, no task has anything.                      *)
LEMMA NoTask ==
    ASSUME NEW t PROVE TaskFits(t, "idle", S!NoResult)
<1>1. S!NoResult = [plan |-> S!NoPlan, outcome |-> "", err |-> ""] /\ DOMAIN S!NoPlan = {}
  BY DEF S!NoResult, S!NoPlan
<1>2. S!NoResult.plan = S!NoPlan /\ S!NoResult.err = "" /\ S!NoResult.outcome = ""
  BY <1>1
<1>3. Result(S!NoResult)
  BY <1>1 DEF Result
<1>4. QED
  BY <1>2, <1>3 DEF TaskFits, Taking, Ordinary

(* Nobody has been cancelled by another when no step is under way.         *)
LEMMA Idle == StepInv /\ batch = {} => ~failfast
  BY SameCount, FS_EmptySet DEF StepInv, Caused, S!Parallel

(* A step is started: no task has anything yet.                            *)
LEMMA StepBegins == ASSUME StepInv, S!Begin PROVE StepInv'
<1>1. /\ status = "running" /\ batch = {} /\ batch' = S!Chosen /\ ~failfast
      /\ UNCHANGED <<status, plan, stopped, failfast, tree>>
      /\ taskPc' = [t \in S!Tasks |-> IF t \in batch' THEN S!Entry(t) ELSE "idle"]
      /\ res' = [t \in S!Tasks |-> S!NoResult]
  BY Idle DEF S!Begin, S!ContextSame, S!RepoSame
<1>2. DOMAIN plan \subseteq Items /\ tree' = [i \in Items |-> tree'[i]]
  BY <1>1, TreeStays DEF StepInv, StepTypes
<1>3. S!Pending(plan) \subseteq Items /\ S!Pending(plan) \subseteq DOMAIN plan
  BY <1>2 DEF S!Pending
<1>4. \/ S!ParallelWidth > 1 /\ batch' = S!PendingBatch(S!ParallelWidth)
      \/ \E i \in S!Pending(plan) \cap Isolated : batch' = {i}
      \/ batch' = {S!Whole}
  <2>1. S!Pending(plan) # {} => S!NextPending(plan) \in S!Pending(plan)
    <3>1. S!Pending(plan) \in SUBSET Nat
      BY <1>3, TaskNumbers
    <3>2. QED
      BY <3>1, LeastOf DEF S!NextPending
  <2>2. QED
    BY <1>1, <2>1 DEF S!Chosen
<1>5. /\ batch' \subseteq S!Tasks /\ (S!Whole \in batch' => batch' = {S!Whole})
      /\ S!Whole \notin batch' => batch' \subseteq S!Pending(plan) /\ (S!Parallel' \/ batch' \subseteq Isolated)
  <2>1. CASE S!ParallelWidth > 1 /\ batch' = S!PendingBatch(S!ParallelWidth)
    <3>1. Cardinality(batch') > 1
      BY <1>2, <2>1, PairsChosen
    <3>2. S!Parallel'
      BY <3>1, SameCount DEF S!Parallel
    <3>3. batch' \subseteq S!Pending(plan)
      BY <2>1 DEF S!PendingBatch
    <3>4. QED
      BY <1>3, <3>2, <3>3, TaskNumbers
  <2>2. ASSUME NEW i \in S!Pending(plan) \cap Isolated, batch' = {i}
        PROVE  /\ batch' \subseteq S!Tasks /\ S!Whole \notin batch'
               /\ batch' \subseteq S!Pending(plan) /\ batch' \subseteq Isolated
    BY <1>3, <2>2, TaskNumbers
  <2>3. CASE batch' = {S!Whole}
    BY <2>3, TaskNumbers
  <2>4. QED
    BY <1>4, <2>1, <2>2, <2>3
<1>6. StepTypes'
  BY <1>1, <1>2, <1>5 DEF StepTypes, S!Tasks
<1>7. Batched'
  BY <1>1, <1>3, <1>5 DEF Batched
<1>8. Caused'
  BY <1>1 DEF Caused
<1>9. ASSUME NEW t \in S!Tasks PROVE TaskFits(t, taskPc[t], res[t])'
  <2>1. res'[t] = S!NoResult /\ Result(S!NoResult) /\ S!NoResult.plan = S!NoPlan /\ S!NoResult.err = ""
    <3>1. Result(S!NoResult)
      BY NoTask DEF TaskFits
    <3>2. QED
      BY <1>1, <3>1 DEF S!NoResult
  <2>2. taskPc'[t] \in {"idle", "run", "add"} /\ (taskPc'[t] = "idle" <=> t \notin batch')
    BY <1>1 DEF S!Entry
  <2>3. (taskPc'[t] = "run" => t \notin Isolated) /\ (taskPc'[t] = "add" => t \in Isolated)
    BY <1>1 DEF S!Entry
  <2>4. t = S!Whole => t \notin Isolated
    BY TaskNumbers, StepAssumption
  <2>5. QED
    BY <2>1, <2>2, <2>3, <2>4 DEF TaskFits, Taking, Ordinary
<1>10. QED
  BY <1>6, <1>7, <1>8, <1>9 DEF StepInv

(* What a step leaves names items of the goal.                             *)
LEMMA ResultNames ==
    ASSUME StepInv, batch # {} PROVE DOMAIN S!StepResult.plan \subseteq Items
<1>1. CASE S!Parallel
  BY <1>1, JoinedItems DEF S!StepResult, StepInv, StepTypes
<1>2. CASE ~S!Parallel
  <2> DEFINE t == CHOOSE u \in batch : TRUE
  <2>1. t \in batch /\ S!StepResult = res[t]
    BY <1>2 DEF S!StepResult
  <2> HIDE DEF t
  <2>2. Result(res[t])
    BY <2>1, TaskOf DEF StepInv, StepTypes
  <2>3. QED
    BY <2>1, <2>2 DEF Result
<1>3. QED
  BY <1>1, <1>2

(* A step is over: no task has anything any more.                          *)
LEMMA StepJoins == ASSUME StepInv, S!Join PROVE StepInv'
<1>1. /\ batch # {} /\ batch' = {} /\ taskPc' = [t \in S!Tasks |-> "idle"]
      /\ res' = [t \in S!Tasks |-> S!NoResult] /\ failfast' = FALSE /\ UNCHANGED <<stopped, tree>>
      /\ plan' \in {plan, S!StepResult.plan}
  BY DEF S!Join, S!RepoSame
<1>2. DOMAIN plan' \subseteq Items /\ tree' = [i \in Items |-> tree'[i]]
  BY <1>1, ResultNames, TreeStays DEF StepInv, StepTypes
<1>3. StepTypes'
  BY <1>1, <1>2 DEF StepTypes, S!Tasks
<1>4. Batched' /\ Caused'
  BY <1>1 DEF Batched, Caused
<1>5. ASSUME NEW t \in S!Tasks PROVE TaskFits(t, taskPc[t], res[t])'
  <2>1. taskPc'[t] = "idle" /\ res'[t] = S!NoResult
    BY <1>1
  <2>2. TaskFits(t, "idle", S!NoResult)
    BY NoTask
  <2>3. QED
    BY <1>1, <2>1, <2>2 DEF TaskFits
<1>6. QED
  BY <1>3, <1>4, <1>5 DEF StepInv

(* What happens around a step.                                             *)
LEMMA AroundSteps ==
    ASSUME StepInv, UNCHANGED <<plan, batch, taskPc, res, failfast>>,
           tree' = [i \in Items |-> tree'[i]],
           \/ UNCHANGED <<status, stopped>>
           \/ batch = {}
           \/ status' = status /\ stopped'
    PROVE  StepInv'
<1>1. S!Parallel' = S!Parallel
  BY DEF S!Parallel
<1>2. StepTypes' /\ Batched'
  BY <1>1 DEF StepInv, StepTypes, Batched, S!Tasks
<1>3. Caused'
  BY <1>1, Idle DEF StepInv, Caused
<1>4. ASSUME NEW t \in S!Tasks PROVE TaskFits(t, taskPc[t], res[t])'
  <2>1. TaskFits(t, taskPc[t], res[t])
    BY DEF StepInv
  <2>2. QED
    BY <2>1 DEF TaskFits
<1>5. QED
  BY <1>2, <1>3, <1>4 DEF StepInv

(* Every step keeps the invariant.                                         *)
LEMMA StepNext == ASSUME StepInv, S!Next PROVE StepInv'
<1>1. CASE S!EndRun
  BY <1>1, AroundSteps, TreeStays DEF S!EndRun, S!ContextSame, S!RepoSame
<1>2. CASE S!Stop
  BY <1>2, AroundSteps, TreeStays DEF S!Stop, S!GoalSame, S!RepoSame
<1>3. CASE S!Resume
  <2>1. batch = {}
    BY <1>3 DEF S!Resume, StepInv, Batched
  <2>2. QED
    BY <1>3, <2>1, AroundSteps, TreeStays DEF S!Resume, S!RepoSame
<1>4. CASE S!Peer
  BY <1>4, AroundSteps, TreeStays DEF S!Peer, S!GoalSame, S!ContextSame, S!RepoSame
<1>5. ASSUME NEW i \in Items, S!Resolve(i) PROVE StepInv'
  BY <1>5, AroundSteps, TreeOf DEF S!Resolve, S!GoalSame, S!ContextSame
<1>6. QED
  BY <1>1, <1>2, <1>3, <1>4, <1>5, StepBegins, StepJoins, TaskStep DEF S!Next, S!Steps

(* So does a step of another part.                                         *)
LEMMA StepStays == ASSUME StepInv, UNCHANGED stepVars PROVE StepInv'
<1>1. UNCHANGED <<status, plan, batch, taskPc, res, stopped, failfast, tree>>
  BY DEF stepVars
<1>2. QED
  BY <1>1, AroundSteps, TreeStays

(* It holds at the start.                                                  *)
LEMMA StepStarts == S!Init => StepInv
<1> SUFFICES ASSUME S!Init PROVE StepInv
  OBVIOUS
<1>1. /\ batch = {} /\ taskPc = [t \in S!Tasks |-> "idle"] /\ res = [t \in S!Tasks |-> S!NoResult]
      /\ failfast = FALSE /\ tree = [i \in Items |-> "none"] /\ DOMAIN plan \subseteq Items
  BY DEF S!Init, S!NoPlan
<1>2. StepTypes /\ Batched /\ Caused
  BY <1>1 DEF StepTypes, Batched, Caused
<1>3. ASSUME NEW t \in S!Tasks PROVE TaskFits(t, taskPc[t], res[t])
  BY <1>1, NoTask
<1>4. QED
  BY <1>2, <1>3 DEF StepInv

-----------------------------------------------------------------------------
(* The properties                                                          *)

(* A task leaves the batch and the goal's state alone.                     *)
LEMMA TaskKeepsBatch == ASSUME NEW t \in S!Tasks, S!Task(t) PROVE UNCHANGED <<batch, status, sum>>
<1>1. CASE S!LockRefused(t) \/ S!TakeMutex(t) \/ S!TakeFile(t) \/ S!FileRefused(t) \/ S!Preflight(t)
  BY <1>1 DEF S!LockRefused, S!TakeMutex, S!TakeFile, S!FileRefused, S!Preflight, S!GoalSame
<1>2. CASE S!AddWorktree(t) \/ S!Engine(t) \/ S!RunStep(t) \/ S!IsolatedStep(t) \/ S!CommitAll(t)
  BY <1>2 DEF S!AddWorktree, S!Engine, S!RunStep, S!IsolatedStep, S!CommitAll, S!GoalSame
<1>3. CASE S!Checkout(t) \/ S!Merge(t) \/ S!Abort(t) \/ S!Cleanup(t) \/ S!Joined(t)
  BY <1>3 DEF S!Checkout, S!Merge, S!Abort, S!Cleanup, S!Joined, S!GoalSame
<1>4. QED
  BY <1>1, <1>2, <1>3 DEF S!Task

(* A step ends only when its results are joined.                           *)
LEMMA OnlyJoin == ASSUME S!Next, S!Joining PROVE S!Join
<1>1. S!Begin => batch = {}
  BY DEF S!Begin
<1>2. S!EndRun \/ S!Stop \/ S!Resume \/ S!Peer \/ (\E i \in Items : S!Resolve(i)) => batch' = batch
  BY DEF S!EndRun, S!Stop, S!Resume, S!Peer, S!Resolve, S!GoalSame
<1>3. QED
  BY <1>1, <1>2, TaskKeepsBatch DEF S!Next, S!Steps, S!Joining

(* The one task of a step that is not parallel.                            *)
LEMMA Alone ==
    ASSUME StepInv, batch # {}, ~S!Parallel
    PROVE  \E t \in batch : batch = {t} /\ t \in S!Tasks /\ S!StepResult = res[t]
<1>1. IsFiniteSet(batch) /\ Cardinality(batch) \in Nat /\ ~(Cardinality(batch) > 1)
  BY TaskNumbers, SameCount, FS_Subset, FS_CardinalityType DEF StepInv, StepTypes, S!Parallel
<1>2. Cardinality(batch) # 0
  BY <1>1, FS_EmptySet
<1>3. Cardinality(batch) = 1
  BY <1>1, <1>2
<1>4. PICK t : batch = {t}
  BY <1>1, <1>3, FS_Singleton
<1>5. t \in batch /\ t \in S!Tasks
  BY <1>4 DEF StepInv, StepTypes
<1>6. (CHOOSE u \in batch : TRUE) = t
  BY <1>4
<1>7. S!StepResult = res[t]
  BY <1>6 DEF S!StepResult
<1>8. QED
  BY <1>4, <1>5, <1>7

(* A step of several items keeps the list, and a finished goal's is done.  *)
LEMMA ListKept ==
    ASSUME StepInv, S!Next, S!Joining, S!Whole \notin batch
    PROVE  /\ DOMAIN plan' = DOMAIN plan
           /\ S!Parallel /\ status' = "done" => S!AllDone(plan')
<1> DEFINE r == S!StepResult
<1>1. /\ batch # {}
      /\ \/ status' = S!After(r) /\ plan' = IF r.plan = S!NoPlan THEN plan ELSE r.plan
         \/ status' = "partial" /\ plan' = plan
  BY OnlyJoin DEF S!Join
<1>2. DOMAIN plan # {} /\ (S!Parallel \/ batch \subseteq Isolated)
  BY <1>1 DEF StepInv, Batched
<1>3. CASE S!Parallel
  <2>1. r = [plan |-> S!JoinedPlan, outcome |-> S!JoinedOutcome(S!JoinedPlan), err |-> S!FirstParallelErr]
    BY <1>3 DEF S!StepResult
  <2>2. r.plan = S!JoinedPlan /\ r.outcome = S!JoinedOutcome(S!JoinedPlan)
    BY <2>1
  <2> HIDE DEF r
  <2>3. DOMAIN S!JoinedPlan = DOMAIN plan /\ S!JoinedPlan # S!NoPlan
    <3>1. DOMAIN S!NoPlan = {}
      BY DEF S!NoPlan
    <3>2. QED
      BY <1>2, <3>1, JoinedItems
  <2>4. DOMAIN plan' = DOMAIN plan
    BY <1>1, <2>2, <2>3
  <2>5. ASSUME status' = "done" PROVE S!AllDone(plan')
    <3>1. S!After(r) = "done" => r.outcome = "done"
      BY DEF S!After
    <3>2. S!JoinedOutcome(S!JoinedPlan) = "done" => S!AllDone(S!JoinedPlan)
      BY DEF S!JoinedOutcome
    <3>3. status' = S!After(r) /\ plan' = S!JoinedPlan
      BY <1>1, <2>2, <2>3, <2>5
    <3>4. QED
      BY <2>2, <2>5, <3>1, <3>2, <3>3
  <2>6. QED
    BY <2>4, <2>5
<1>4. CASE ~S!Parallel
  <2>1. PICK t \in batch : t \in S!Tasks /\ r = res[t]
    BY <1>1, <1>4, Alone
  <2>2. TaskFits(t, taskPc[t], res[t]) /\ t \in Isolated
    BY <1>2, <1>4, <2>1, TaskOf
  <2>3. r.plan = S!NoPlan \/ DOMAIN r.plan = DOMAIN plan
    BY <2>1, <2>2 DEF TaskFits
  <2> HIDE DEF r
  <2>4. DOMAIN plan' = DOMAIN plan
    BY <1>1, <2>3
  <2>5. QED
    BY <1>4, <2>4
<1>5. QED
  BY <1>3, <1>4

(* What is merged ended well.                                              *)
LEMMA EndedWell ==
    ASSUME StepInv, S!Next, NEW i \in merged' \ merged, status = "running"
    PROVE  res[i].err = "" /\ res[i].outcome \in {"done", "continue"}
<1>1. S!Begin \/ S!Join \/ S!EndRun \/ S!Stop \/ S!Resume \/ S!Peer => merged' = merged
  BY DEF S!Begin, S!Join, S!EndRun, S!Stop, S!Resume, S!Peer, S!RepoSame
<1>2. \A j \in Items : ~S!Resolve(j)
  BY DEF S!Resolve
<1>3. PICK t \in S!Tasks : S!Task(t)
  BY <1>1, <1>2 DEF S!Next, S!Steps
<1>4. S!Merge(t)
  <2>1. CASE S!LockRefused(t) \/ S!TakeMutex(t) \/ S!TakeFile(t) \/ S!FileRefused(t) \/ S!Preflight(t)
    BY <2>1 DEF S!LockRefused, S!TakeMutex, S!TakeFile, S!FileRefused, S!Preflight, S!RepoSame
  <2>2. CASE S!AddWorktree(t) \/ S!Engine(t) \/ S!RunStep(t) \/ S!IsolatedStep(t) \/ S!CommitAll(t)
    BY <2>2 DEF S!AddWorktree, S!Engine, S!RunStep, S!IsolatedStep, S!CommitAll, S!RepoSame
  <2>3. CASE S!Checkout(t) \/ S!Abort(t) \/ S!Cleanup(t) \/ S!Joined(t)
    BY <2>3 DEF S!Checkout, S!Abort, S!Cleanup, S!Joined, S!RepoSame
  <2>4. QED
    BY <1>3, <2>1, <2>2, <2>3 DEF S!Task
<1>5. taskPc[t] \in Taking /\ i = t
  BY <1>4 DEF S!Merge, Taking
<1>6. QED
  BY <1>5, TaskOf DEF TaskFits

(* A worktree stays only for a human, a cancelled step or a busy lock.     *)
LEMMA TreesGo ==
    ASSUME StepInv, S!Next, NEW i \in Items, taskPc[i] \notin {"run", "fallback", "joining"},
           taskPc'[i] = "joining", tree'[i] # "none"
    PROVE  res'[i].outcome = "escalate" \/ S!Cancelled \/ peer
<1>1. i \in S!Tasks /\ StepTypes
  BY TaskNumbers DEF StepInv
<1>2. S!Begin \/ S!Join => taskPc'[i] \in {"idle", "run", "add"}
  BY <1>1 DEF S!Begin, S!Join, S!Entry
<1>3. S!EndRun \/ S!Stop \/ S!Resume \/ S!Peer \/ (\E j \in Items : S!Resolve(j)) => taskPc' = taskPc
  BY DEF S!EndRun, S!Stop, S!Resume, S!Peer, S!Resolve
<1>4. PICK t \in S!Tasks : S!Task(t)
  BY <1>2, <1>3 DEF S!Next, S!Steps
<1>5. ASSUME NEW l, S!Goto(t, l) PROVE l = "joining" /\ t = i
  BY <1>1, <1>5 DEF S!Goto, StepTypes
<1>6. CASE S!LockRefused(t) \/ S!FileRefused(t)
  BY <1>6, <1>5 DEF S!LockRefused, S!FileRefused
<1>7. CASE S!TakeMutex(t) \/ S!TakeFile(t) \/ S!Preflight(t)
  BY <1>7, <1>5 DEF S!TakeMutex, S!TakeFile, S!Preflight, S!Waits, S!Files
<1>8. CASE S!AddWorktree(t) \/ S!Engine(t) \/ S!CommitAll(t)
  BY <1>8, <1>5 DEF S!AddWorktree, S!Engine, S!CommitAll
<1>9. CASE S!RunStep(t)
  BY <1>9, <1>5 DEF S!RunStep
<1>10. CASE S!IsolatedStep(t)
  <2>1. PICK l \in {"commit", "clean"} : S!Goto(t, l)
    BY <1>10 DEF S!IsolatedStep
  <2>2. QED
    BY <1>5, <2>1
<1>11. CASE S!Checkout(t) \/ S!Merge(t)
  <2>1. \E l \in {"merge", "clean", "abort"} : S!Goto(t, l)
    BY <1>11 DEF S!Checkout, S!Merge, S!MergeFails
  <2>2. QED
    BY <1>5, <2>1
<1>12. CASE S!Abort(t)
  <2>1. t = i /\ res' = [res EXCEPT ![t] = Escalates(res[t])]
    BY <1>5, <1>12 DEF S!Abort, Escalates, StepInv, StepTypes
  <2>2. Escalates(res[t]).outcome = "escalate"
    BY TaskOf, ResultEdits
  <2>3. QED
    BY <1>1, <2>1, <2>2 DEF StepTypes
<1>13. CASE S!Cleanup(t)
  BY <1>1, <1>5, <1>13 DEF S!Cleanup, S!Removed, StepTypes
<1>14. CASE S!Joined(t)
  BY <1>5, <1>14 DEF S!Joined
<1>15. QED
  BY <1>4, <1>6, <1>7, <1>8, <1>9, <1>10, <1>11, <1>12, <1>13, <1>14 DEF S!Task

(* A step says it was cancelled only if it was.                            *)
LEMMA CauseTold ==
    ASSUME StepInv, S!Next, S!Joining, sum'.err = "canceled" PROVE stopped
<1>1. S!Join /\ batch # {} /\ S!StepResult.err = "canceled"
  BY OnlyJoin DEF S!Join
<1>2. SUFFICES ASSUME ~stopped PROVE FALSE
  OBVIOUS
<1>3. ASSUME NEW t \in batch, res[t].err = "canceled"
      PROVE  S!Parallel /\ \E u \in batch : res[u].err \notin {"", "canceled"}
  <2>1. t \in S!Tasks
    BY DEF StepInv, StepTypes
  <2>2. failfast
    BY <1>2, <1>3, <2>1, TaskOf DEF TaskFits
  <2>3. QED
    BY <1>2, <2>2 DEF StepInv, Caused
<1>4. CASE ~S!Parallel
  BY <1>1, <1>3, <1>4, Alone
<1>5. CASE S!Parallel
  <2> DEFINE failures == {t \in batch : res[t].err # ""}
             causes == {t \in failures : res[t].err # "canceled"}
  <2>1. S!FirstParallelErr = "canceled"
    BY <1>1, <1>5 DEF S!StepResult
  <2>2. failures # {}
    BY <2>1 DEF S!FirstParallelErr
  <2>3. causes # {}
    <3>1. PICK t \in batch : res[t].err # ""
      BY <2>2
    <3>2. CASE res[t].err = "canceled"
      <4>1. PICK u \in batch : res[u].err \notin {"", "canceled"}
        BY <1>3, <3>2
      <4>2. QED
        BY <4>1
    <3>3. CASE res[t].err # "canceled"
      BY <3>1, <3>3
    <3>4. QED
      BY <3>2, <3>3
  <2>4. S!FirstParallelErr = S!FirstOf(causes)
    BY <2>2, <2>3 DEF S!FirstParallelErr
  <2>5. causes \in SUBSET Nat
    BY TaskNumbers DEF StepInv, StepTypes
  <2> HIDE DEF causes
  <2> DEFINE least == CHOOSE t \in causes : \A u \in causes : t <= u
  <2>6. least \in causes
    BY <2>3, <2>5, LeastOf
  <2>7. S!FirstOf(causes) = res[least].err
    BY DEF S!FirstOf
  <2> HIDE DEF least
  <2>8. res[least].err # "canceled"
    BY <2>6 DEF causes
  <2>9. QED
    BY <2>1, <2>4, <2>7, <2>8
<1>6. QED
  BY <1>4, <1>5

(* A conflict stops the goal, unless a failure does.                       *)
LEMMA ConflictTold ==
    ASSUME StepInv, S!Next, S!Joining, sum'.err = "", NEW t \in batch, res[t].outcome = "escalate"
    PROVE  status' \in {"blocked", "failed", "partial"}
<1> DEFINE r == S!StepResult
<1>1. batch # {} /\ r.err = "" /\ (status' = S!After(r) \/ status' = "partial")
  BY OnlyJoin DEF S!Join
<1>2. r.outcome \in {"failed", "escalate"}
  <2>1. CASE S!Parallel
    <3>1. "escalate" \in S!Outcomes
      BY DEF S!Outcomes
    <3>2. S!JoinedOutcome(S!JoinedPlan) \in {"failed", "escalate"}
      BY <3>1 DEF S!JoinedOutcome
    <3>3. r.outcome = S!JoinedOutcome(S!JoinedPlan)
      BY <2>1 DEF S!StepResult
    <3>4. QED
      BY <3>2, <3>3
  <2>2. CASE ~S!Parallel
    BY <1>1, <2>2, Alone
  <2>3. QED
    BY <2>1, <2>2
<1> HIDE DEF r
<1>3. S!After(r) \in {"blocked", "failed"}
  BY <1>1, <1>2 DEF S!After
<1>4. QED
  BY <1>1, <1>3

(* A parallel step drops no item of the checklist and does not finish a    *)
(* goal whose list is not done; what it merges ended well; its worktrees   *)
(* go; a failure is not reported as the cancellation it caused; a conflict *)
(* stops the goal (ext/goal: parallel.go, worktree_step.go, runner.go).    *)
THEOREM GoalStepsHold == MCSpec => StepsHold
<1> DEFINE I == part = "step" => StepInv
<1>1. MCInit => I
  BY StepStarts DEF MCInit
<1>2. I /\ [MCNext]_all => I'
  <2> SUFFICES ASSUME I, [MCNext]_all, part' = "step" PROVE StepInv'
    OBVIOUS
  <2>1. CASE UNCHANGED all
    BY <2>1, StepStays DEF all
  <2>2. CASE MCNext
    BY <2>2, StepNext DEF MCNext
  <2>3. QED
    BY <2>1, <2>2
<1> DEFINE List  == S!Joining /\ S!Whole \notin batch =>
                      /\ DOMAIN plan' = DOMAIN plan
                      /\ S!Parallel /\ status' = "done" => S!AllDone(plan')
           Ends  == \A i \in merged' \ merged :
                      status = "running" => res[i].err = "" /\ res[i].outcome \in {"done", "continue"}
           Trees == \A i \in Items :
                      taskPc[i] \notin {"run", "fallback", "joining"} /\ taskPc'[i] = "joining"
                        /\ tree'[i] # "none" => res'[i].outcome = "escalate" \/ S!Cancelled \/ peer
           Cause == S!Joining /\ sum'.err = "canceled" => stopped
           Stops == S!Joining /\ sum'.err = "" /\ (\E t \in batch : res[t].outcome = "escalate") =>
                      status' \in {"blocked", "failed", "partial"}
<1>3. I /\ [MCNext]_all =>
        [List]_S!vars /\ [Ends]_S!vars /\ [Trees]_S!vars /\ [Cause]_S!vars /\ [Stops]_S!vars
  <2>1. SUFFICES ASSUME I, [MCNext]_all, ~UNCHANGED S!vars
                 PROVE  List /\ Ends /\ Trees /\ Cause /\ Stops
    OBVIOUS
  <2>2. StepInv /\ S!Next
    BY <2>1 DEF MCNext, all, S!vars, stepVars
  <2>3. QED
    BY <2>2, ListKept, EndedWell, TreesGo, CauseTold, ConflictTold
<1>4. QED
  BY <1>1, <1>2, <1>3, PTL
  DEF MCSpec, StepsHold, S!ChecklistHolds, S!MergedEndedWell, S!WorktreesGo, S!RootCause, S!ConflictStops

=============================================================================
